--------------------------- MODULE CreditsProofs ---------------------------
(***************************************************************************)
(* Proofs about the credit books and the switches, for any number of       *)
(* accounts, invocations, checkouts, payments and instances.               *)
(*                                                                         *)
(* Each rests on an invariant of its own over the same types: PurchasesInv *)
(* ties the purchases in a ledger to the paid checkouts, ChargesInv the    *)
(* batch a transaction took to the queue, BalancesInv every balance, that  *)
(* of an account without a wallet included, to its ledger and charges,     *)
(* GrantSumsInv what a wallet was granted to the month it was granted last,*)
(* and SwitchesInv whom a snapshot blocks to when they were last out.      *)
(***************************************************************************)
EXTENDS Switches, FiniteSetTheorems, FunctionTheorems, WellFoundedInduction, TLAPS

----------------------------------------------------------------------------
(* Sums.  A balance is a sum over a ledger and over charges, both of which  *)
(* only grow.  SumFunctionOnSet folds + over a finite set, taking an        *)
(* element at a time; what follows is that it may take them in any order.   *)

\* Among sets of members of a finite set there is a smallest: one none of whose
\* proper subsets is among them.
LEMMA HasSmallest ==
    ASSUME NEW S, IsFiniteSet(S), NEW B, B \subseteq SUBSET S, B # {}
    PROVE  \E T \in B : \A U \in SUBSET T : U # T => U \notin B
<1> DEFINE R == StrictSubsetOrdering(S)
<1>1. IsWellFoundedOn(R, FiniteSubsetsOf(S)) /\ FiniteSubsetsOf(S) = SUBSET S
  BY FS_StrictSubsetOrderingWellFounded, FS_FiniteSubsetsOfFinite
<1>2. \A T \in SUBSET S : \A U \in SUBSET T : U # T => <<U, T>> \in R
  BY DEF StrictSubsetOrdering
<1> HIDE DEF R
<1>3. PICK T \in B : \A U \in B : ~(<<U, T>> \in R)
  BY <1>1, WFMin
<1> QED
  BY <1>2, <1>3

\* The element a fold takes first, and what the fold of f over the subsets of S
\* has to be.
OneOf(T) == CHOOSE x \in T : TRUE
IsFold(f, g, S) ==
    g = [T \in SUBSET S |-> IF T = {} THEN 0 ELSE f[OneOf(T)] + g[T \ {OneOf(T)}]]
Fold(f, S) == CHOOSE g : IsFold(f, g, S)

\* The community module's sum is the fold over the whole set.
LEMMA SumIsFold == ASSUME NEW f, NEW S PROVE SumFunctionOnSet(f, S) = Fold(f, S)[S]
BY DEF SumFunctionOnSet, FoldFunctionOnSet, MapThenFoldSet, Fold, IsFold, OneOf

\* What a fold takes first is in the set, and the rest is smaller.
LEMMA TakesOne ==
    ASSUME NEW T, T # {}
    PROVE  OneOf(T) \in T /\ T \ {OneOf(T)} \in SUBSET T /\ T \ {OneOf(T)} # T
<1>1. OneOf(T) \in T
  BY DEF OneOf
<1> QED
  BY <1>1

\* What a fold is at each subset, as its definition has it.
LEMMA FoldAt ==
    ASSUME NEW f, NEW g, NEW S, IsFold(f, g, S), NEW T \in SUBSET S
    PROVE  g[T] = IF T = {} THEN 0 ELSE f[OneOf(T)] + g[T \ {OneOf(T)}]
BY DEF IsFold

\* Folds over different sets agree on the subsets they share.
LEMMA FoldsAgree ==
    ASSUME NEW f, NEW g, NEW h, NEW S, NEW U, IsFold(f, g, S), IsFold(f, h, U),
           NEW T, IsFiniteSet(T), T \subseteq S, T \subseteq U
    PROVE  g[T] = h[T]
<1> DEFINE B == {V \in SUBSET T : g[V] # h[V]}
<1>1. SUFFICES ASSUME B # {}  PROVE FALSE
  OBVIOUS
<1>2. PICK V \in B : \A W \in SUBSET V : W # V => W \notin B
  <2>1. B \subseteq SUBSET T
    OBVIOUS
  <2> HIDE DEF B
  <2> QED
    BY <1>1, <2>1, HasSmallest
<1>3. /\ g[V] = IF V = {} THEN 0 ELSE f[OneOf(V)] + g[V \ {OneOf(V)}]
      /\ h[V] = IF V = {} THEN 0 ELSE f[OneOf(V)] + h[V \ {OneOf(V)}]
  <2>1. V \in SUBSET S /\ V \in SUBSET U
    BY <1>2
  <2> HIDE DEF B
  <2>2. g[V] = IF V = {} THEN 0 ELSE f[OneOf(V)] + g[V \ {OneOf(V)}]
    BY <2>1, FoldAt
  <2>3. h[V] = IF V = {} THEN 0 ELSE f[OneOf(V)] + h[V \ {OneOf(V)}]
    BY <2>1, FoldAt
  <2> QED
    BY <2>2, <2>3
<1>4. V # {} => g[V \ {OneOf(V)}] = h[V \ {OneOf(V)}]
  BY <1>2, TakesOne
<1> QED
  BY <1>2, <1>3, <1>4

\* A finite set has a fold: a smallest subset without one would have one.
LEMMA FoldExists ==
    ASSUME NEW f, NEW S, IsFiniteSet(S)
    PROVE  IsFold(f, Fold(f, S), S)
<1> DEFINE B == {T \in SUBSET S : ~ \E g : IsFold(f, g, T)}
<1>1. SUFFICES ASSUME B # {}  PROVE FALSE
  BY DEF Fold
<1>2. PICK T \in B : \A U \in SUBSET T : U # T => U \notin B
  <2>1. B \subseteq SUBSET S
    OBVIOUS
  <2> HIDE DEF B
  <2> QED
    BY <1>1, <2>1, HasSmallest
<1>3. ASSUME NEW U \in SUBSET T, U # T  PROVE IsFold(f, Fold(f, U), U) /\ IsFiniteSet(U)
  <2>1. \E g : IsFold(f, g, U)
    BY <1>2, <1>3
  <2>2. IsFiniteSet(U)
    BY <1>2, <1>3, FS_Subset
  <2> QED
    BY <2>1, <2>2 DEF Fold
<1> DEFINE Value(V) == IF V = {} THEN 0
                       ELSE f[OneOf(V)] + Fold(f, V \ {OneOf(V)})[V \ {OneOf(V)}]
           h == [V \in SUBSET T |-> Value(V)]
<1>4. ASSUME NEW W \in SUBSET T, W # T  PROVE h[W] = Fold(f, W)[W]
  <2>1. Fold(f, W)[W] = IF W = {} THEN 0 ELSE f[OneOf(W)] + Fold(f, W)[W \ {OneOf(W)}]
    BY <1>3, <1>4, FoldAt
  <2>2. CASE W = {}
    BY <2>1, <2>2
  <2>3. CASE W # {}
    <3> DEFINE V == W \ {OneOf(W)}
    <3>1. V \in SUBSET W /\ V \in SUBSET T /\ V # T
      BY <1>4, <2>3, TakesOne
    <3>2. IsFold(f, Fold(f, V), V) /\ IsFold(f, Fold(f, W), W) /\ IsFiniteSet(V)
      BY <1>3, <1>4, <3>1
    <3> HIDE DEF V
    <3>3. Fold(f, W)[V] = Fold(f, V)[V]
      BY <3>1, <3>2, FoldsAgree
    <3> QED
      BY <2>1, <2>3, <3>3 DEF V
  <2> QED
    BY <2>2, <2>3
<1>5. ASSUME NEW V \in SUBSET T
      PROVE  h[V] = IF V = {} THEN 0 ELSE f[OneOf(V)] + h[V \ {OneOf(V)}]
  <2>1. CASE V = {}
    BY <2>1
  <2>2. CASE V # {}
    <3> DEFINE W == V \ {OneOf(V)}
    <3>1. W \in SUBSET T /\ W # T
      BY <2>2, TakesOne
    <3>2. h[W] = Fold(f, W)[W]
      BY <1>4, <3>1
    <3>3. h[V] = f[OneOf(V)] + Fold(f, W)[W]
      BY <2>2
    <3> HIDE DEF h
    <3> QED
      BY <2>2, <3>2, <3>3
  <2> QED
    BY <2>1, <2>2
<1>6. IsFold(f, h, T)
  <2>1. h = [V \in SUBSET T |-> h[V]]
    OBVIOUS
  <2> HIDE DEF h
  <2> QED
    BY <1>5, <2>1 DEF IsFold
<1> QED
  BY <1>2, <1>6

\* The sum over a set is that of the rest and one more.
LEMMA SumTakesOne ==
    ASSUME NEW f, NEW S, IsFiniteSet(S)
    PROVE  SumFunctionOnSet(f, S) =
               IF S = {} THEN 0
               ELSE f[OneOf(S)] + SumFunctionOnSet(f, S \ {OneOf(S)})
<1> DEFINE rest == S \ {OneOf(S)}
<1>1. Fold(f, S)[S] = IF S = {} THEN 0 ELSE f[OneOf(S)] + Fold(f, S)[rest]
  BY FoldExists, FoldAt
<1>2. IsFiniteSet(rest) /\ rest \subseteq S
  BY FS_Subset
<1> HIDE DEF rest
<1>3. IsFold(f, Fold(f, S), S) /\ IsFold(f, Fold(f, rest), rest)
  BY <1>2, FoldExists
<1>4. Fold(f, S)[rest] = Fold(f, rest)[rest]
  BY <1>2, <1>3, FoldsAgree
<1>5. SumFunctionOnSet(f, S) = Fold(f, S)[S] /\ SumFunctionOnSet(f, rest) = Fold(f, rest)[rest]
  BY SumIsFold
<1> QED
  BY <1>1, <1>4, <1>5 DEF rest

\* The sum over a finite set of integers is one.
LEMMA SumIsInt ==
    ASSUME NEW f, NEW S, IsFiniteSet(S), \A x \in S : f[x] \in Int
    PROVE  SumFunctionOnSet(f, S) \in Int
<1> DEFINE B == {T \in SUBSET S : SumFunctionOnSet(f, T) \notin Int}
<1>1. SUFFICES ASSUME B # {}  PROVE FALSE
  OBVIOUS
<1>2. PICK T \in B : \A U \in SUBSET T : U # T => U \notin B
  <2>1. B \subseteq SUBSET S
    OBVIOUS
  <2> HIDE DEF B
  <2> QED
    BY <1>1, <2>1, HasSmallest
<1>3. IsFiniteSet(T)
  BY <1>2, FS_Subset
<1>4. SumFunctionOnSet(f, T) = IF T = {} THEN 0
                               ELSE f[OneOf(T)] + SumFunctionOnSet(f, T \ {OneOf(T)})
  BY <1>3, SumTakesOne
<1>5. T # {} => f[OneOf(T)] \in Int /\ SumFunctionOnSet(f, T \ {OneOf(T)}) \in Int
  BY <1>2, TakesOne
<1> QED
  BY <1>2, <1>4, <1>5

\* Any element may be taken first.
LEMMA SumTakesAny ==
    ASSUME NEW f, NEW S, IsFiniteSet(S), \A x \in S : f[x] \in Int, NEW y \in S
    PROVE  SumFunctionOnSet(f, S) = f[y] + SumFunctionOnSet(f, S \ {y})
<1> DEFINE Sum(T) == SumFunctionOnSet(f, T)
           B == {T \in SUBSET S : \E x \in T : Sum(T) # f[x] + Sum(T \ {x})}
<1> HIDE DEF Sum
<1>1. SUFFICES ASSUME B # {}  PROVE FALSE
  BY DEF Sum
<1>2. PICK T \in B : \A U \in SUBSET T : U # T => U \notin B
  <2>1. B \subseteq SUBSET S
    OBVIOUS
  <2> HIDE DEF B
  <2> QED
    BY <1>1, <2>1, HasSmallest
<1>3. PICK x \in T : Sum(T) # f[x] + Sum(T \ {x})
  BY <1>2
<1> DEFINE p == OneOf(T)
           A == T \ {p}
           C == T \ {x}
           D == T \ {p, x}
<1>4. IsFiniteSet(T) /\ T \subseteq S /\ p \in T
  BY <1>2, <1>3, FS_Subset, TakesOne
<1>5. Sum(T) = f[p] + Sum(A)
  BY <1>3, <1>4, SumTakesOne DEF Sum
<1>6. p # x
  BY <1>3, <1>5
<1>7. A \ {x} = D /\ C \ {p} = D /\ x \in A /\ p \in C
  BY <1>3, <1>4, <1>6
<1>8. A \in SUBSET T /\ A # T /\ C \in SUBSET T /\ C # T
  BY <1>3, <1>4
<1>9. A \notin B /\ C \notin B
  BY <1>2, <1>8
<1>10. Sum(A) = f[x] + Sum(D) /\ Sum(C) = f[p] + Sum(D)
  BY <1>4, <1>7, <1>8, <1>9
<1>11. Sum(D) \in Int /\ f[x] \in Int /\ f[p] \in Int
  <2>1. IsFiniteSet(D) /\ D \subseteq S
    BY <1>4, FS_Subset
  <2> HIDE DEF D, p
  <2> QED
    BY <1>3, <1>4, <2>1, SumIsInt DEF Sum
<1> HIDE DEF p, A, C, D
<1>12. Sum(T) = f[x] + Sum(C)
  BY <1>5, <1>10, <1>11
<1> QED
  BY <1>3, <1>12 DEF C

\* One more in the set is one more in the sum.
LEMMA SumAdds ==
    ASSUME NEW f, NEW S, IsFiniteSet(S), NEW y, y \notin S, \A x \in S \cup {y} : f[x] \in Int
    PROVE  SumFunctionOnSet(f, S \cup {y}) = SumFunctionOnSet(f, S) + f[y]
<1>1. IsFiniteSet(S \cup {y}) /\ (S \cup {y}) \ {y} = S
  BY FS_AddElement
<1>2. SumFunctionOnSet(f, S \cup {y}) = f[y] + SumFunctionOnSet(f, S)
  BY <1>1, SumTakesAny
<1>3. SumFunctionOnSet(f, S) \in Int
  BY SumIsInt
<1> QED
  BY <1>2, <1>3

\* Functions that agree on a set have one sum over it.
LEMMA SumsAgree ==
    ASSUME NEW f, NEW g, NEW S, IsFiniteSet(S), \A x \in S : f[x] = g[x]
    PROVE  SumFunctionOnSet(f, S) = SumFunctionOnSet(g, S)
<1> DEFINE B == {T \in SUBSET S : SumFunctionOnSet(f, T) # SumFunctionOnSet(g, T)}
<1>1. SUFFICES ASSUME B # {}  PROVE FALSE
  OBVIOUS
<1>2. PICK T \in B : \A U \in SUBSET T : U # T => U \notin B
  <2>1. B \subseteq SUBSET S
    OBVIOUS
  <2> HIDE DEF B
  <2> QED
    BY <1>1, <2>1, HasSmallest
<1>3. IsFiniteSet(T)
  BY <1>2, FS_Subset
<1> DEFINE p == OneOf(T)
<1>4. /\ SumFunctionOnSet(f, T) = IF T = {} THEN 0 ELSE f[p] + SumFunctionOnSet(f, T \ {p})
      /\ SumFunctionOnSet(g, T) = IF T = {} THEN 0 ELSE g[p] + SumFunctionOnSet(g, T \ {p})
  BY <1>3, SumTakesOne
<1>5. T # {} => f[p] = g[p] /\ SumFunctionOnSet(f, T \ {p}) = SumFunctionOnSet(g, T \ {p})
  BY <1>2, TakesOne
<1> QED
  BY <1>2, <1>4, <1>5

\* The sum over two sets that share nothing is the sum of both.
LEMMA SumsJoin ==
    ASSUME NEW f, NEW S, IsFiniteSet(S), NEW U, IsFiniteSet(U), S \cap U = {},
           \A x \in S \cup U : f[x] \in Int
    PROVE  SumFunctionOnSet(f, S \cup U) = SumFunctionOnSet(f, S) + SumFunctionOnSet(f, U)
<1> DEFINE Sum(T) == SumFunctionOnSet(f, T)
           B == {T \in SUBSET U : Sum(S \cup T) # Sum(S) + Sum(T)}
<1> HIDE DEF Sum
<1>1. SUFFICES ASSUME B # {}  PROVE FALSE
  BY DEF Sum
<1>2. PICK T \in B : \A V \in SUBSET T : V # T => V \notin B
  <2>1. B \subseteq SUBSET U
    OBVIOUS
  <2> HIDE DEF B
  <2> QED
    BY <1>1, <2>1, HasSmallest
<1>3. Sum(S) \in Int
  BY SumIsInt DEF Sum
<1>4. CASE T = {}
  <2>1. Sum(T) = 0
    BY <1>4, FS_EmptySet, SumTakesOne DEF Sum
  <2>2. S \cup T = S
    BY <1>4
  <2>3. Sum(S \cup T) = Sum(S)
    BY <2>2
  <2>4. Sum(S \cup T) # Sum(S) + Sum(T)
    BY <1>2
  <2> QED
    BY <1>3, <2>1, <2>3, <2>4
<1>5. ASSUME NEW x \in T  PROVE FALSE
  <2> DEFINE V == T \ {x}
  <2>1. V \in SUBSET T /\ V # T /\ x \notin V /\ x \notin S \cup V /\ V \cup {x} = T
        /\ (S \cup V) \cup {x} = S \cup T
    BY <1>2, <1>5
  <2>2. IsFiniteSet(V) /\ IsFiniteSet(S \cup V) /\ V \subseteq U
    BY <1>2, FS_Subset, FS_Union
  <2>3. Sum(S \cup V) = Sum(S) + Sum(V)
    BY <1>2, <2>1
  <2> HIDE DEF V
  <2>4. Sum(T) = Sum(V) + f[x] /\ Sum(V) \in Int /\ f[x] \in Int
    <3>1. \A y \in V \cup {x} : f[y] \in Int
      BY <1>2, <1>5, <2>2
    <3>2. SumFunctionOnSet(f, V \cup {x}) = SumFunctionOnSet(f, V) + f[x]
      BY <2>1, <2>2, <3>1, SumAdds
    <3>3. SumFunctionOnSet(f, V) \in Int
      BY <2>2, <3>1, SumIsInt
    <3> QED
      BY <2>1, <3>1, <3>2, <3>3 DEF Sum
  <2>5. Sum(S \cup T) = Sum(S \cup V) + f[x]
    <3>1. \A y \in (S \cup V) \cup {x} : f[y] \in Int
      BY <1>2, <1>5, <2>2
    <3>2. SumFunctionOnSet(f, (S \cup V) \cup {x}) = SumFunctionOnSet(f, S \cup V) + f[x]
      BY <2>1, <2>2, <3>1, SumAdds
    <3> QED
      BY <2>1, <3>2 DEF Sum
  <2> QED
    BY <1>2, <1>3, <2>3, <2>4, <2>5
<1> QED
  BY <1>4, <1>5

\* A sum of nothing is nothing.
LEMMA SumOfNothing ==
    ASSUME NEW f, NEW S, IsFiniteSet(S), \A x \in S : f[x] = 0
    PROVE  SumFunctionOnSet(f, S) = 0
<1> DEFINE B == {T \in SUBSET S : SumFunctionOnSet(f, T) # 0}
<1>1. SUFFICES ASSUME B # {}  PROVE FALSE
  OBVIOUS
<1>2. PICK T \in B : \A U \in SUBSET T : U # T => U \notin B
  <2>1. B \subseteq SUBSET S
    OBVIOUS
  <2> HIDE DEF B
  <2> QED
    BY <1>1, <2>1, HasSmallest
<1>3. IsFiniteSet(T)
  BY <1>2, FS_Subset
<1>4. SumFunctionOnSet(f, T) = IF T = {} THEN 0
                               ELSE f[OneOf(T)] + SumFunctionOnSet(f, T \ {OneOf(T)})
  BY <1>3, SumTakesOne
<1>5. T # {} => f[OneOf(T)] = 0 /\ SumFunctionOnSet(f, T \ {OneOf(T)}) = 0
  BY <1>2, TakesOne
<1> QED
  BY <1>2, <1>4, <1>5

\* A finite set of numbers has a greatest.
LEMMA HasGreatest ==
    ASSUME NEW S, IsFiniteSet(S), S \subseteq Int, S # {}
    PROVE  Max(S) \in S /\ \A x \in S : x <= Max(S)
<1> DEFINE B == {T \in SUBSET S : T # {} /\ ~ \E x \in T : \A y \in T : x >= y}
<1>1. ASSUME B # {} PROVE FALSE
  <2>1. PICK T \in B : \A U \in SUBSET T : U # T => U \notin B
    <3>1. B \subseteq SUBSET S
      OBVIOUS
    <3> HIDE DEF B
    <3> QED
      BY <1>1, <3>1, HasSmallest
  <2> DEFINE p == OneOf(T)
             U == T \ {p}
  <2>2. p \in T /\ U \in SUBSET T /\ U # T /\ T = U \cup {p} /\ T \subseteq S
    BY <2>1, TakesOne
  <2>3. \A y \in T : y \in Int
    BY <2>2
  <2> HIDE DEF p
  <2>4. CASE U = {}
    BY <2>1, <2>2, <2>3, <2>4
  <2>5. CASE U # {}
    <3>1. PICK x \in U : \A y \in U : x >= y
      BY <2>1, <2>2, <2>5
    <3>2. CASE x >= p
      BY <2>1, <2>2, <3>1, <3>2
    <3>3. CASE ~(x >= p)
      <4>1. \A y \in T : p >= y
        BY <2>2, <2>3, <3>1, <3>3
      <4> QED
        BY <2>1, <2>2, <4>1
    <3> QED
      BY <3>2, <3>3
  <2> QED
    BY <2>4, <2>5
<1>2. \E x \in S : \A y \in S : x >= y
  BY <1>1
<1>3. Max(S) \in S /\ \A y \in S : Max(S) >= y
  BY <1>2 DEF Max
<1> QED
  BY <1>3

----------------------------------------------------------------------------
(* The types the arguments need *)

Transactions ==
    {Idle}
        \cup [step : {"charge"}, rows : SUBSET (Invocations \X Accounts),
              payers : SUBSET Accounts]
        \cup [step : {"grant"}, period : Nat, due : SUBSET Accounts]
        \cup [step : {"discard"}, rows : SUBSET (Invocations \X Accounts)]

\* A wallet but for its balance: that it is a number follows from its sums.
IsWallet(w) ==
    /\ DOMAIN w = {"balance", "granted", "free", "unlimited"}
    /\ w.granted \in Nat
    /\ w.free \in Overrides \cup {MonthlyFree}

WalletsOK ==
    /\ accounts \subseteq Accounts
    /\ DOMAIN wallets \subseteq accounts
    /\ \A a \in DOMAIN wallets : IsWallet(wallets[a])

CheckoutRows ==
    [account : Accounts \cup {NoAccount},
     status : {"none", "open", "paid", "failed", "unapplied"},
     linked : BOOLEAN, payment : Payments \cup {NoPayment}]

BooksTypes ==
    /\ WalletsOK
    /\ queue \subseteq Invocations \X Accounts
    /\ ledger \in [Accounts -> Seq(Rows)]
    /\ checkouts \in [Checkouts -> CheckoutRows]
    /\ month \in Nat \ {0}
    /\ work \in [Instances -> Transactions]

\* Adding to a wallet, the first time or again, keeps it a wallet.
LEMMA PlusIsWallet ==
    ASSUME WalletsOK, NEW a, NEW amount
    PROVE  /\ IsWallet(Wallet(a)) /\ IsWallet(Plus(a, amount))
           /\ Plus(a, amount).granted = Wallet(a).granted
           /\ Plus(a, amount).free = Wallet(a).free
           /\ Plus(a, amount).unlimited = Wallet(a).unlimited
<1>1. IsWallet(Wallet(a))
  BY CreditsAssumption DEF WalletsOK, IsWallet, Wallet, NewWallet
<1> QED
  BY <1>1 DEF IsWallet, Plus

\* Upserts, debits and grants leave wallets of accounts that are there.
LEMMA WalletsStep == ASSUME BooksTypes, [Next]_vars PROVE WalletsOK'
<1> USE CreditsAssumption DEF BooksTypes
<1>1. ASSUME NEW a \in Accounts, DeleteAccount(a) PROVE WalletsOK'
  BY <1>1 DEF DeleteAccount, WalletsOK, IsWallet
<1>2. ASSUME NEW a \in Accounts, NEW amount \in Entries, AddEntry(a, amount)
      PROVE WalletsOK'
  BY <1>2, PlusIsWallet DEF AddEntry, Upserted, WalletsOK
<1>3. ASSUME NEW a \in Accounts, NEW free \in Overrides \cup {MonthlyFree},
             NEW unlimited \in BOOLEAN, UpdateSettings(a, free, unlimited)
      PROVE WalletsOK'
  <2>1. IsWallet(Wallet(a)) /\ free \in Overrides \cup {MonthlyFree}
    BY DEF WalletsOK, IsWallet, Wallet, NewWallet
  <2>2. IsWallet([Wallet(a) EXCEPT !.free = free, !.unlimited = unlimited])
    BY <2>1 DEF IsWallet
  <2> QED
    BY <1>3, <2>2 DEF UpdateSettings, Upserted, WalletsOK
<1>4. ASSUME NEW i \in Instances, CommitCharge(i) PROVE WalletsOK'
  <2> DEFINE made == {c \in Priced(work[i].rows, work[i].payers) :
                          \A d \in charges : d.id # c.id}
             debited == {c.account : c \in {d \in made : d.cost > 0}}
  <2>1. CASE References(debited)
    <3>1. wallets' = Upserted(debited, LAMBDA a : Plus(a, -Debit(made, a)))
      BY <1>4, <2>1 DEF CommitCharge
    <3>2. debited \subseteq accounts /\ accounts' = accounts
      BY <1>4, <2>1 DEF References, CommitCharge, Ends
    <3> HIDE DEF debited, made
    <3> QED
      BY <3>1, <3>2, PlusIsWallet DEF Upserted, WalletsOK
  <2>2. CASE ~References(debited)
    BY <1>4, <2>2 DEF CommitCharge, Ends, WalletsOK
  <2> QED
    BY <2>1, <2>2
<1>5. ASSUME NEW i \in Instances, CommitGrant(i) PROVE WalletsOK'
  <2>1. work[i] \in Transactions /\ work[i].step = "grant"
    BY <1>5 DEF CommitGrant
  <2>2. work[i].period \in Nat
    BY <2>1 DEF Transactions, Idle
  <2>3. \A a, amount : IsWallet([Plus(a, amount) EXCEPT !.granted = work[i].period])
    BY <2>2, PlusIsWallet DEF IsWallet
  <2>4. accounts' = accounts
    BY <1>5 DEF CommitGrant, Ends
  <2>5. DOMAIN wallets' = DOMAIN wallets
    BY <1>5 DEF CommitGrant, Upserted, Due
  <2>6. \A a \in DOMAIN wallets : IsWallet(wallets'[a])
    BY <1>5, <2>3 DEF CommitGrant, Upserted, WalletsOK, Due
  <2> QED
    BY <2>4, <2>5, <2>6 DEF WalletsOK
<1>6. ASSUME NEW c \in Checkouts, NEW p \in Payments, NEW agreed \in BOOLEAN,
             PaymentSucceeded(p, c, agreed)
      PROVE WalletsOK'
  <2>1. accounts' = accounts
    BY <1>6 DEF PaymentSucceeded, SetCheckout
  <2>2. CASE agreed /\ checkouts[c].account \in accounts
    <3>1. wallets' = Upserted({checkouts[c].account}, LAMBDA x : Plus(x, Price))
      BY <1>6, <2>2 DEF PaymentSucceeded
    <3> QED
      BY <2>1, <2>2, <3>1, PlusIsWallet DEF Upserted, WalletsOK
  <2>3. CASE ~(agreed /\ checkouts[c].account \in accounts)
    BY <1>6, <2>1, <2>3 DEF PaymentSucceeded, WalletsOK
  <2> QED
    BY <2>2, <2>3
<1>7. ASSUME UNCHANGED <<accounts, wallets>> PROVE WalletsOK'
  BY <1>7 DEF WalletsOK
<1> HIDE DEF BooksTypes
<1>8. CASE NextMonth
  BY <1>7, <1>8 DEF NextMonth, books
<1>9. ASSUME NEW c \in Checkouts, NEW a \in Accounts, CreateCheckout(c, a)
      PROVE WalletsOK'
  BY <1>7, <1>9 DEF CreateCheckout, SetCheckout
<1>10. ASSUME NEW c \in Checkouts, NEW opened \in BOOLEAN, OpenSession(c, opened)
       PROVE WalletsOK'
  BY <1>7, <1>10 DEF OpenSession, SetCheckout
<1>11. ASSUME NEW c \in Checkouts, PaymentFailed(c) PROVE WalletsOK'
  BY <1>7, <1>11 DEF PaymentFailed, SetCheckout
<1>12. ASSUME NEW v \in Invocations, NEW a \in Accounts, Accept(v, a) PROVE WalletsOK'
  BY <1>7, <1>12 DEF Accept
<1>13. ASSUME NEW i \in Instances,
              \/ BeginCharge(i) \/ BeginDiscard(i)
              \/ \E period \in 1 .. MaxMonth : BeginGrant(i, period)
       PROVE WalletsOK'
  BY <1>7, <1>13 DEF BeginCharge, BeginDiscard, BeginGrant, Opens, books
<1>14. ASSUME NEW i \in Instances, CommitDiscard(i) \/ Crash(i) PROVE WalletsOK'
  BY <1>7, <1>14 DEF CommitDiscard, Crash, Ends, books
<1>15. CASE UNCHANGED vars
  BY <1>7, <1>15 DEF vars
<1> QED
  BY <1>1, <1>2, <1>3, <1>4, <1>5, <1>6, <1>8, <1>9, <1>10, <1>11, <1>12,
     <1>13, <1>14, <1>15
  DEF Next, Customers, Accounting

\* A grant's row is a row of the ledger.
LEMMA GrantIsRow ==
    ASSUME BooksTypes, NEW a \in DOMAIN wallets, NEW period \in Nat
    PROVE  Row("free_grant", MonthsOwed(wallets[a].granted, period) * wallets[a].free,
               NoPayment) \in Rows
<1>1. wallets[a].free \in Nat /\ wallets[a].granted \in Nat
  BY CreditsAssumption DEF BooksTypes, WalletsOK, IsWallet
<1>2. MonthsOwed(wallets[a].granted, period) \in Int
  BY <1>1, CreditsAssumption DEF MonthsOwed
<1>3. MonthsOwed(wallets[a].granted, period) * wallets[a].free \in Int
  BY <1>1, <1>2
<1> QED
  BY <1>3 DEF Row, Rows

\* What is appended to a ledger, and where it ends up.
LEMMA OneMoreRow ==
    ASSUME NEW rows \in Seq(Rows), NEW row \in Rows
    PROVE  /\ Append(rows, row) \in Seq(Rows)
           /\ DOMAIN Append(rows, row) = DOMAIN rows \cup {Len(rows) + 1}
           /\ Len(rows) + 1 \notin DOMAIN rows
           /\ \A n \in DOMAIN rows : Append(rows, row)[n] = rows[n]
           /\ Append(rows, row)[Len(rows) + 1] = row
OBVIOUS

LedgersGrow ==
    /\ ledger' \in [Accounts -> Seq(Rows)]
    /\ \A a \in Accounts :
           \/ ledger'[a] = ledger[a]
           \/ \E row \in Rows : ledger'[a] = Append(ledger[a], row)

\* A step leaves every ledger alone or adds one row to it.
LEMMA LedgerStep == ASSUME BooksTypes, [Next]_vars PROVE LedgersGrow
<1> USE DEF LedgersGrow
<1>0. ledger \in [Accounts -> Seq(Rows)] /\ work \in [Instances -> Transactions]
  BY DEF BooksTypes
<1>1. ASSUME NEW a \in Accounts, NEW amount \in Entries, AddEntry(a, amount)
      PROVE LedgersGrow
  <2>1. Row("operator", amount, NoPayment) \in Rows
    BY CreditsAssumption DEF Row, Rows
  <2> QED
    BY <1>0, <1>1, <2>1 DEF AddEntry, Record
<1>2. ASSUME NEW a \in Accounts, NEW free \in Overrides \cup {MonthlyFree},
             NEW unlimited \in BOOLEAN, UpdateSettings(a, free, unlimited)
      PROVE LedgersGrow
  <2>1. Row("settings", 0, NoPayment) \in Rows
    BY DEF Row, Rows
  <2> QED
    BY <1>0, <1>2, <2>1 DEF UpdateSettings, Record
<1>3. ASSUME NEW i \in Instances, CommitGrant(i) PROVE LedgersGrow
  <2>1. work[i] \in Transactions /\ work[i].step = "grant"
    BY <1>0, <1>3 DEF CommitGrant
  <2>2. work[i].period \in Nat
    BY <2>1 DEF Transactions, Idle
  <2> DEFINE delta(a) == MonthsOwed(wallets[a].granted, work[i].period)
                             * wallets[a].free
  <2>3. \A a \in DOMAIN wallets : Row("free_grant", delta(a), NoPayment) \in Rows
    BY <2>2, GrantIsRow
  <2>4. ledger' = [a \in Accounts |->
                      IF a \in work[i].due \cap Due(work[i].period)
                        THEN Append(ledger[a], Row("free_grant", delta(a), NoPayment))
                        ELSE ledger[a]]
    BY <1>3 DEF CommitGrant, Granted
  <2>5. Due(work[i].period) \subseteq DOMAIN wallets
    BY DEF Due
  <2> HIDE DEF delta
  <2> QED
    BY <1>0, <2>3, <2>4, <2>5
<1>4. ASSUME NEW c \in Checkouts, NEW p \in Payments, NEW agreed \in BOOLEAN,
             PaymentSucceeded(p, c, agreed)
      PROVE LedgersGrow
  <2>1. Row("purchase", Price, p) \in Rows
    BY CreditsAssumption DEF Row, Rows
  <2> QED
    <3>1. CASE UNCHANGED ledger
      BY <1>0, <3>1
    <3>2. ASSUME NEW a \in Accounts, Record(a, Row("purchase", Price, p))
          PROVE LedgersGrow
      BY <1>0, <2>1, <3>2 DEF Record
    <3> QED
      BY <1>4, <3>1, <3>2 DEF PaymentSucceeded, BooksTypes, WalletsOK
<1>5. ASSUME UNCHANGED ledger PROVE LedgersGrow
  BY <1>0, <1>5
<1>6. CASE NextMonth
  BY <1>5, <1>6 DEF NextMonth, books
<1>7. ASSUME NEW c \in Checkouts, PaymentFailed(c) PROVE LedgersGrow
  BY <1>5, <1>7 DEF PaymentFailed
<1>8. ASSUME NEW c \in Checkouts, NEW opened \in BOOLEAN, OpenSession(c, opened)
      PROVE LedgersGrow
  BY <1>5, <1>8 DEF OpenSession
<1>14. ASSUME NEW c \in Checkouts, NEW a \in Accounts, CreateCheckout(c, a) PROVE LedgersGrow
  BY <1>5, <1>14 DEF CreateCheckout
<1>9. ASSUME NEW v \in Invocations, NEW a \in Accounts, Accept(v, a) PROVE LedgersGrow
  BY <1>5, <1>9 DEF Accept
<1>10. ASSUME NEW i \in Instances,
              \/ BeginCharge(i) \/ BeginDiscard(i)
              \/ \E period \in 1 .. MaxMonth : BeginGrant(i, period)
       PROVE LedgersGrow
  BY <1>5, <1>10 DEF BeginCharge, BeginDiscard, BeginGrant, Opens, books
<1>11. ASSUME NEW i \in Instances, CommitCharge(i) \/ CommitDiscard(i) \/ Crash(i)
       PROVE LedgersGrow
  BY <1>5, <1>11 DEF CommitCharge, CommitDiscard, Crash, books
<1>12. CASE UNCHANGED vars
  BY <1>5, <1>12 DEF vars
<1>13. ASSUME NEW a \in Accounts, DeleteAccount(a) PROVE LedgersGrow
  BY <1>5, <1>13 DEF DeleteAccount
<1> HIDE DEF LedgersGrow
<1> QED
  BY <1>1, <1>2, <1>3, <1>4, <1>6, <1>7, <1>8, <1>9, <1>10, <1>11, <1>12, <1>13,
     <1>14
  DEF Next, Customers, Accounting

\* The accounting transactions: their rows come from the queue.
LEMMA WorkStep ==
    ASSUME BooksTypes, [Next]_vars
    PROVE  /\ queue' \subseteq Invocations \X Accounts
           /\ work' \in [Instances -> Transactions]
           /\ month' \in Nat \ {0}
<1> DEFINE Goal == /\ queue' \subseteq Invocations \X Accounts
                   /\ work' \in [Instances -> Transactions]
                   /\ month' \in Nat \ {0}
<1>0. /\ queue \subseteq Invocations \X Accounts
      /\ work \in [Instances -> Transactions]
      /\ month \in Nat \ {0}
      /\ accounts \subseteq Accounts /\ DOMAIN wallets \subseteq Accounts
  BY DEF BooksTypes, WalletsOK
<1>1. Idle \in Transactions
  BY DEF Transactions
<1>2. ASSUME NEW v \in Invocations, NEW a \in Accounts, Accept(v, a) PROVE Goal
  BY <1>0, <1>2 DEF Accept
<1>3. CASE NextMonth
  BY <1>0, <1>3 DEF NextMonth, books
<1>4. ASSUME NEW i \in Instances, BeginCharge(i) PROVE Goal
  <2>1. PICK rows \in Batches :
            Opens(i, [step |-> "charge", rows |-> rows, payers |-> accounts])
    BY <1>4 DEF BeginCharge
  <2>2. [step |-> "charge", rows |-> rows, payers |-> accounts] \in Transactions
    BY <1>0 DEF Batches, Transactions
  <2> QED
    BY <1>0, <2>1, <2>2 DEF Opens, books
<1>5. ASSUME NEW i \in Instances, BeginDiscard(i) PROVE Goal
  <2>1. PICK rows \in Batches : Opens(i, [step |-> "discard", rows |-> rows])
    BY <1>5 DEF BeginDiscard
  <2>2. [step |-> "discard", rows |-> rows] \in Transactions
    BY <1>0 DEF Batches, Transactions
  <2> QED
    BY <1>0, <2>1, <2>2 DEF Opens, books
<1>6. ASSUME NEW i \in Instances, NEW period \in 1 .. MaxMonth, BeginGrant(i, period)
      PROVE Goal
  <2>1. [step |-> "grant", period |-> period, due |-> Due(period)] \in Transactions
    BY <1>0 DEF Due, Transactions
  <2> QED
    BY <1>0, <1>6, <2>1 DEF BeginGrant, Opens, books
<1>7. ASSUME NEW i \in Instances, CommitCharge(i) PROVE Goal
  <2>1. queue' \subseteq queue
    BY <1>7 DEF CommitCharge
  <2> QED
    BY <1>0, <1>1, <1>7, <2>1 DEF CommitCharge, Ends
<1>8. ASSUME NEW i \in Instances, CommitDiscard(i) \/ CommitGrant(i) \/ Crash(i)
      PROVE Goal
  BY <1>0, <1>1, <1>8 DEF CommitDiscard, CommitGrant, Crash, Ends, books
<1>9. ASSUME UNCHANGED <<queue, work, month>> PROVE Goal
  BY <1>0, <1>9
<1>10. CASE Customers
  BY <1>9, <1>10
  DEF Customers, AddEntry, UpdateSettings, DeleteAccount, CreateCheckout,
      OpenSession, PaymentSucceeded, PaymentFailed, SetCheckout
<1>11. CASE UNCHANGED vars
  BY <1>9, <1>11 DEF vars
<1> QED
  BY <1>2, <1>3, <1>4, <1>5, <1>6, <1>7, <1>8, <1>10, <1>11 DEF Next, Accounting

\* A checkout is only ever set to a row of credit_checkouts.
LEMMA CheckoutsStep ==
    ASSUME BooksTypes, [Next]_vars
    PROVE  checkouts' \in [Checkouts -> CheckoutRows]
<1> DEFINE Goal == checkouts' \in [Checkouts -> CheckoutRows]
<1>0. checkouts \in [Checkouts -> CheckoutRows] /\ accounts \subseteq Accounts
  BY DEF BooksTypes, WalletsOK
<1>1. ASSUME NEW c \in Checkouts, NEW row \in CheckoutRows, SetCheckout(c, row)
      PROVE Goal
  BY <1>0, <1>1 DEF SetCheckout
<1>2. ASSUME NEW c \in Checkouts, NEW a \in Accounts, CreateCheckout(c, a)
      PROVE Goal
  <2>1. [Unused EXCEPT !.account = a, !.status = "open"] \in CheckoutRows
    BY DEF Unused, CheckoutRows
  <2> QED
    BY <1>1, <1>2, <2>1 DEF CreateCheckout
<1>3. ASSUME NEW c \in Checkouts, NEW opened \in BOOLEAN, OpenSession(c, opened)
      PROVE Goal
  <2>1. /\ [checkouts[c] EXCEPT !.linked = TRUE] \in CheckoutRows
        /\ [checkouts[c] EXCEPT !.status = "failed"] \in CheckoutRows
    BY <1>0 DEF CheckoutRows
  <2> QED
    BY <1>1, <1>3, <2>1 DEF OpenSession
<1>4. ASSUME NEW c \in Checkouts, NEW p \in Payments, NEW agreed \in BOOLEAN,
             PaymentSucceeded(p, c, agreed)
      PROVE Goal
  <2>1. /\ [checkouts[c] EXCEPT !.status = "paid", !.payment = p] \in CheckoutRows
        /\ [checkouts[c] EXCEPT !.status = "unapplied", !.payment = p] \in CheckoutRows
    BY <1>0 DEF CheckoutRows
  <2> QED
    BY <1>1, <1>4, <2>1 DEF PaymentSucceeded
<1>5. ASSUME NEW c \in Checkouts, PaymentFailed(c) PROVE Goal
  <2>1. [checkouts[c] EXCEPT !.status = "failed"] \in CheckoutRows
    BY <1>0 DEF CheckoutRows
  <2> QED
    BY <1>1, <1>5, <2>1 DEF PaymentFailed
<1>6. ASSUME UNCHANGED checkouts PROVE Goal
  BY <1>0, <1>6
<1>7. ASSUME NEW a \in Accounts,
             \/ DeleteAccount(a)
             \/ \E amount \in Entries : AddEntry(a, amount)
             \/ \E free \in Overrides \cup {MonthlyFree}, unlimited \in BOOLEAN :
                    UpdateSettings(a, free, unlimited)
      PROVE Goal
  BY <1>6, <1>7 DEF DeleteAccount, AddEntry, UpdateSettings
<1>8. ASSUME NEW v \in Invocations, NEW a \in Accounts, Accept(v, a) PROVE Goal
  BY <1>6, <1>8 DEF Accept
<1>9. ASSUME NEW i \in Instances, Accounting(i) \/ Crash(i) PROVE Goal
  BY <1>6, <1>9
  DEF Accounting, BeginCharge, CommitCharge, BeginDiscard, CommitDiscard,
      BeginGrant, CommitGrant, Crash, Opens, Ends
<1>10. CASE NextMonth \/ UNCHANGED vars
  BY <1>6, <1>10 DEF NextMonth, vars
<1> QED
  BY <1>2, <1>3, <1>4, <1>5, <1>7, <1>8, <1>9, <1>10 DEF Next, Customers

\* Every step keeps the types.
LEMMA BooksTypesStep == ASSUME BooksTypes, [Next]_vars PROVE BooksTypes'
BY WalletsStep, LedgerStep, WorkStep, CheckoutsStep DEF LedgersGrow, BooksTypes

\* Empty books have the types.
LEMMA BooksTypesInit == Init => BooksTypes
BY CreditsAssumption
DEF Init, InitWith, BooksTypes, WalletsOK, Unused, CheckoutRows, Transactions

----------------------------------------------------------------------------
(* Purchases *)

Settled(c) == checkouts[c].status \in {"paid", "unapplied"}

\* A payment is written to a checkout when it is settled, and to no second one.
PaymentsSettleOnce ==
    /\ \A c \in Checkouts : checkouts[c].payment # NoPayment <=> Settled(c)
    /\ \A c, d \in Checkouts :
           Settled(c) /\ checkouts[c].payment = checkouts[d].payment => c = d

\* The rows of purchases and the paid checkouts match, payment by payment.
RowsArePaid ==
    \A a \in Accounts : \A n \in Purchases(a) :
        \E c \in PaidBy(a) : checkouts[c].payment = ledger[a][n].ref

PaidHaveRows ==
    \A a \in Accounts : \A c \in PaidBy(a) :
        \E n \in Purchases(a) : checkouts[c].payment = ledger[a][n].ref

RowsDiffer ==
    \A a \in Accounts : \A m, n \in Purchases(a) :
        ledger[a][m].ref = ledger[a][n].ref => m = n

PurchasesInv ==
    BooksTypes /\ PaymentsSettleOnce /\ RowsArePaid /\ PaidHaveRows /\ RowsDiffer

\* A settled checkout is not touched again.
LEMMA SettledStep ==
    ASSUME BooksTypes, [Next]_vars
    PROVE  \A c \in Checkouts : Settled(c) => checkouts'[c] = checkouts[c]
<1> DEFINE Goal == \A c \in Checkouts : Settled(c) => checkouts'[c] = checkouts[c]
<1>0. checkouts \in [Checkouts -> CheckoutRows]
  BY DEF BooksTypes
<1>1. ASSUME NEW c \in Checkouts, NEW row, ~Settled(c), SetCheckout(c, row)
      PROVE Goal
  BY <1>0, <1>1 DEF SetCheckout
<1>2. ASSUME NEW c \in Checkouts, NEW a \in Accounts, CreateCheckout(c, a)
      PROVE Goal
  BY <1>1, <1>2 DEF CreateCheckout, Settled, Unused
<1>3. ASSUME NEW c \in Checkouts, NEW opened \in BOOLEAN, OpenSession(c, opened)
      PROVE Goal
  BY <1>1, <1>3 DEF OpenSession, Settled
<1>4. ASSUME NEW c \in Checkouts, NEW p \in Payments, NEW agreed \in BOOLEAN,
             PaymentSucceeded(p, c, agreed)
      PROVE Goal
  BY <1>1, <1>4 DEF PaymentSucceeded, Payable, Settled
<1>5. ASSUME NEW c \in Checkouts, PaymentFailed(c) PROVE Goal
  BY <1>1, <1>5 DEF PaymentFailed, Failable, Settled
<1>6. ASSUME UNCHANGED checkouts PROVE Goal
  BY <1>6
<1>7. ASSUME NEW a \in Accounts,
             \/ DeleteAccount(a)
             \/ \E amount \in Entries : AddEntry(a, amount)
             \/ \E free \in Overrides \cup {MonthlyFree}, unlimited \in BOOLEAN :
                    UpdateSettings(a, free, unlimited)
      PROVE Goal
  BY <1>6, <1>7 DEF DeleteAccount, AddEntry, UpdateSettings
<1>8. ASSUME NEW v \in Invocations, NEW a \in Accounts, Accept(v, a) PROVE Goal
  BY <1>6, <1>8 DEF Accept
<1>9. ASSUME NEW i \in Instances, Accounting(i) \/ Crash(i) PROVE Goal
  BY <1>6, <1>9
  DEF Accounting, BeginCharge, CommitCharge, BeginDiscard, CommitDiscard,
      BeginGrant, CommitGrant, Crash, Opens, Ends
<1>10. CASE NextMonth \/ UNCHANGED vars
  BY <1>6, <1>10 DEF NextMonth, vars
<1> QED
  BY <1>2, <1>3, <1>4, <1>5, <1>7, <1>8, <1>9, <1>10 DEF Next, Customers

\* What a step does to the rows of purchases and to the settled checkouts: it
\* leaves both alone, or it is apply_succeeded.
LeavesPurchases ==
    /\ \A a \in Accounts : Purchases(a)' = Purchases(a)
    /\ \A a \in Accounts : \A n \in Purchases(a) : ledger'[a][n] = ledger[a][n]
    /\ \A c \in Checkouts :
           /\ checkouts'[c].payment = checkouts[c].payment
           /\ Settled(c)' <=> Settled(c)
           /\ Settled(c) => checkouts'[c] = checkouts[c]

\* A row that is not a purchase leaves an account's purchases as they are.
LEMMA OtherRowsLeavePurchases ==
    ASSUME BooksTypes, NEW a \in Accounts,
           \/ ledger'[a] = ledger[a]
           \/ \E row \in Rows : row.reason # "purchase"
                                /\ ledger'[a] = Append(ledger[a], row)
    PROVE  /\ Purchases(a)' = Purchases(a)
           /\ \A n \in Purchases(a) : ledger'[a][n] = ledger[a][n]
<1>1. CASE ledger'[a] = ledger[a]
  BY <1>1 DEF Purchases
<1>2. ASSUME NEW row \in Rows, row.reason # "purchase",
             ledger'[a] = Append(ledger[a], row)
      PROVE  /\ Purchases(a)' = Purchases(a)
             /\ \A n \in Purchases(a) : ledger'[a][n] = ledger[a][n]
  <2>1. ledger[a] \in Seq(Rows)
    BY DEF BooksTypes
  <2> QED
    BY <1>2, <2>1, OneMoreRow DEF Purchases
<1> QED
  BY <1>1, <1>2

\* Only apply_succeeded touches what was bought and paid.
LEMMA PurchasesStep ==
    ASSUME BooksTypes, [Next]_vars,
           ~ \E p \in Payments, c \in Checkouts, agreed \in BOOLEAN :
                 PaymentSucceeded(p, c, agreed)
    PROVE  LeavesPurchases
<1> DEFINE Keeps == \A c \in Checkouts :
                        /\ checkouts'[c].payment = checkouts[c].payment
                        /\ Settled(c)' <=> Settled(c)
           Other(a) == \/ ledger'[a] = ledger[a]
                       \/ \E row \in Rows : row.reason # "purchase"
                                            /\ ledger'[a] = Append(ledger[a], row)
           Goal == Keeps /\ \A a \in Accounts : Other(a)
<1>0. /\ checkouts \in [Checkouts -> CheckoutRows]
      /\ ledger \in [Accounts -> Seq(Rows)]
      /\ work \in [Instances -> Transactions]
  BY DEF BooksTypes
<1>1. ASSUME NEW a \in Accounts, NEW amount \in Entries, AddEntry(a, amount)
      PROVE Goal
  <2>1. Row("operator", amount, NoPayment) \in Rows
    BY CreditsAssumption DEF Row, Rows
  <2> QED
    BY <1>0, <1>1, <2>1 DEF AddEntry, Record, Settled, Row
<1>2. ASSUME NEW a \in Accounts, NEW free \in Overrides \cup {MonthlyFree},
             NEW unlimited \in BOOLEAN, UpdateSettings(a, free, unlimited)
      PROVE Goal
  <2>1. Row("settings", 0, NoPayment) \in Rows
    BY DEF Row, Rows
  <2> QED
    BY <1>0, <1>2, <2>1 DEF UpdateSettings, Record, Settled, Row
<1>3. ASSUME NEW i \in Instances, CommitGrant(i) PROVE Goal
  <2>1. work[i] \in Transactions /\ work[i].step = "grant"
    BY <1>0, <1>3 DEF CommitGrant
  <2>2. work[i].period \in Nat
    BY <2>1 DEF Transactions, Idle
  <2> DEFINE delta(a) == MonthsOwed(wallets[a].granted, work[i].period)
                             * wallets[a].free
  <2>3. \A a \in DOMAIN wallets :
            /\ Row("free_grant", delta(a), NoPayment) \in Rows
            /\ Row("free_grant", delta(a), NoPayment).reason # "purchase"
    BY <2>2, GrantIsRow DEF Row
  <2>4. ledger' = [a \in Accounts |->
                      IF a \in work[i].due \cap Due(work[i].period)
                        THEN Append(ledger[a], Row("free_grant", delta(a), NoPayment))
                        ELSE ledger[a]]
    BY <1>3 DEF CommitGrant, Granted
  <2>5. Due(work[i].period) \subseteq DOMAIN wallets
    BY DEF Due
  <2>6. Keeps
    BY <1>3 DEF CommitGrant, Ends, Settled
  <2> HIDE DEF delta
  <2> QED
    BY <1>0, <2>3, <2>4, <2>5, <2>6
<1>4. ASSUME NEW c \in Checkouts, NEW a \in Accounts, CreateCheckout(c, a) PROVE Goal
  BY <1>0, <1>4 DEF CreateCheckout, SetCheckout, Unused, Settled
<1>5. ASSUME NEW c \in Checkouts, NEW opened \in BOOLEAN, OpenSession(c, opened)
      PROVE Goal
  BY <1>0, <1>5 DEF OpenSession, SetCheckout, Settled, CheckoutRows
<1>6. ASSUME NEW c \in Checkouts, PaymentFailed(c) PROVE Goal
  BY <1>0, <1>6 DEF PaymentFailed, Failable, SetCheckout, Settled, CheckoutRows
<1>7. ASSUME UNCHANGED <<ledger, checkouts>> PROVE Goal
  BY <1>7 DEF Settled
<1>8. ASSUME NextMonth PROVE Goal
  BY <1>7, <1>8 DEF NextMonth, books
<1>13. ASSUME UNCHANGED vars PROVE Goal
  BY <1>7, <1>13 DEF vars
<1>9. ASSUME NEW a \in Accounts, DeleteAccount(a) PROVE Goal
  BY <1>7, <1>9 DEF DeleteAccount
<1>10. ASSUME NEW v \in Invocations, NEW a \in Accounts, Accept(v, a) PROVE Goal
  BY <1>7, <1>10 DEF Accept
<1>11. ASSUME NEW i \in Instances,
              \/ BeginCharge(i) \/ BeginDiscard(i)
              \/ \E period \in 1 .. MaxMonth : BeginGrant(i, period)
       PROVE Goal
  BY <1>7, <1>11 DEF BeginCharge, BeginDiscard, BeginGrant, Opens, books
<1>12. ASSUME NEW i \in Instances, CommitCharge(i) \/ CommitDiscard(i) \/ Crash(i)
       PROVE Goal
  BY <1>7, <1>12 DEF CommitCharge, CommitDiscard, Crash, Ends, books
<1>14. Goal
  <2> HIDE DEF Goal
  <2> QED
    BY <1>1, <1>2, <1>3, <1>4, <1>5, <1>6, <1>8, <1>9, <1>10, <1>11, <1>12,
       <1>13
    DEF Next, Customers, Accounting
<1> QED
  BY <1>14, OtherRowsLeavePurchases, SettledStep DEF LeavesPurchases

\* apply_succeeded settles an open checkout with a payment nothing records yet,
\* and adds its row to the account's ledger when it is credited.
LEMMA PaymentStep ==
    ASSUME PurchasesInv, BooksTypes',
           NEW c \in Checkouts, NEW p \in Payments, NEW agreed \in BOOLEAN,
           PaymentSucceeded(p, c, agreed)
    PROVE  PurchasesInv'
<1>0. /\ checkouts \in [Checkouts -> CheckoutRows]
      /\ ledger \in [Accounts -> Seq(Rows)]
      /\ p # NoPayment
      /\ ~Settled(c)
  BY CreditsAssumption
  DEF PurchasesInv, BooksTypes, PaymentSucceeded, Payable, Settled
<1>1. /\ \A d \in Checkouts \ {c} : checkouts'[d] = checkouts[d]
      /\ checkouts'[c].payment = p /\ Settled(c)'
      /\ checkouts'[c].account = checkouts[c].account
      /\ checkouts'[c].status = "paid" => agreed /\ checkouts[c].account \in accounts
  <2>1. PICK s \in {"paid", "unapplied"} :
            /\ checkouts' = [checkouts EXCEPT ![c] =
                                [checkouts[c] EXCEPT !.status = s, !.payment = p]]
            /\ s = "paid" => agreed /\ checkouts[c].account \in accounts
    BY DEF PaymentSucceeded, SetCheckout
  <2> DEFINE row == [checkouts[c] EXCEPT !.status = s, !.payment = p]
  <2>2. checkouts[c] \in CheckoutRows
    BY <1>0
  <2>3. row.status = s /\ row.payment = p /\ row.account = checkouts[c].account
    BY <2>2 DEF CheckoutRows
  <2> HIDE DEF row
  <2>4. checkouts'[c] = row /\ \A d \in Checkouts \ {c} : checkouts'[d] = checkouts[d]
    BY <1>0, <2>1 DEF row
  <2> QED
    BY <2>1, <2>3, <2>4 DEF Settled
<1>2. \A d \in Checkouts : checkouts[d].payment # p
  <2>1. \A d \in Checkouts \ {c} : checkouts[d].payment # p
    BY DEF PaymentSucceeded, Unrecorded
  <2>2. checkouts[c].payment = NoPayment
    BY <1>0 DEF PurchasesInv, PaymentsSettleOnce
  <2> QED
    BY <1>0, <2>1, <2>2
<1>3. PaymentsSettleOnce'
  <2>1. ASSUME NEW d \in Checkouts \ {c}
        PROVE  checkouts'[d] = checkouts[d] /\ (Settled(d)' <=> Settled(d))
    BY <1>1, <2>1 DEF Settled
  <2>2. ASSUME NEW d \in Checkouts PROVE checkouts'[d].payment # NoPayment <=> Settled(d)'
    BY <1>0, <1>1, <2>1 DEF PurchasesInv, PaymentsSettleOnce
  <2>3. ASSUME NEW d \in Checkouts, NEW e \in Checkouts,
               Settled(d)', checkouts'[d].payment = checkouts'[e].payment
        PROVE  d = e
    <3>1. CASE d = c \/ e = c
      BY <1>1, <1>2, <2>1, <2>3, <3>1
    <3>2. CASE d # c /\ e # c
      BY <2>1, <2>3, <3>2 DEF PurchasesInv, PaymentsSettleOnce
    <3> QED
      BY <3>1, <3>2
  <2> QED
    BY <2>2, <2>3 DEF PaymentsSettleOnce
<1>4. CASE checkouts'[c].status # "paid"
  <2>1. ledger' = ledger
    <3>1. CASE agreed /\ checkouts[c].account \in accounts
      <4>1. checkouts'[c] = [checkouts[c] EXCEPT !.status = "paid", !.payment = p]
        BY <1>0, <3>1 DEF PaymentSucceeded, SetCheckout
      <4>2. checkouts[c] \in CheckoutRows
        BY <1>0
      <4>3. checkouts'[c].status = "paid"
        BY <4>1, <4>2 DEF CheckoutRows
      <4> QED
        BY <1>4, <4>3
    <3>2. CASE ~(agreed /\ checkouts[c].account \in accounts)
      BY <3>2 DEF PaymentSucceeded
    <3> QED
      BY <3>1, <3>2
  <2>2. \A b \in Accounts : PaidBy(b)' = PaidBy(b)
    BY <1>0, <1>1, <1>4 DEF PaidBy, Paid, Settled
  <2>3. \A b \in Accounts : \A d \in PaidBy(b) : checkouts'[d] = checkouts[d]
    BY <1>0, <1>1 DEF PaidBy, Paid, Settled
  <2> QED
    BY <1>3, <2>1, <2>2, <2>3
    DEF PurchasesInv, RowsArePaid, PaidHaveRows, RowsDiffer, Purchases
<1>5. CASE checkouts'[c].status = "paid"
  <2>1. PICK a \in Accounts :
            a = checkouts[c].account /\ Record(a, Row("purchase", Price, p))
    <3>1. agreed /\ checkouts[c].account \in accounts
      BY <1>1, <1>5
    <3>2. accounts \subseteq Accounts
      BY DEF PurchasesInv, BooksTypes, WalletsOK
    <3>3. Record(checkouts[c].account, Row("purchase", Price, p))
      BY <3>1 DEF PaymentSucceeded
    <3> QED
      BY <3>1, <3>2, <3>3
  <2> DEFINE new == Len(ledger[a]) + 1
  <2>2. /\ \A b \in Accounts \ {a} : ledger'[b] = ledger[b]
        /\ ledger'[a] = Append(ledger[a], Row("purchase", Price, p))
    BY <1>0, <2>1 DEF Record
  <2>3. /\ Row("purchase", Price, p) \in Rows
        /\ Row("purchase", Price, p).reason = "purchase"
        /\ Row("purchase", Price, p).ref = p
    BY CreditsAssumption DEF Row, Rows
  <2>4. ledger[a] \in Seq(Rows)
    BY <1>0, <2>1
  <2>5. /\ DOMAIN ledger'[a] = DOMAIN ledger[a] \cup {new}
        /\ new \notin DOMAIN ledger[a]
        /\ \A n \in DOMAIN ledger[a] : ledger'[a][n] = ledger[a][n]
        /\ ledger'[a][new] = Row("purchase", Price, p)
    BY <2>2, <2>3, <2>4, OneMoreRow
  <2> HIDE DEF new
  <2>6. /\ Purchases(a)' = Purchases(a) \cup {new}
        /\ new \notin Purchases(a)
        /\ \A n \in Purchases(a) : ledger'[a][n] = ledger[a][n]
        /\ ledger'[a][new].ref = p
    BY <2>3, <2>5 DEF Purchases
  <2>7. \A b \in Accounts \ {a} :
            /\ Purchases(b)' = Purchases(b)
            /\ PaidBy(b)' = PaidBy(b)
    BY <1>0, <1>1, <1>5, <2>1, <2>2 DEF Purchases, PaidBy, Paid, Settled
  <2>8. PaidBy(a)' = PaidBy(a) \cup {c}
    BY <1>0, <1>1, <1>5, <2>1 DEF PaidBy, Paid, Settled
  <2>9. \A b \in Accounts : \A d \in PaidBy(b) :
            d \in Checkouts /\ checkouts'[d] = checkouts[d]
    BY <1>0, <1>1 DEF PaidBy, Paid, Settled
  <2>10. \A b \in Accounts : \A n \in Purchases(b) : ledger[b][n].ref # p
    BY DEF PaymentSucceeded, Unrecorded, Purchases
  <2>11. RowsArePaid'
    <3> SUFFICES ASSUME NEW b \in Accounts, NEW n \in Purchases(b)'
                 PROVE  \E d \in PaidBy(b)' : checkouts'[d].payment = ledger'[b][n].ref
      BY DEF RowsArePaid
    <3>1. CASE n \in Purchases(b)
      <4>1. PICK d \in PaidBy(b) : checkouts[d].payment = ledger[b][n].ref
        BY <3>1 DEF PurchasesInv, RowsArePaid
      <4>2. d \in PaidBy(b)' /\ checkouts'[d] = checkouts[d]
        BY <2>7, <2>8, <2>9
      <4>3. ledger'[b][n] = ledger[b][n]
        BY <2>2, <2>6, <3>1
      <4> QED
        BY <4>1, <4>2, <4>3
    <3>2. CASE n \notin Purchases(b)
      BY <1>1, <2>6, <2>7, <2>8, <3>2
    <3> QED
      BY <3>1, <3>2
  <2>12. PaidHaveRows'
    <3> SUFFICES ASSUME NEW b \in Accounts, NEW d \in PaidBy(b)'
                 PROVE  \E n \in Purchases(b)' :
                            checkouts'[d].payment = ledger'[b][n].ref
      BY DEF PaidHaveRows
    <3>1. CASE d \in PaidBy(b)
      <4>1. PICK n \in Purchases(b) : checkouts[d].payment = ledger[b][n].ref
        BY <3>1 DEF PurchasesInv, PaidHaveRows
      <4>2. n \in Purchases(b)' /\ ledger'[b][n] = ledger[b][n]
        BY <2>2, <2>6, <2>7
      <4>3. checkouts'[d] = checkouts[d]
        BY <2>9, <3>1
      <4> QED
        BY <4>1, <4>2, <4>3
    <3>2. CASE d \notin PaidBy(b)
      BY <1>1, <2>6, <2>7, <2>8, <3>2
    <3> QED
      BY <3>1, <3>2
  <2>13. RowsDiffer'
    <3> SUFFICES ASSUME NEW b \in Accounts, NEW m \in Purchases(b)',
                        NEW n \in Purchases(b)', ledger'[b][m].ref = ledger'[b][n].ref
                 PROVE  m = n
      BY DEF RowsDiffer
    <3>1. CASE b = a
      <4>1. \A k \in Purchases(a) : ledger'[a][k].ref # p
        BY <2>6, <2>10
      <4>2. CASE m \in Purchases(a) /\ n \in Purchases(a)
        BY <2>6, <3>1, <4>2 DEF PurchasesInv, RowsDiffer
      <4> QED
        BY <2>6, <3>1, <4>1, <4>2
    <3>2. CASE b # a
      BY <2>2, <2>7, <3>2 DEF PurchasesInv, RowsDiffer
    <3> QED
      BY <3>1, <3>2
  <2> QED
    BY <1>3, <2>11, <2>12, <2>13 DEF PurchasesInv
<1> QED
  BY <1>4, <1>5

\* The invariant the purchases rest on.
THEOREM PurchasesInvariant == Spec => []PurchasesInv
<1>1. Init => PurchasesInv
  <2>1. Init => BooksTypes
    BY BooksTypesInit
  <2>2. Init => \A a \in Accounts : Purchases(a) = {} /\ PaidBy(a) = {}
    BY DEF Init, InitWith, Purchases, PaidBy, Paid, Unused
  <2>3. Init => PaymentsSettleOnce
    BY DEF Init, InitWith, PaymentsSettleOnce, Settled, Unused
  <2> QED
    BY <2>1, <2>2, <2>3 DEF PurchasesInv, RowsArePaid, PaidHaveRows, RowsDiffer
<1>2. PurchasesInv /\ [Next]_vars => PurchasesInv'
  <2> SUFFICES ASSUME PurchasesInv, [Next]_vars PROVE PurchasesInv'
    OBVIOUS
  <2>1. BooksTypes /\ BooksTypes'
    BY BooksTypesStep DEF PurchasesInv
  <2>2. CASE \E p \in Payments, c \in Checkouts, agreed \in BOOLEAN :
                 PaymentSucceeded(p, c, agreed)
    BY <2>1, <2>2, PaymentStep
  <2>3. CASE ~ \E p \in Payments, c \in Checkouts, agreed \in BOOLEAN :
                 PaymentSucceeded(p, c, agreed)
    <3>1. LeavesPurchases
      BY <2>1, <2>3, PurchasesStep
    <3>2. PaymentsSettleOnce'
      BY <3>1 DEF LeavesPurchases, PurchasesInv, PaymentsSettleOnce
    <3>3. \A a \in Accounts : PaidBy(a)' = PaidBy(a)
      BY <3>1 DEF LeavesPurchases, PaidBy, Paid, Settled
    <3>4. RowsArePaid' /\ PaidHaveRows' /\ RowsDiffer'
      BY <3>1, <3>3
      DEF LeavesPurchases, PurchasesInv, RowsArePaid, PaidHaveRows, RowsDiffer,
          PaidBy, Paid
    <3> QED
      BY <2>1, <3>2, <3>4 DEF PurchasesInv
  <2> QED
    BY <2>2, <2>3
<1> QED
  BY <1>1, <1>2, PTL DEF Spec

\* As many rows as paid checkouts: the row of a checkout's payment is a
\* bijection between them.
LEMMA RowsAsManyAsPaid ==
    ASSUME PurchasesInv, NEW a \in Accounts
    PROVE  Cardinality(Purchases(a)) = Cardinality(PaidBy(a))
<1> DEFINE rowOf(c) == CHOOSE n \in Purchases(a) :
                           checkouts[c].payment = ledger[a][n].ref
           f == [c \in PaidBy(a) |-> rowOf(c)]
<1>1. \A c \in PaidBy(a) :
          rowOf(c) \in Purchases(a) /\ checkouts[c].payment = ledger[a][rowOf(c)].ref
  BY DEF PurchasesInv, PaidHaveRows
<1>2. \A c \in PaidBy(a) : c \in Checkouts /\ Settled(c)
  BY DEF PaidBy, Paid, Settled
<1>3. \A c, d \in PaidBy(a) : rowOf(c) = rowOf(d) => c = d
  <2> HIDE DEF rowOf
  <2> QED
    BY <1>1, <1>2 DEF PurchasesInv, PaymentsSettleOnce
<1>4. \A n \in Purchases(a) : \E c \in PaidBy(a) : rowOf(c) = n
  <2> SUFFICES ASSUME NEW n \in Purchases(a)
               PROVE  \E c \in PaidBy(a) : rowOf(c) = n
    OBVIOUS
  <2>1. PICK c \in PaidBy(a) : checkouts[c].payment = ledger[a][n].ref
    BY DEF PurchasesInv, RowsArePaid
  <2>2. rowOf(c) \in Purchases(a) /\ ledger[a][rowOf(c)].ref = ledger[a][n].ref
    BY <1>1, <2>1
  <2> HIDE DEF rowOf
  <2> QED
    BY <2>2 DEF PurchasesInv, RowsDiffer
<1> HIDE DEF rowOf
<1>5. f \in Bijection(PaidBy(a), Purchases(a))
  BY <1>1, <1>3, <1>4 DEF Bijection, Injection, Surjection, IsInjective
<1>6. ExistsBijection(PaidBy(a), Purchases(a))
  BY <1>5 DEF ExistsBijection
<1>7. ExistsBijection(Purchases(a), PaidBy(a))
  BY <1>6, Fun_ExistsBijSymmetric
<1>8. IsFiniteSet(Purchases(a))
  <2>1. ledger[a] \in Seq(Rows)
    BY DEF PurchasesInv, BooksTypes
  <2>2. Len(ledger[a]) \in Nat /\ DOMAIN ledger[a] = 1 .. Len(ledger[a])
    BY <2>1
  <2>3. IsFiniteSet(1 .. Len(ledger[a]))
    BY <2>2, FS_Interval
  <2>4. Purchases(a) \in SUBSET (1 .. Len(ledger[a]))
    BY <2>2 DEF Purchases
  <2> QED
    BY <2>3, <2>4, FS_Subset
<1> QED
  BY <1>7, <1>8, FS_Bijection

\* However payments are redelivered and reordered, and whatever becomes of the
\* accounts: no payment settles two checkouts, and an account's ledger credits
\* the payments of its paid checkouts, each once.
THEOREM PurchasesAreCreditedOnce == Spec => []CreditedAsPaid
<1>1. PurchasesInv => CreditedAsPaid
  <2> SUFFICES ASSUME PurchasesInv PROVE CreditedAsPaid
    OBVIOUS
  <2>1. \A c, d \in Paid : checkouts[c].payment = checkouts[d].payment => c = d
    BY DEF PurchasesInv, PaymentsSettleOnce, Paid, Settled
  <2>2. ASSUME NEW a \in Accounts
        PROVE  /\ {ledger[a][n].ref : n \in Purchases(a)}
                      = {checkouts[c].payment : c \in PaidBy(a)}
               /\ Cardinality(Purchases(a)) = Cardinality(PaidBy(a))
    BY RowsAsManyAsPaid DEF PurchasesInv, RowsArePaid, PaidHaveRows
  <2> QED
    BY <2>1, <2>2 DEF CreditedAsPaid
<1> QED
  BY <1>1, PurchasesInvariant, PTL

\* Nothing a redelivery, a late failure or a deleted account brings changes a
\* checkout once its payment was credited or held for the operator.
THEOREM SettlementIsFinal == Spec => SettledForGood
<1>1. PurchasesInv /\ [Next]_vars
          => [\A c \in Checkouts : checkouts[c].status \in {"paid", "unapplied"}
                  => checkouts'[c] = checkouts[c]]_checkouts
  BY SettledStep DEF PurchasesInv, Settled
<1> QED
  BY <1>1, PurchasesInvariant, PTL DEF Spec, SettledForGood

----------------------------------------------------------------------------
(* Charges *)

\* A queued row is its invocation's only one, and not charged yet.
RowsAwaitCharge ==
    /\ \A r \in queue : r[1] \in issued
    /\ \A c \in charges : c.id \in issued
    /\ \A q, r \in queue : q[1] = r[1] => q = r
    /\ \A r \in queue, c \in charges : c.id # r[1]

OneTransaction ==
    \A i, j \in Instances : work[i] # Idle /\ work[j] # Idle => i = j

\* The rows a transaction took are still in the queue, and the accounts its
\* snapshot saw include all that are left.
BatchesAreCurrent ==
    \A i \in Instances :
        /\ work[i].step = "charge" =>
               work[i].rows \subseteq queue /\ accounts \subseteq work[i].payers
        /\ work[i].step = "discard" => i \notin Billers /\ work[i].rows \subseteq queue

ChargesInv == BooksTypes /\ RowsAwaitCharge /\ OneTransaction /\ BatchesAreCurrent

\* The charges a batch makes.
Made(i) == {c \in Priced(work[i].rows, work[i].payers) : \A d \in charges : d.id # c.id}

\* One for each of its rows, of its invocation and account.
LEMMA WhatIsMade ==
    ASSUME ChargesInv, NEW i \in Instances, work[i].step = "charge"
    PROVE  /\ {<<c.id, c.account>> : c \in Made(i)} = work[i].rows
           /\ \A c \in Made(i) : \A d \in charges : d.id # c.id
           /\ \A c \in Made(i) : \E r \in work[i].rows : c.id = r[1] /\ c.account = r[2]
           /\ \A c \in Made(i) : c.cost = Cost \/ c.account \notin work[i].payers
<1>1. /\ work[i].rows \subseteq queue
      /\ queue \subseteq Invocations \X Accounts
  BY DEF ChargesInv, BatchesAreCurrent, BooksTypes
<1>2. \A c \in Priced(work[i].rows, work[i].payers) :
          \E r \in work[i].rows :
              c = [id |-> r[1], account |-> r[2],
                   cost |-> IF r[2] \in work[i].payers THEN Cost ELSE 0]
  BY DEF Priced
<1>3. Made(i) = Priced(work[i].rows, work[i].payers)
  BY <1>1, <1>2 DEF ChargesInv, RowsAwaitCharge, Made
<1>4. \A r \in work[i].rows : r = <<r[1], r[2]>>
  BY <1>1
<1>5. \A r \in work[i].rows : \E c \in Made(i) : r = <<c.id, c.account>>
  <2> SUFFICES ASSUME NEW r \in work[i].rows
               PROVE  \E c \in Made(i) : r = <<c.id, c.account>>
    OBVIOUS
  <2> DEFINE c == [id |-> r[1], account |-> r[2],
                   cost |-> IF r[2] \in work[i].payers THEN Cost ELSE 0]
  <2>1. c \in Made(i)
    BY <1>3 DEF Priced
  <2>2. c.id = r[1] /\ c.account = r[2]
    OBVIOUS
  <2> HIDE DEF c
  <2> QED
    BY <1>4, <2>1, <2>2
<1>6. \A c \in Made(i) : \E r \in work[i].rows : r = <<c.id, c.account>>
  BY <1>2, <1>3, <1>4
<1>7. {<<c.id, c.account>> : c \in Made(i)} = work[i].rows
  BY <1>5, <1>6
<1>8. \A c \in Made(i) : c.cost = Cost \/ c.account \notin work[i].payers
  BY <1>2, <1>3
<1>9. \A c \in Made(i) : \E r \in work[i].rows : c.id = r[1] /\ c.account = r[2]
  BY <1>2, <1>3
<1> QED
  BY <1>7, <1>8, <1>9 DEF Made

\* Every step keeps queued rows uncharged and the open batch in the queue: only
\* the holder of the advisory lock takes rows out.
LEMMA ChargesStep == ASSUME ChargesInv, BooksTypes', [Next]_vars PROVE ChargesInv'
<1> DEFINE Goal == RowsAwaitCharge' /\ OneTransaction' /\ BatchesAreCurrent'
<1>0. work \in [Instances -> Transactions] /\ Idle.step = "idle"
  BY DEF ChargesInv, BooksTypes, Idle
<1> USE DEF ChargesInv, RowsAwaitCharge, OneTransaction, BatchesAreCurrent
<1>1. ASSUME NEW v \in Invocations, NEW a \in Accounts, Accept(v, a) PROVE Goal
  BY <1>1 DEF Accept
<1>2. ASSUME NEW i \in Instances, BeginCharge(i) PROVE Goal
  <2>1. PICK rows \in Batches :
            Opens(i, [step |-> "charge", rows |-> rows, payers |-> accounts])
    BY <1>2 DEF BeginCharge
  <2>2. rows \subseteq queue
    BY DEF Batches
  <2> QED
    BY <1>0, <2>1, <2>2 DEF Opens, LockFree, books
<1>3. ASSUME NEW i \in Instances, BeginDiscard(i) PROVE Goal
  <2>1. PICK rows \in Batches : Opens(i, [step |-> "discard", rows |-> rows])
    BY <1>3 DEF BeginDiscard
  <2>2. rows \subseteq queue /\ i \notin Billers
    BY <1>3 DEF Batches, BeginDiscard, Billing
  <2> QED
    BY <1>0, <2>1, <2>2 DEF Opens, LockFree, books
<1>4. ASSUME NEW i \in Instances, NEW period \in 1 .. MaxMonth, BeginGrant(i, period)
      PROVE Goal
  BY <1>0, <1>4 DEF BeginGrant, Opens, LockFree, books
<1>5. ASSUME NEW i \in Instances, work[i] # Idle, work' = [work EXCEPT ![i] = Idle]
      PROVE  \A j \in Instances : work'[j] = Idle
  BY <1>0, <1>5
<1>6. ASSUME NEW i \in Instances, CommitCharge(i) PROVE Goal
  <2> DEFINE debited == {c.account : c \in {d \in Made(i) : d.cost > 0}}
  <2>1. work[i].step = "charge" /\ \A j \in Instances : work'[j] = Idle
    BY <1>0, <1>5, <1>6 DEF CommitCharge, Ends
  <2>2. CASE References(debited)
    <3>1. queue' = queue \ work[i].rows /\ charges' = charges \cup Made(i)
          /\ issued' = issued
      BY <1>6, <2>2 DEF CommitCharge, Ends, Made
    <3>2. \A c \in Made(i) : \E r \in work[i].rows : c.id = r[1]
      BY <2>1, WhatIsMade
    <3>3. work[i].rows \subseteq queue
      BY <2>1
    <3> QED
      BY <1>0, <2>1, <3>1, <3>2, <3>3
  <2>3. CASE ~References(debited)
    BY <1>0, <1>6, <2>1, <2>3 DEF CommitCharge, Ends, Made
  <2> QED
    BY <2>2, <2>3
<1>7. ASSUME NEW i \in Instances, CommitDiscard(i) PROVE Goal
  BY <1>0, <1>5, <1>7 DEF CommitDiscard, Ends
<1>8. ASSUME NEW i \in Instances, CommitGrant(i) PROVE Goal
  BY <1>0, <1>5, <1>8 DEF CommitGrant, Ends
<1>9. ASSUME NEW i \in Instances, Crash(i) PROVE Goal
  BY <1>0, <1>5, <1>9 DEF Crash, books
<1>10. ASSUME NEW a \in Accounts, DeleteAccount(a) PROVE Goal
  BY <1>10 DEF DeleteAccount
<1>11. ASSUME UNCHANGED <<accounts, issued, queue, charges, work>> PROVE Goal
  BY <1>11
<1> HIDE DEF ChargesInv, RowsAwaitCharge, OneTransaction, BatchesAreCurrent
<1>12. ASSUME NEW a \in Accounts,
             \/ \E amount \in Entries : AddEntry(a, amount)
             \/ \E free \in Overrides \cup {MonthlyFree}, unlimited \in BOOLEAN :
                    UpdateSettings(a, free, unlimited)
      PROVE Goal
  BY <1>11, <1>12 DEF AddEntry, UpdateSettings
<1>13. ASSUME NEW c \in Checkouts,
              \/ \E a \in Accounts : CreateCheckout(c, a)
              \/ \E yes \in BOOLEAN : \/ OpenSession(c, yes)
                                      \/ \E p \in Payments : PaymentSucceeded(p, c, yes)
              \/ PaymentFailed(c)
       PROVE Goal
  BY <1>11, <1>13
  DEF CreateCheckout, OpenSession, PaymentSucceeded, PaymentFailed, SetCheckout
<1>14. ASSUME NextMonth PROVE Goal
  BY <1>11, <1>14 DEF NextMonth, books
<1>15. ASSUME UNCHANGED vars PROVE Goal
  BY <1>11, <1>15 DEF vars
<1>16. Goal
  <2> HIDE DEF Goal
  <2> QED
    BY <1>1, <1>2, <1>3, <1>4, <1>6, <1>7, <1>8, <1>9, <1>10, <1>12, <1>13, <1>14,
       <1>15
    DEF Next, Customers, Accounting
<1> QED
  BY <1>16 DEF ChargesInv

\* The invariant the charges rest on.
THEOREM ChargesInvariant == Spec => []ChargesInv
<1>1. Init => ChargesInv
  BY BooksTypesInit
  DEF Init, InitWith, ChargesInv, RowsAwaitCharge, OneTransaction, BatchesAreCurrent,
      Idle
<1>2. ChargesInv /\ [Next]_vars => ChargesInv'
  BY ChargesStep, BooksTypesStep DEF ChargesInv
<1> QED
  BY <1>1, <1>2, PTL DEF Spec

\* With credits on everywhere, accounting passes that overlap, crash and roll
\* back, and accounts deleted under a batch, never let an invocation out of the
\* queue without a charge, charge one that stays in it, or charge a live
\* account less than the cost.
THEOREM LeavingIsCharged == ASSUME Billers = Instances PROVE Spec => ChargedOnLeaving
<1> DEFINE Charged == LET new == charges' \ charges
                      IN  /\ {<<c.id, c.account>> : c \in new} = queue \ queue'
                          /\ \A c \in new : c.cost = Cost \/ c.account \notin accounts
<1>1. ASSUME ChargesInv, [Next]_vars PROVE [Charged]_vars
  <2>1. ASSUME NEW i \in Instances, CommitCharge(i) PROVE Charged
    <3> DEFINE debited == {c.account : c \in {d \in Made(i) : d.cost > 0}}
    <3>1. work[i].step = "charge"
      BY <2>1 DEF CommitCharge
    <3>2. /\ work[i].rows \subseteq queue
          /\ accounts \subseteq work[i].payers
      BY <1>1, <3>1 DEF ChargesInv, BatchesAreCurrent
    <3>3. /\ {<<c.id, c.account>> : c \in Made(i)} = work[i].rows
          /\ \A c \in Made(i) : c \notin charges
          /\ \A c \in Made(i) : c.cost = Cost \/ c.account \notin accounts
      BY <1>1, <3>1, <3>2, WhatIsMade
    <3>4. CASE References(debited)
      <4>1. queue' = queue \ work[i].rows /\ charges' = charges \cup Made(i)
        BY <2>1, <3>4 DEF CommitCharge, Made
      <4>2. charges' \ charges = Made(i) /\ queue \ queue' = work[i].rows
        BY <3>2, <3>3, <4>1
      <4> QED
        BY <3>3, <4>2
    <3>5. CASE ~References(debited)
      BY <2>1, <3>5 DEF CommitCharge, Made
    <3> QED
      BY <3>4, <3>5
  <2>2. ASSUME NEW i \in Instances, CommitDiscard(i) PROVE FALSE
    BY <1>1, <2>2 DEF CommitDiscard, ChargesInv, BatchesAreCurrent
  <2>3. ASSUME charges' = charges, queue \subseteq queue' PROVE Charged
    BY <2>3
  <2>4. ASSUME NEW i \in Instances, CommitGrant(i) \/ Crash(i) PROVE Charged
    BY <2>3, <2>4 DEF CommitGrant, Crash, books
  <2>5. ASSUME NEW i \in Instances,
               \/ BeginCharge(i) \/ BeginDiscard(i)
               \/ \E period \in 1 .. MaxMonth : BeginGrant(i, period)
        PROVE Charged
    BY <2>3, <2>5 DEF BeginCharge, BeginDiscard, BeginGrant, Opens, books
  <2>6. ASSUME NEW v \in Invocations, NEW a \in Accounts, Accept(v, a) PROVE Charged
    BY <2>3, <2>6 DEF Accept
  <2>7. ASSUME NextMonth PROVE Charged
    BY <2>3, <2>7 DEF NextMonth, books
  <2>8. ASSUME Customers PROVE Charged
    BY <2>3, <2>8
    DEF Customers, AddEntry, UpdateSettings, DeleteAccount, CreateCheckout,
        OpenSession, PaymentSucceeded, PaymentFailed, SetCheckout
  <2> HIDE DEF Charged
  <2>9. CASE Next
    BY <2>1, <2>2, <2>4, <2>5, <2>6, <2>7, <2>8, <2>9 DEF Next, Accounting
  <2> QED
    BY <1>1, <2>9
<1> QED
  BY <1>1, ChargesInvariant, PTL DEF Spec, ChargedOnLeaving

----------------------------------------------------------------------------
(* The monthly grants *)

\* A wallet has had at most one grant for each month up to the one it was
\* granted last, and an account without a wallet, unless deleted, none.
GrantsAreCounted ==
    \A a \in Accounts :
        /\ Cardinality(GrantRows(a)) <= month
        /\ a \in DOMAIN wallets =>
               /\ wallets[a].granted <= month
               /\ Cardinality(GrantRows(a)) <= wallets[a].granted
        /\ a \in accounts \ DOMAIN wallets => GrantRows(a) = {}

\* No transaction grants a month that has not come.
NoGrantAhead ==
    \A i \in Instances : work[i].step = "grant" => work[i].period <= month

GrantsInv == BooksTypes /\ GrantsAreCounted /\ NoGrantAhead

\* An account has finitely many grants, so they can be counted.
LEMMA GrantRowsFinite ==
    ASSUME BooksTypes, NEW a \in Accounts
    PROVE  IsFiniteSet(GrantRows(a)) /\ Cardinality(GrantRows(a)) \in Nat
<1>1. ledger[a] \in Seq(Rows)
  BY DEF BooksTypes
<1>2. Len(ledger[a]) \in Nat /\ DOMAIN ledger[a] = 1 .. Len(ledger[a])
  BY <1>1
<1>3. IsFiniteSet(1 .. Len(ledger[a]))
  BY <1>2, FS_Interval
<1>4. GrantRows(a) \in SUBSET (1 .. Len(ledger[a]))
  BY <1>2 DEF GrantRows
<1>5. IsFiniteSet(GrantRows(a))
  BY <1>3, <1>4, FS_Subset
<1> QED
  BY <1>5, FS_CardinalityType

\* A row that is no grant's leaves an account's grants alone, one that is adds
\* one to them.
LEMMA GrantRowsStep ==
    ASSUME BooksTypes, NEW a \in Accounts, NEW row \in Rows,
           ledger'[a] = Append(ledger[a], row)
    PROVE  /\ row.reason # "free_grant" => GrantRows(a)' = GrantRows(a)
           /\ Cardinality(GrantRows(a)') \in
                  {Cardinality(GrantRows(a)), Cardinality(GrantRows(a)) + 1}
<1>1. ledger[a] \in Seq(Rows)
  BY DEF BooksTypes
<1> DEFINE new == Len(ledger[a]) + 1
<1>2. /\ DOMAIN ledger'[a] = DOMAIN ledger[a] \cup {new}
      /\ new \notin DOMAIN ledger[a]
      /\ \A n \in DOMAIN ledger[a] : ledger'[a][n] = ledger[a][n]
      /\ ledger'[a][new] = row
  BY <1>1, OneMoreRow
<1>3. row.reason # "free_grant" => GrantRows(a)' = GrantRows(a)
  BY <1>2 DEF GrantRows
<1>4. row.reason = "free_grant" => GrantRows(a)' = GrantRows(a) \cup {new}
  BY <1>2 DEF GrantRows
<1>5. IsFiniteSet(GrantRows(a)) /\ Cardinality(GrantRows(a)) \in Nat
  BY GrantRowsFinite
<1>6. Cardinality(GrantRows(a) \cup {new}) \in
          {Cardinality(GrantRows(a)), Cardinality(GrantRows(a)) + 1}
  BY <1>5, FS_AddElement
<1>8. Cardinality(GrantRows(a)') \in
          {Cardinality(GrantRows(a)), Cardinality(GrantRows(a)) + 1}
  <2>1. CASE row.reason = "free_grant"
    <3> HIDE DEF new
    <3>1. Cardinality(GrantRows(a)') = Cardinality(GrantRows(a) \cup {new})
      BY <1>4, <2>1
    <3> QED
      BY <1>5, <1>6, <3>1
  <2>2. CASE row.reason # "free_grant"
    <3>1. Cardinality(GrantRows(a)') = Cardinality(GrantRows(a))
      BY <1>3, <2>2
    <3> QED
      BY <1>5, <3>1
  <2> QED
    BY <2>1, <2>2
<1> QED
  BY <1>3, <1>8

\* A step that makes no grant leaves an account's grants alone, and the month
\* of its last one.
LeavesGrants(a) ==
    /\ GrantRows(a)' = GrantRows(a)
    /\ a \in DOMAIN wallets' =>
           \/ a \in DOMAIN wallets /\ wallets'[a].granted = wallets[a].granted
           \/ a \in accounts \ DOMAIN wallets /\ wallets'[a].granted = 0
    /\ a \in accounts' \ DOMAIN wallets' => a \in accounts \ DOMAIN wallets

\* Only a grant transaction's commit writes grants or moves a wallet's last
\* granted month.
LEMMA GrantsLeft ==
    ASSUME BooksTypes, BooksTypes', [Next]_vars, ~ \E i \in Instances : CommitGrant(i),
           NEW a \in Accounts
    PROVE  LeavesGrants(a)
<1> USE DEF LeavesGrants
<1>0. /\ accounts \subseteq Accounts /\ ledger \in [Accounts -> Seq(Rows)]
      /\ DOMAIN wallets \subseteq accounts
  BY DEF BooksTypes, WalletsOK
<1>1. \A x, amount :
          Plus(x, amount).granted =
              IF x \in DOMAIN wallets THEN wallets[x].granted ELSE 0
  BY PlusIsWallet DEF BooksTypes, Wallet, NewWallet
<1>2. ASSUME NEW b \in Accounts, NEW row \in Rows, row.reason # "free_grant",
             Record(b, row)
      PROVE GrantRows(a)' = GrantRows(a)
  <2>1. CASE a = b
    BY <1>0, <1>2, <2>1, GrantRowsStep DEF Record
  <2>2. CASE a # b
    BY <1>0, <1>2, <2>2 DEF Record, GrantRows
  <2> QED
    BY <2>1, <2>2
<1>3. ASSUME NEW b \in Accounts, NEW amount \in Entries, AddEntry(b, amount)
      PROVE LeavesGrants(a)
  <2>1. /\ Row("operator", amount, NoPayment) \in Rows
        /\ Row("operator", amount, NoPayment).reason # "free_grant"
    BY CreditsAssumption DEF Row, Rows
  <2>2. GrantRows(a)' = GrantRows(a)
    BY <1>2, <1>3, <2>1 DEF AddEntry
  <2> QED
    BY <1>0, <1>1, <1>3, <2>2 DEF AddEntry, Upserted
<1>4. ASSUME NEW b \in Accounts, NEW free \in Overrides \cup {MonthlyFree},
             NEW unlimited \in BOOLEAN, UpdateSettings(b, free, unlimited)
      PROVE LeavesGrants(a)
  <2>1. /\ Row("settings", 0, NoPayment) \in Rows
        /\ Row("settings", 0, NoPayment).reason # "free_grant"
    BY DEF Row, Rows
  <2>2. GrantRows(a)' = GrantRows(a)
    BY <1>2, <1>4, <2>1 DEF UpdateSettings
  <2>3. \A x : IsWallet(Wallet(x))
    BY CreditsAssumption DEF BooksTypes, WalletsOK, IsWallet, Wallet, NewWallet
  <2>4. \A x : [Wallet(x) EXCEPT !.free = free, !.unlimited = unlimited].granted =
                   IF x \in DOMAIN wallets THEN wallets[x].granted ELSE 0
    <3>1. \A x : [Wallet(x) EXCEPT !.free = free, !.unlimited = unlimited].granted
                     = Wallet(x).granted
      BY <2>3 DEF IsWallet
    <3> QED
      BY <3>1 DEF Wallet, NewWallet
  <2> QED
    BY <1>0, <1>4, <2>2, <2>4 DEF UpdateSettings, Upserted
<1>5. ASSUME NEW c \in Checkouts, NEW p \in Payments, NEW agreed \in BOOLEAN,
             PaymentSucceeded(p, c, agreed)
      PROVE LeavesGrants(a)
  <2>1. CASE agreed /\ checkouts[c].account \in accounts
    <3>1. PICK b \in Accounts : b = checkouts[c].account
      BY <1>0, <2>1
    <3>2. /\ b \in accounts
          /\ wallets' = Upserted({b}, LAMBDA x : Plus(x, Price))
          /\ Record(b, Row("purchase", Price, p))
          /\ accounts' = accounts
      BY <1>5, <2>1, <3>1 DEF PaymentSucceeded, SetCheckout
    <3>3. /\ Row("purchase", Price, p) \in Rows
          /\ Row("purchase", Price, p).reason # "free_grant"
      BY CreditsAssumption DEF Row, Rows
    <3>4. GrantRows(a)' = GrantRows(a)
      BY <1>2, <3>2, <3>3
    <3> QED
      BY <1>0, <1>1, <3>2, <3>4 DEF Upserted
  <2>2. CASE ~(agreed /\ checkouts[c].account \in accounts)
    BY <1>0, <1>5, <2>2 DEF PaymentSucceeded, SetCheckout, GrantRows
  <2> QED
    BY <2>1, <2>2
<1>6. ASSUME NEW i \in Instances, CommitCharge(i) PROVE LeavesGrants(a)
  <2> DEFINE debited == {c.account : c \in {d \in Made(i) : d.cost > 0}}
  <2>1. CASE References(debited)
    <3>1. /\ wallets' = Upserted(debited, LAMBDA x : Plus(x, -Debit(Made(i), x)))
          /\ ledger' = ledger
      BY <1>6, <2>1 DEF CommitCharge, Made
    <3>2. debited \subseteq accounts /\ accounts' = accounts
      BY <1>6, <2>1 DEF References, CommitCharge, Ends
    <3> HIDE DEF debited
    <3> QED
      BY <1>0, <1>1, <3>1, <3>2 DEF Upserted, GrantRows
  <2>2. CASE ~References(debited)
    BY <1>0, <1>6, <2>2 DEF CommitCharge, Ends, Made, GrantRows
  <2> QED
    BY <2>1, <2>2
<1>7. ASSUME NEW b \in Accounts, DeleteAccount(b) PROVE LeavesGrants(a)
  BY <1>0, <1>7 DEF DeleteAccount, GrantRows
<1>8. ASSUME UNCHANGED <<accounts, wallets, ledger>> PROVE LeavesGrants(a)
  BY <1>0, <1>8 DEF GrantRows
<1> HIDE DEF LeavesGrants
<1>9. CASE NextMonth
  BY <1>8, <1>9 DEF NextMonth, books
<1>10. ASSUME NEW c \in Checkouts,
              \/ \E b \in Accounts : CreateCheckout(c, b)
              \/ \E opened \in BOOLEAN : OpenSession(c, opened)
              \/ PaymentFailed(c)
       PROVE LeavesGrants(a)
  BY <1>8, <1>10 DEF CreateCheckout, OpenSession, PaymentFailed, SetCheckout
<1>11. ASSUME NEW v \in Invocations, NEW b \in Accounts, Accept(v, b)
       PROVE LeavesGrants(a)
  BY <1>8, <1>11 DEF Accept
<1>12. ASSUME NEW i \in Instances,
              \/ BeginCharge(i) \/ BeginDiscard(i)
              \/ \E period \in 1 .. MaxMonth : BeginGrant(i, period)
       PROVE LeavesGrants(a)
  BY <1>8, <1>12 DEF BeginCharge, BeginDiscard, BeginGrant, Opens, books
<1>13. ASSUME NEW i \in Instances, CommitDiscard(i) \/ Crash(i) PROVE LeavesGrants(a)
  BY <1>8, <1>13 DEF CommitDiscard, Crash, Ends, books
<1>14. CASE UNCHANGED vars
  BY <1>8, <1>14 DEF vars
<1> QED
  BY <1>3, <1>4, <1>5, <1>6, <1>7, <1>9, <1>10, <1>11, <1>12, <1>13, <1>14
  DEF Next, Customers, Accounting

\* grant_rows grants a wallet once for a period later than its last.
LEMMA GrantStep ==
    ASSUME GrantsInv, BooksTypes', NEW i \in Instances, CommitGrant(i)
    PROVE  GrantsAreCounted'
<1>0. /\ ledger \in [Accounts -> Seq(Rows)] /\ work \in [Instances -> Transactions]
      /\ accounts \subseteq Accounts /\ DOMAIN wallets \subseteq accounts
      /\ month \in Nat
      /\ \A a \in DOMAIN wallets : wallets[a].granted \in Nat
  BY DEF GrantsInv, BooksTypes, WalletsOK, IsWallet
<1>1. work[i] \in Transactions /\ work[i].step = "grant"
  BY <1>0 DEF CommitGrant
<1>2. PICK period \in Nat : period = work[i].period /\ period <= month
  BY <1>1 DEF Transactions, Idle, GrantsInv, NoGrantAhead
<1> DEFINE still == work[i].due \cap Due(period)
           delta(a) == MonthsOwed(wallets[a].granted, period) * wallets[a].free
<1>3. still \subseteq DOMAIN wallets
  BY DEF Due
<1>4. \A a \in DOMAIN wallets : Row("free_grant", delta(a), NoPayment) \in Rows
  BY <1>2, GrantIsRow DEF GrantsInv
<1>5. ledger' = [a \in Accounts |->
                    IF a \in still
                      THEN Append(ledger[a], Row("free_grant", delta(a), NoPayment))
                      ELSE ledger[a]]
  BY <1>2 DEF CommitGrant, Granted
<1>6. wallets' = Upserted(still, LAMBDA a : [Plus(a, delta(a)) EXCEPT !.granted = period])
  BY <1>2 DEF CommitGrant
<1> HIDE DEF delta
<1>7. /\ DOMAIN wallets' = DOMAIN wallets
      /\ \A a \in still : wallets'[a].granted = period
      /\ \A a \in DOMAIN wallets \ still : wallets'[a] = wallets[a]
  <2>1. \A a : [Plus(a, delta(a)) EXCEPT !.granted = period].granted = period
    BY PlusIsWallet DEF GrantsInv, BooksTypes, IsWallet
  <2> HIDE DEF still
  <2> QED
    BY <1>3, <1>6, <2>1 DEF Upserted
<1>8. accounts' = accounts /\ month' = month
  BY DEF CommitGrant, Ends
<1>9. ASSUME NEW a \in Accounts
      PROVE  /\ Cardinality(GrantRows(a)') <= month
             /\ a \in DOMAIN wallets =>
                    /\ wallets'[a].granted <= month
                    /\ Cardinality(GrantRows(a)') <= wallets'[a].granted
             /\ a \in accounts \ DOMAIN wallets => GrantRows(a)' = {}
  <2>1. CASE a \in still
    <3>1. ledger'[a] = Append(ledger[a], Row("free_grant", delta(a), NoPayment))
      BY <1>5, <2>1
    <3>2. Cardinality(GrantRows(a)') \in
              {Cardinality(GrantRows(a)), Cardinality(GrantRows(a)) + 1}
      BY <1>3, <1>4, <2>1, <3>1, GrantRowsStep DEF GrantsInv
    <3>3. /\ wallets[a].granted < period /\ a \in DOMAIN wallets
          /\ Cardinality(GrantRows(a)) <= wallets[a].granted
      BY <2>1 DEF Due, GrantsInv, GrantsAreCounted
    <3>4. Cardinality(GrantRows(a)) \in Nat
      BY GrantRowsFinite DEF GrantsInv
    <3> QED
      BY <1>0, <1>2, <1>7, <2>1, <3>2, <3>3, <3>4
  <2>2. CASE a \notin still
    <3>1. GrantRows(a)' = GrantRows(a)
      BY <1>0, <1>5, <2>2 DEF GrantRows
    <3> QED
      BY <1>7, <2>2, <3>1 DEF GrantsInv, GrantsAreCounted
  <2> QED
    BY <2>1, <2>2
<1> QED
  BY <1>7, <1>8, <1>9 DEF GrantsAreCounted

\* A grant transaction works on a month that has begun: current_month read it.
LEMMA PeriodsStep == ASSUME GrantsInv, BooksTypes', [Next]_vars PROVE NoGrantAhead'
<1>0. /\ work \in [Instances -> Transactions] /\ month \in Nat
      /\ Idle.step = "idle"
  BY DEF GrantsInv, BooksTypes, Idle
<1> USE DEF GrantsInv, NoGrantAhead
<1>1. ASSUME NEW i \in Instances, NEW period \in 1 .. MaxMonth, BeginGrant(i, period)
      PROVE NoGrantAhead'
  <2>1. period <= month
    BY <1>0, <1>1 DEF BeginGrant
  <2> QED
    BY <1>0, <1>1, <2>1 DEF BeginGrant, Opens, books
<1>2. ASSUME NEW i \in Instances, BeginCharge(i) PROVE NoGrantAhead'
  BY <1>0, <1>2 DEF BeginCharge, Opens, books
<1>3. ASSUME NEW i \in Instances, BeginDiscard(i) PROVE NoGrantAhead'
  BY <1>0, <1>3 DEF BeginDiscard, Opens, books
<1>4. ASSUME NEW i \in Instances,
             CommitCharge(i) \/ CommitDiscard(i) \/ CommitGrant(i) \/ Crash(i)
      PROVE NoGrantAhead'
  BY <1>0, <1>4 DEF CommitCharge, CommitDiscard, CommitGrant, Crash, Ends, books
<1>5. CASE NextMonth
  <2>1. /\ month' = month + 1
        /\ work' = work
    BY <1>5 DEF NextMonth
  <2>2. \A i \in Instances : work[i].step = "grant" => work[i].period \in Nat
    BY <1>0 DEF Transactions, Idle
  <2> QED
    BY <1>0, <2>1, <2>2
<1>6. ASSUME UNCHANGED <<work, month>> PROVE NoGrantAhead'
  BY <1>6
<1> HIDE DEF GrantsInv, NoGrantAhead
<1>7. CASE Customers
  BY <1>6, <1>7
  DEF Customers, AddEntry, UpdateSettings, DeleteAccount, CreateCheckout,
      OpenSession, PaymentSucceeded, PaymentFailed, SetCheckout
<1>8. ASSUME NEW v \in Invocations, NEW a \in Accounts, Accept(v, a) PROVE NoGrantAhead'
  BY <1>6, <1>8 DEF Accept
<1>9. CASE UNCHANGED vars
  BY <1>6, <1>9 DEF vars
<1> QED
  BY <1>1, <1>2, <1>3, <1>4, <1>5, <1>7, <1>8, <1>9 DEF Next, Accounting

\* Months only pass.
LEMMA MonthsPass == ASSUME BooksTypes, [Next]_vars PROVE month \in Nat /\ month <= month'
<1>0. month \in Nat
  BY DEF BooksTypes
<1>1. CASE NextMonth
  BY <1>0, <1>1 DEF NextMonth
<1>2. ASSUME UNCHANGED month PROVE month <= month'
  BY <1>0, <1>2
<1>3. CASE Customers
  BY <1>0, <1>2, <1>3
  DEF Customers, AddEntry, UpdateSettings, DeleteAccount, CreateCheckout,
      OpenSession, PaymentSucceeded, PaymentFailed, SetCheckout
<1>4. ASSUME NEW v \in Invocations, NEW a \in Accounts, Accept(v, a)
      PROVE month <= month'
  BY <1>2, <1>4 DEF Accept
<1>5. ASSUME NEW i \in Instances, Accounting(i) \/ Crash(i) PROVE month <= month'
  BY <1>2, <1>5
  DEF Accounting, BeginCharge, CommitCharge, BeginDiscard, CommitDiscard,
      BeginGrant, CommitGrant, Crash, Opens, Ends
<1>6. CASE UNCHANGED vars
  BY <1>0, <1>2, <1>6 DEF vars
<1> QED
  BY <1>0, <1>1, <1>3, <1>4, <1>5, <1>6 DEF Next

\* A wallet that was granted stays granted as long as there is its account, and
\* no account comes back.
LEMMA GrantedStays ==
    ASSUME BooksTypes, BooksTypes', [Next]_vars, NEW a \in accounts'
    PROVE  /\ a \in accounts
           /\ a \in DOMAIN wallets /\ wallets[a].granted # 0 =>
                  a \in DOMAIN wallets' /\ wallets'[a].granted # 0
<1>0. /\ accounts \subseteq Accounts /\ accounts' \subseteq Accounts
      /\ DOMAIN wallets \subseteq accounts
      /\ work \in [Instances -> Transactions]
      /\ \A b \in DOMAIN wallets : wallets[b].granted \in Nat
  BY DEF BooksTypes, WalletsOK, IsWallet
<1>1. a \in accounts
  <2>1. CASE Customers
    BY <2>1
    DEF Customers, AddEntry, UpdateSettings, DeleteAccount, CreateCheckout,
        OpenSession, PaymentSucceeded, PaymentFailed, SetCheckout
  <2>2. CASE \E v \in Invocations, b \in Accounts : Accept(v, b)
    BY <2>2 DEF Accept
  <2>3. CASE \E i \in Instances : Accounting(i) \/ Crash(i)
    BY <2>3
    DEF Accounting, BeginCharge, CommitCharge, BeginDiscard, CommitDiscard,
        BeginGrant, CommitGrant, Crash, Opens, Ends
  <2>4. CASE NextMonth
    BY <2>4 DEF NextMonth
  <2>5. CASE UNCHANGED vars
    BY <2>5 DEF vars
  <2> QED
    BY <2>1, <2>2, <2>3, <2>4, <2>5 DEF Next
<1>2. CASE \E i \in Instances : CommitGrant(i)
  <2>1. PICK i \in Instances : CommitGrant(i)
    BY <1>2
  <2>2. work[i] \in Transactions /\ work[i].step = "grant"
    BY <1>0, <2>1 DEF CommitGrant
  <2>3. PICK period \in Nat : period = work[i].period
    BY <2>2 DEF Transactions, Idle
  <2> DEFINE still == work[i].due \cap Due(period)
             delta(b) == MonthsOwed(wallets[b].granted, period) * wallets[b].free
  <2>4. still \subseteq DOMAIN wallets
        /\ \A b \in still : wallets[b].granted < period
    BY DEF Due
  <2>5. wallets' = Upserted(still, LAMBDA b : [Plus(b, delta(b)) EXCEPT !.granted = period])
    BY <2>1, <2>3 DEF CommitGrant
  <2> HIDE DEF delta
  <2>6. \A b : [Plus(b, delta(b)) EXCEPT !.granted = period].granted = period
    BY PlusIsWallet DEF BooksTypes, IsWallet
  <2> HIDE DEF still
  <2>7. /\ DOMAIN wallets' = DOMAIN wallets
        /\ \A b \in still : wallets'[b].granted = period
        /\ \A b \in DOMAIN wallets \ still : wallets'[b] = wallets[b]
    BY <2>4, <2>5, <2>6 DEF Upserted
  <2> QED
    BY <1>0, <1>1, <2>4, <2>7
<1>3. CASE ~ \E i \in Instances : CommitGrant(i)
  BY <1>0, <1>1, <1>3, GrantsLeft DEF LeavesGrants
<1> QED
  BY <1>2, <1>3

\* The invariant the grants rest on.
THEOREM GrantsInvariant == Spec => []GrantsInv
<1>1. Init => GrantsInv
  <2> SUFFICES ASSUME Init PROVE GrantsInv
    OBVIOUS
  <2>1. BooksTypes
    BY BooksTypesInit
  <2>2. \A a \in Accounts : GrantRows(a) = {}
    BY DEF Init, InitWith, GrantRows
  <2>3. \A a \in Accounts : Cardinality(GrantRows(a)) = 0
    BY <2>2, FS_EmptySet
  <2> QED
    BY <2>1, <2>2, <2>3
    DEF GrantsInv, GrantsAreCounted, NoGrantAhead, Init, InitWith, Idle
<1>2. GrantsInv /\ [Next]_vars => GrantsInv'
  <2> SUFFICES ASSUME GrantsInv, [Next]_vars PROVE GrantsInv'
    OBVIOUS
  <2>1. BooksTypes /\ BooksTypes'
    BY BooksTypesStep DEF GrantsInv
  <2>2. NoGrantAhead'
    BY <2>1, PeriodsStep
  <2>3. CASE \E i \in Instances : CommitGrant(i)
    BY <2>1, <2>2, <2>3, GrantStep DEF GrantsInv
  <2>4. CASE ~ \E i \in Instances : CommitGrant(i)
    <3>1. month \in Nat /\ month' \in Nat /\ month <= month'
      BY <2>1, MonthsPass DEF BooksTypes
    <3>2. ASSUME NEW a \in Accounts
          PROVE  /\ Cardinality(GrantRows(a)') <= month'
                 /\ a \in DOMAIN wallets' =>
                        /\ wallets'[a].granted <= month'
                        /\ Cardinality(GrantRows(a)') <= wallets'[a].granted
                 /\ a \in accounts' \ DOMAIN wallets' => GrantRows(a)' = {}
      <4>1. LeavesGrants(a)
        BY <2>1, <2>4, GrantsLeft
      <4>2. Cardinality(GrantRows(a)) \in Nat
        BY <2>1, GrantRowsFinite
      <4>3. Cardinality(GrantRows(a)') <= month'
        BY <3>1, <4>1, <4>2 DEF LeavesGrants, GrantsInv, GrantsAreCounted
      <4>4. ASSUME a \in DOMAIN wallets'
            PROVE  /\ wallets'[a].granted <= month'
                   /\ Cardinality(GrantRows(a)') <= wallets'[a].granted
        <5>1. CASE a \in DOMAIN wallets /\ wallets'[a].granted = wallets[a].granted
          <6>1. wallets[a].granted \in Nat
            BY <2>1, <5>1 DEF BooksTypes, WalletsOK, IsWallet
          <6> QED
            BY <3>1, <4>1, <5>1, <6>1 DEF LeavesGrants, GrantsInv, GrantsAreCounted
        <5>2. CASE a \in accounts \ DOMAIN wallets /\ wallets'[a].granted = 0
          <6>1. GrantRows(a) = {}
            BY <5>2 DEF GrantsInv, GrantsAreCounted
          <6>2. Cardinality(GrantRows(a)') = 0
            BY <4>1, <6>1, FS_EmptySet DEF LeavesGrants
          <6> QED
            BY <3>1, <5>2, <6>2
        <5> QED
          BY <4>1, <4>4, <5>1, <5>2 DEF LeavesGrants
      <4>5. a \in accounts' \ DOMAIN wallets' => GrantRows(a)' = {}
        BY <4>1 DEF LeavesGrants, GrantsInv, GrantsAreCounted
      <4> QED
        BY <4>3, <4>4, <4>5
    <3> QED
      BY <2>1, <2>2, <3>2 DEF GrantsInv, GrantsAreCounted
  <2> QED
    BY <2>3, <2>4
<1> QED
  BY <1>1, <1>2, PTL DEF Spec

\* What an account was granted in all, and the most a month's grant can be.
GrantSum(a) == SumFunctionOnSet(Deltas(a), GrantRows(a))
MostFree == Max(Overrides \cup {MonthlyFree})

\* A wallet has had at most the most there is for each month up to the one it
\* was granted last.
GrantsAddUp ==
    \A a \in Accounts :
        /\ GrantSum(a) <= month * MostFree
        /\ a \in DOMAIN wallets => GrantSum(a) <= wallets[a].granted * MostFree

GrantSumsInv == GrantsInv /\ GrantsAddUp

\* No month's grant is more than the most.
LEMMA FreeIsBounded ==
    MostFree \in Nat /\ \A free \in Overrides \cup {MonthlyFree} : free \in Nat /\ free <= MostFree
<1>1. IsFiniteSet(Overrides \cup {MonthlyFree})
  BY CreditsAssumption, FS_AddElement
<1>2. \A free \in Overrides \cup {MonthlyFree} : free \in Nat
  BY CreditsAssumption
<1> DEFINE all == Overrides \cup {MonthlyFree}
<1>3. all # {} /\ all \subseteq Int
  BY <1>2
<1> HIDE DEF all
<1>4. Max(all) \in all /\ \A free \in all : free <= Max(all)
  BY <1>1, <1>3, HasGreatest DEF all
<1> QED
  BY <1>2, <1>4 DEF all, MostFree

\* More months and a larger grant come to more.
LEMMA MoreIsMore ==
    ASSUME NEW m \in Nat, NEW n \in Nat, m <= n, NEW f \in Nat, NEW g \in Nat, f <= g
    PROVE  /\ m * f \in Nat /\ n * g \in Nat /\ m * f <= n * g
<1>1. m * f <= m * g
  OBVIOUS
<1>2. m * g <= n * g
  OBVIOUS
<1> QED
  BY <1>1, <1>2

\* The months of an earlier grant and those made up for since add up.
LEMMA MonthsAddUp ==
    ASSUME NEW m \in Nat, NEW n \in Nat, m <= n, NEW g \in Nat
    PROVE  m * g + (n - m) * g = n * g
OBVIOUS

\* A grant makes up for no more months than have passed since the last.
LEMMA OwedIsBounded ==
    ASSUME NEW granted \in Nat, NEW period \in Nat, granted < period
    PROVE  MonthsOwed(granted, period) \in Nat /\ MonthsOwed(granted, period) <= period - granted
<1>1. MonthCap \in Nat
  BY CreditsAssumption
<1>2. CASE granted = 0
  BY <1>2 DEF MonthsOwed
<1>3. CASE granted # 0
  BY <1>1, <1>3 DEF MonthsOwed
<1> QED
  BY <1>2, <1>3

\* What an account was granted is a number; a row that is no grant's leaves it,
\* and one that is adds its amount.
LEMMA GrantSumMore ==
    ASSUME BooksTypes, NEW a \in Accounts
    PROVE  /\ GrantSum(a) \in Int
           /\ GrantRows(a) = {} => GrantSum(a) = 0
           /\ LedgersGrow /\ GrantRows(a)' = GrantRows(a) => GrantSum(a)' = GrantSum(a)
           /\ \A row \in Rows :
                  row.reason = "free_grant" /\ ledger'[a] = Append(ledger[a], row)
                      => GrantSum(a)' = GrantSum(a) + row.delta
<1>1. ledger[a] \in Seq(Rows)
  BY DEF BooksTypes
<1>2. IsFiniteSet(GrantRows(a)) /\ GrantRows(a) \subseteq DOMAIN ledger[a]
  BY GrantRowsFinite DEF GrantRows
<1>3. \A n \in DOMAIN ledger[a] : Deltas(a)[n] = ledger[a][n].delta /\ Deltas(a)[n] \in Int
  <2>1. \A n \in DOMAIN ledger[a] : ledger[a][n] \in Rows
    BY <1>1
  <2>2. \A row \in Rows : row.delta \in Int
    BY DEF Rows
  <2> QED
    BY <2>1, <2>2 DEF Deltas
<1> DEFINE deltas == [n \in DOMAIN ledger'[a] |-> ledger'[a][n].delta]
           old == GrantRows(a)
<1>4. Deltas(a)' = deltas
  BY DEF Deltas
<1>5. GrantSum(a) \in Int
  BY <1>2, <1>3, SumIsInt DEF GrantSum
<1>6. ASSUME GrantRows(a) = {} PROVE GrantSum(a) = 0
  <2>1. IsFiniteSet({})
    BY FS_EmptySet
  <2> QED
    BY <1>6, <2>1, SumTakesOne DEF GrantSum
<1>7. ASSUME \A n \in DOMAIN ledger[a] :
                 n \in DOMAIN ledger'[a] /\ ledger'[a][n] = ledger[a][n]
      PROVE  SumFunctionOnSet(deltas, old) = GrantSum(a)
  <2>1. \A n \in old : deltas[n] = Deltas(a)[n]
    BY <1>2, <1>3, <1>7
  <2>2. IsFiniteSet(old)
    BY <1>2
  <2> HIDE DEF deltas, old
  <2> QED
    BY <2>1, <2>2, SumsAgree DEF GrantSum, old
<1>8. ASSUME LedgersGrow, GrantRows(a)' = GrantRows(a) PROVE GrantSum(a)' = GrantSum(a)
  <2>1. \A n \in DOMAIN ledger[a] : n \in DOMAIN ledger'[a] /\ ledger'[a][n] = ledger[a][n]
    <3>1. CASE ledger'[a] = ledger[a]
      BY <3>1
    <3>2. CASE \E row \in Rows : ledger'[a] = Append(ledger[a], row)
      BY <1>1, <3>2, OneMoreRow
    <3> QED
      BY <1>8, <3>1, <3>2 DEF LedgersGrow
  <2>2. GrantSum(a)' = SumFunctionOnSet(deltas, old)
    BY <1>4, <1>8 DEF GrantSum
  <2> QED
    BY <1>7, <2>1, <2>2
<1>9. ASSUME NEW row \in Rows, row.reason = "free_grant", ledger'[a] = Append(ledger[a], row)
      PROVE  GrantSum(a)' = GrantSum(a) + row.delta
  <2> DEFINE new == Len(ledger[a]) + 1
  <2>1. /\ DOMAIN ledger'[a] = DOMAIN ledger[a] \cup {new}
        /\ new \notin DOMAIN ledger[a]
        /\ \A n \in DOMAIN ledger[a] : ledger'[a][n] = ledger[a][n]
        /\ ledger'[a][new] = row
    BY <1>1, <1>9, OneMoreRow
  <2> HIDE DEF new
  <2>2. GrantRows(a)' = old \cup {new} /\ new \notin old
    BY <1>9, <2>1 DEF GrantRows
  <2>3. GrantSum(a)' = SumFunctionOnSet(deltas, old \cup {new})
    BY <1>4, <2>2 DEF GrantSum
  <2>4. deltas[new] = row.delta /\ row.delta \in Int
    BY <2>1 DEF Rows
  <2>5. \A n \in old : deltas[n] \in Int
    BY <1>2, <1>3, <2>1
  <2>6. SumFunctionOnSet(deltas, old) = GrantSum(a)
    BY <1>7, <2>1
  <2>7. IsFiniteSet(old)
    BY <1>2
  <2> HIDE DEF deltas, old
  <2>8. SumFunctionOnSet(deltas, old \cup {new}) = SumFunctionOnSet(deltas, old) + deltas[new]
    BY <2>2, <2>4, <2>5, <2>7, SumAdds
  <2> QED
    BY <2>3, <2>4, <2>6, <2>8
<1> QED
  BY <1>5, <1>6, <1>8, <1>9

\* grant_rows: what a wallet gets makes up for the months since its last grant.
LEMMA GrantSumStep ==
    ASSUME GrantSumsInv, GrantsInv', LedgersGrow, NEW i \in Instances, CommitGrant(i)
    PROVE  GrantsAddUp'
<1>0. /\ ledger \in [Accounts -> Seq(Rows)] /\ work \in [Instances -> Transactions]
      /\ accounts \subseteq Accounts /\ DOMAIN wallets \subseteq accounts
      /\ month \in Nat /\ BooksTypes
      /\ \A a \in DOMAIN wallets :
             wallets[a].granted \in Nat /\ wallets[a].free \in Overrides \cup {MonthlyFree}
  BY DEF GrantSumsInv, GrantsInv, BooksTypes, WalletsOK, IsWallet
<1>1. work[i] \in Transactions /\ work[i].step = "grant"
  BY <1>0 DEF CommitGrant
<1>2. PICK period \in Nat : period = work[i].period /\ period <= month
  BY <1>1 DEF Transactions, Idle, GrantSumsInv, GrantsInv, NoGrantAhead
<1> DEFINE still == work[i].due \cap Due(period)
           delta(a) == MonthsOwed(wallets[a].granted, period) * wallets[a].free
           row(a) == Row("free_grant", delta(a), NoPayment)
<1>3. still \subseteq DOMAIN wallets /\ \A a \in still : wallets[a].granted < period
  BY DEF Due
<1>4. \A a \in DOMAIN wallets : row(a) \in Rows
  BY <1>0, <1>2, GrantIsRow
<1>5. \A a \in Accounts :
          ledger'[a] = IF a \in still THEN Append(ledger[a], row(a)) ELSE ledger[a]
  BY <1>2 DEF CommitGrant, Granted
<1>6. wallets' = Upserted(still, LAMBDA a : [Plus(a, delta(a)) EXCEPT !.granted = period])
  BY <1>2 DEF CommitGrant
<1>7. \A a : row(a).delta = delta(a) /\ row(a).reason = "free_grant"
  BY DEF Row
<1>8. ASSUME NEW a \in still
      PROVE  /\ delta(a) \in Nat
             /\ wallets[a].granted * MostFree + delta(a) <= period * MostFree
  <2>1. /\ MonthsOwed(wallets[a].granted, period) \in Nat
        /\ MonthsOwed(wallets[a].granted, period) <= period - wallets[a].granted
    BY <1>0, <1>2, <1>3, OwedIsBounded
  <2>2. wallets[a].free \in Nat /\ wallets[a].free <= MostFree /\ MostFree \in Nat
    BY <1>0, <1>3, FreeIsBounded
  <2>3. period - wallets[a].granted \in Nat /\ wallets[a].granted \in Nat
        /\ wallets[a].granted <= period
    BY <1>0, <1>2, <1>3
  <2>4. delta(a) \in Nat /\ delta(a) <= (period - wallets[a].granted) * MostFree
        /\ (period - wallets[a].granted) * MostFree \in Nat
    BY <2>1, <2>2, <2>3, MoreIsMore
  <2>5. wallets[a].granted * MostFree + (period - wallets[a].granted) * MostFree
            = period * MostFree
    BY <1>2, <2>2, <2>3, MonthsAddUp
  <2>6. wallets[a].granted * MostFree \in Nat /\ period * MostFree \in Nat
    BY <1>2, <2>2, <2>3, MoreIsMore
  <2> HIDE DEF delta
  <2> QED
    BY <2>4, <2>5, <2>6
<1> HIDE DEF delta, row
<1>9. /\ DOMAIN wallets' = DOMAIN wallets
      /\ \A a \in still : wallets'[a].granted = period
      /\ \A a \in DOMAIN wallets \ still : wallets'[a] = wallets[a]
  <2>1. \A a : [Plus(a, delta(a)) EXCEPT !.granted = period].granted = period
    BY <1>0, PlusIsWallet DEF BooksTypes, IsWallet
  <2> HIDE DEF still
  <2> QED
    BY <1>3, <1>6, <2>1 DEF Upserted
<1>10. month' = month
  BY DEF CommitGrant, Ends
<1> HIDE DEF still
<1>11. ASSUME NEW a \in Accounts
       PROVE  /\ GrantSum(a)' <= month * MostFree
              /\ a \in DOMAIN wallets => GrantSum(a)' <= wallets'[a].granted * MostFree
  <2>1. GrantSum(a) \in Int
    BY <1>0, GrantSumMore
  <2>2. CASE a \in still
    <3>1. GrantSum(a)' = GrantSum(a) + delta(a)
      BY <1>0, <1>3, <1>4, <1>5, <1>7, <2>2, GrantSumMore
    <3>2. GrantSum(a) <= wallets[a].granted * MostFree
      BY <1>3, <2>2 DEF GrantSumsInv, GrantsAddUp
    <3>3. period * MostFree <= month * MostFree
          /\ period * MostFree \in Nat /\ month * MostFree \in Nat
          /\ wallets[a].granted * MostFree \in Nat
      <4>1. MostFree \in Nat /\ MostFree <= MostFree
        BY FreeIsBounded
      <4> QED
        BY <1>0, <1>2, <1>3, <2>2, <4>1, MoreIsMore
    <3>4. GrantSum(a)' <= period * MostFree
      BY <1>8, <2>1, <2>2, <3>1, <3>2, <3>3
    <3>5. GrantSum(a)' \in Int
      BY <1>8, <2>1, <2>2, <3>1
    <3> QED
      BY <1>9, <2>2, <3>3, <3>4, <3>5
  <2>3. CASE a \notin still
    <3>1. ledger'[a] = ledger[a]
      BY <1>5, <2>3
    <3>2. GrantSum(a)' = GrantSum(a)
      BY <3>1 DEF GrantSum, Deltas, GrantRows
    <3> QED
      BY <1>9, <2>3, <3>2 DEF GrantSumsInv, GrantsAddUp
  <2> QED
    BY <2>2, <2>3
<1> QED
  BY <1>9, <1>10, <1>11 DEF GrantsAddUp

\* The invariant what is granted in all rests on.
THEOREM GrantSumsInvariant == Spec => []GrantSumsInv
<1>1. Init => GrantsAddUp
  <2> SUFFICES ASSUME Init PROVE GrantsAddUp
    OBVIOUS
  <2>1. /\ BooksTypes /\ month = 1 /\ DOMAIN wallets = {}
        /\ \A a \in Accounts : GrantRows(a) = {}
    BY BooksTypesInit DEF Init, InitWith, GrantRows
  <2>2. \A a \in Accounts : GrantSum(a) = 0
    BY <2>1, GrantSumMore
  <2> QED
    BY <2>1, <2>2, FreeIsBounded DEF GrantsAddUp
<1>2. GrantSumsInv /\ GrantsInv' /\ [Next]_vars => GrantSumsInv'
  <2> SUFFICES ASSUME GrantSumsInv, GrantsInv', [Next]_vars PROVE GrantsAddUp'
    BY DEF GrantSumsInv
  <2>1. BooksTypes /\ BooksTypes' /\ LedgersGrow
    BY BooksTypesStep, LedgerStep DEF GrantSumsInv, GrantsInv
  <2>2. CASE \E i \in Instances : CommitGrant(i)
    BY <2>1, <2>2, GrantSumStep
  <2>3. CASE ~ \E i \in Instances : CommitGrant(i)
    <3> SUFFICES ASSUME NEW a \in Accounts
                 PROVE  /\ GrantSum(a)' <= month' * MostFree
                        /\ a \in DOMAIN wallets' =>
                               GrantSum(a)' <= wallets'[a].granted * MostFree
      BY DEF GrantsAddUp
    <3>1. LeavesGrants(a)
      BY <2>1, <2>3, GrantsLeft
    <3>2. GrantSum(a)' = GrantSum(a) /\ GrantSum(a) \in Int
      BY <2>1, <3>1, GrantSumMore DEF LeavesGrants
    <3>3. MostFree \in Nat /\ month \in Nat /\ month' \in Nat /\ month <= month'
      BY <2>1, FreeIsBounded, MonthsPass DEF BooksTypes
    <3>4. /\ month * MostFree <= month' * MostFree
          /\ month * MostFree \in Nat /\ month' * MostFree \in Nat
      <4>1. MostFree <= MostFree
        BY <3>3
      <4> QED
        BY <3>3, <4>1, MoreIsMore
    <3>5. GrantSum(a)' <= month' * MostFree
      BY <3>2, <3>4 DEF GrantSumsInv, GrantsAddUp
    <3>6. ASSUME a \in DOMAIN wallets'
          PROVE  GrantSum(a)' <= wallets'[a].granted * MostFree
      <4>1. CASE a \in DOMAIN wallets /\ wallets'[a].granted = wallets[a].granted
        BY <3>2, <4>1 DEF GrantSumsInv, GrantsAddUp
      <4>2. CASE a \in accounts \ DOMAIN wallets /\ wallets'[a].granted = 0
        <5>1. GrantRows(a) = {}
          BY <4>2 DEF GrantSumsInv, GrantsInv, GrantsAreCounted
        <5>2. GrantSum(a)' = 0
          BY <2>1, <3>2, <5>1, GrantSumMore
        <5>3. wallets'[a].granted * MostFree = 0
          BY <3>3, <4>2
        <5> QED
          BY <5>2, <5>3
      <4> QED
        BY <3>1, <3>6, <4>1, <4>2 DEF LeavesGrants
    <3> QED
      BY <3>5, <3>6
  <2> QED
    BY <2>2, <2>3
<1>3. Spec => []GrantsInv
  BY GrantsInvariant
<1>4. GrantsInv /\ GrantsAddUp <=> GrantSumsInv
  BY DEF GrantSumsInv
<1> QED
  BY <1>1, <1>2, <1>3, <1>4, PTL DEF Spec

\* Outages made up for, a month that turns during a pass, instances that grant
\* at once and settings changed in between never give an account more than the
\* largest grant for each month there has been, nor more grants than months.
THEOREM GrantedOnceAMonth == Spec => []OneGrantAMonth
<1>1. GrantSumsInv => OneGrantAMonth
  BY DEF GrantSumsInv, GrantsAddUp, GrantsInv, GrantsAreCounted, OneGrantAMonth,
         GrantsWithinMonths, GrantSum, MostFree
<1> QED
  BY <1>1, GrantSumsInvariant, PTL

----------------------------------------------------------------------------
(* Balances *)

\* The accounts there are balance, those without a wallet at nothing: an
\* account's sums have to be right before it has one.
BalancesTie == \A a \in accounts : Wallet(a).balance = Credited(a) - Debit(charges, a)

\* What the sums need: finitely many charges, each of them of an amount.
ChargesAddUp ==
    /\ IsFiniteSet(queue) /\ IsFiniteSet(charges)
    /\ \A c \in charges : c.cost \in Int

BalancesInv == ChargesInv /\ ChargesAddUp /\ BalancesTie

\* A ledger's sum is a number, and one more row adds its amount.
LEMMA CreditedMore ==
    ASSUME BooksTypes, NEW a \in Accounts
    PROVE  /\ Credited(a) \in Int
           /\ ledger'[a] = ledger[a] => Credited(a)' = Credited(a)
           /\ \A row \in Rows : ledger'[a] = Append(ledger[a], row)
                  => Credited(a)' = Credited(a) + row.delta
<1>1. ledger[a] \in Seq(Rows)
  BY DEF BooksTypes
<1>2. IsFiniteSet(DOMAIN ledger[a])
  <2>1. Len(ledger[a]) \in Nat /\ DOMAIN ledger[a] = 1 .. Len(ledger[a])
    BY <1>1
  <2> QED
    BY <2>1, FS_Interval
<1>3. \A n \in DOMAIN ledger[a] : Deltas(a)[n] \in Int
  <2>1. \A n \in DOMAIN ledger[a] : ledger[a][n] \in Rows
    BY <1>1
  <2>2. \A row \in Rows : row.delta \in Int
    BY DEF Rows
  <2> QED
    BY <2>1, <2>2 DEF Deltas
<1>4. Credited(a) = SumFunctionOnSet(Deltas(a), DOMAIN ledger[a])
  BY DEF Credited, SumFunction, Deltas
<1>5. Credited(a) \in Int
  BY <1>2, <1>3, <1>4, SumIsInt
<1>6. ASSUME ledger'[a] = ledger[a] PROVE Credited(a)' = Credited(a)
  BY <1>6 DEF Credited, Deltas
<1>7. ASSUME NEW row \in Rows, ledger'[a] = Append(ledger[a], row)
      PROVE  Credited(a)' = Credited(a) + row.delta
  <2> DEFINE new == Len(ledger[a]) + 1
             old == DOMAIN ledger[a]
             more == [n \in DOMAIN ledger'[a] |-> ledger'[a][n].delta]
  <2>1. /\ DOMAIN ledger'[a] = old \cup {new}
        /\ new \notin old
        /\ \A n \in old : ledger'[a][n] = ledger[a][n]
        /\ ledger'[a][new] = row
    BY <1>1, <1>7, OneMoreRow
  <2>2. Credited(a)' = SumFunctionOnSet(more, old \cup {new})
    BY <2>1 DEF Credited, SumFunction, Deltas
  <2>3. \A n \in old : more[n] = Deltas(a)[n]
    BY <2>1 DEF Deltas
  <2>4. more[new] = row.delta /\ row.delta \in Int
    BY <2>1 DEF Rows
  <2>5. IsFiniteSet(old)
    BY <1>2
  <2>6. \A n \in old : Deltas(a)[n] \in Int
    BY <1>3
  <2> HIDE DEF new, old, more
  <2>7. SumFunctionOnSet(more, old \cup {new}) = SumFunctionOnSet(more, old) + more[new]
    BY <2>1, <2>3, <2>4, <2>5, <2>6, SumAdds
  <2>8. SumFunctionOnSet(more, old) = SumFunctionOnSet(Deltas(a), old)
    BY <2>3, <2>5, SumsAgree
  <2> QED
    BY <1>4, <2>2, <2>4, <2>7, <2>8 DEF old
<1> QED
  BY <1>5, <1>6, <1>7

\* Charges in two sets that share none debit an account with both.
LEMMA DebitsJoin ==
    ASSUME NEW A, IsFiniteSet(A), NEW B, IsFiniteSet(B), A \cap B = {},
           \A c \in A \cup B : c.cost \in Int, NEW a
    PROVE  /\ Debit(A, a) \in Int /\ Debit(B, a) \in Int
           /\ Debit(A \cup B, a) = Debit(A, a) + Debit(B, a)
<1> DEFINE Of(S) == {c \in S : c.account = a}
           f == [c \in A \cup B |-> c.cost]
<1>1. IsFiniteSet(Of(A)) /\ IsFiniteSet(Of(B))
  BY FS_Subset
<1>2. Of(A) \cap Of(B) = {} /\ Of(A \cup B) = Of(A) \cup Of(B)
  OBVIOUS
<1>3. \A c \in Of(A) \cup Of(B) : f[c] \in Int
  OBVIOUS
<1>4. /\ \A c \in Of(A) : f[c] = [d \in A |-> d.cost][c]
      /\ \A c \in Of(B) : f[c] = [d \in B |-> d.cost][c]
  OBVIOUS
<1>5. /\ Debit(A, a) = SumFunctionOnSet([d \in A |-> d.cost], Of(A))
      /\ Debit(B, a) = SumFunctionOnSet([d \in B |-> d.cost], Of(B))
      /\ Debit(A \cup B, a) = SumFunctionOnSet(f, Of(A) \cup Of(B))
  BY <1>2 DEF Debit
<1> HIDE DEF Of, f
<1>6. SumFunctionOnSet(f, Of(A) \cup Of(B))
          = SumFunctionOnSet(f, Of(A)) + SumFunctionOnSet(f, Of(B))
  BY <1>1, <1>2, <1>3, SumsJoin
<1>7. /\ Debit(A, a) = SumFunctionOnSet(f, Of(A))
      /\ Debit(B, a) = SumFunctionOnSet(f, Of(B))
  <2>1. SumFunctionOnSet(f, Of(A)) = SumFunctionOnSet([d \in A |-> d.cost], Of(A))
    BY <1>1, <1>4, SumsAgree
  <2>2. SumFunctionOnSet(f, Of(B)) = SumFunctionOnSet([d \in B |-> d.cost], Of(B))
    BY <1>1, <1>4, SumsAgree
  <2> QED
    BY <1>5, <2>1, <2>2
<1>8. SumFunctionOnSet(f, Of(A)) \in Int /\ SumFunctionOnSet(f, Of(B)) \in Int
  BY <1>1, <1>3, SumIsInt
<1> QED
  BY <1>5, <1>6, <1>7, <1>8

\* Charges of nothing debit nothing.
LEMMA NothingToDebit ==
    ASSUME NEW A, IsFiniteSet(A), NEW a, \A c \in A : c.account = a => c.cost = 0
    PROVE  Debit(A, a) = 0
<1> DEFINE mine == {c \in A : c.account = a}
           f == [c \in A |-> c.cost]
<1>1. IsFiniteSet(mine) /\ \A c \in mine : f[c] = 0
  BY FS_Subset
<1>2. Debit(A, a) = SumFunctionOnSet(f, mine)
  BY DEF Debit
<1> HIDE DEF mine, f
<1> QED
  BY <1>1, <1>2, SumOfNothing

\* A top-up, a grant or a debit moves the balance by its amount.
LEMMA PlusMoves ==
    ASSUME WalletsOK, NEW a, NEW amount
    PROVE  Plus(a, amount).balance = Wallet(a).balance + amount
<1>1. IsWallet(Wallet(a))
  BY PlusIsWallet
<1> QED
  BY <1>1 DEF IsWallet, Plus

\* A step that charges nothing moves an account's balance by what its ledger
\* gains.
LEMMA BalancesMove ==
    ASSUME BooksTypes, [Next]_vars, ~ \E i \in Instances : CommitCharge(i),
           NEW a \in accounts', a \in accounts, Wallet(a).balance \in Int
    PROVE  \E d \in Int : /\ Wallet(a)'.balance = Wallet(a).balance + d
                          /\ Credited(a)' = Credited(a) + d
<1> DEFINE Goal == \E d \in Int : /\ Wallet(a)'.balance = Wallet(a).balance + d
                                  /\ Credited(a)' = Credited(a) + d
<1>0. /\ accounts \subseteq Accounts /\ a \in Accounts
      /\ ledger \in [Accounts -> Seq(Rows)] /\ work \in [Instances -> Transactions]
      /\ WalletsOK
  BY DEF BooksTypes, WalletsOK
<1>1. ASSUME Wallet(a)'.balance = Wallet(a).balance, ledger'[a] = ledger[a] PROVE Goal
  <2>1. Credited(a)' = Credited(a) /\ Credited(a) \in Int
    BY <1>0, <1>1, CreditedMore
  <2>2. Wallet(a)'.balance = Wallet(a).balance + 0 /\ Credited(a)' = Credited(a) + 0
    BY <1>1, <2>1
  <2> QED
    BY <2>2
<1>2. ASSUME NEW row \in Rows, ledger'[a] = Append(ledger[a], row),
             Wallet(a)'.balance = Wallet(a).balance + row.delta
      PROVE Goal
  <2>1. Credited(a)' = Credited(a) + row.delta /\ row.delta \in Int
    BY <1>0, <1>2, CreditedMore DEF Rows
  <2> QED
    BY <1>2, <2>1
<1> HIDE DEF Goal
<1>3. ASSUME NEW b \in Accounts, NEW row \in Rows, Record(b, row),
             a = b => Wallet(a)'.balance = Wallet(a).balance + row.delta,
             a # b => Wallet(a)' = Wallet(a)
      PROVE Goal
  <2>1. CASE a = b
    <3>1. ledger'[a] = Append(ledger[a], row)
      BY <1>0, <1>3, <2>1 DEF Record
    <3> QED
      BY <1>2, <1>3, <2>1, <3>1
  <2>2. CASE a # b
    <3>1. ledger'[a] = ledger[a]
      BY <1>0, <1>3, <2>2 DEF Record
    <3> QED
      BY <1>1, <1>3, <2>2, <3>1
  <2> QED
    BY <2>1, <2>2
<1>4. ASSUME NEW b \in Accounts, NEW amount \in Entries, AddEntry(b, amount) PROVE Goal
  <2> DEFINE row == Row("operator", amount, NoPayment)
  <2>1. row \in Rows /\ row.delta = amount
    BY CreditsAssumption DEF Row, Rows
  <2>2. Record(b, row) /\ wallets' = Upserted({b}, LAMBDA x : Plus(x, amount))
    BY <1>4 DEF AddEntry
  <2> HIDE DEF row
  <2>3. Wallet(a)' = IF a = b THEN Plus(a, amount) ELSE Wallet(a)
    BY <2>2 DEF Wallet, Upserted
  <2>4. Plus(a, amount).balance = Wallet(a).balance + amount
    BY <1>0, PlusMoves
  <2> QED
    BY <1>3, <2>1, <2>2, <2>3, <2>4
<1>5. ASSUME NEW b \in Accounts, NEW free \in Overrides \cup {MonthlyFree},
             NEW unlimited \in BOOLEAN, UpdateSettings(b, free, unlimited)
      PROVE Goal
  <2> DEFINE row == Row("settings", 0, NoPayment)
             New(x) == [Wallet(x) EXCEPT !.free = free, !.unlimited = unlimited]
  <2>1. row \in Rows /\ row.delta = 0
    BY DEF Row, Rows
  <2>2. IsWallet(Wallet(a))
    BY <1>0, PlusIsWallet
  <2>3. New(a).balance = Wallet(a).balance
    BY <2>2 DEF IsWallet
  <2>4. Record(b, row) /\ wallets' = Upserted({b}, New)
    BY <1>5 DEF UpdateSettings
  <2> HIDE DEF row, New
  <2>5. Wallet(a)' = IF a = b THEN New(a) ELSE Wallet(a)
    BY <2>4 DEF Wallet, Upserted
  <2> QED
    BY <1>3, <2>1, <2>3, <2>4, <2>5
<1>6. ASSUME NEW c \in Checkouts, NEW p \in Payments, NEW agreed \in BOOLEAN,
             PaymentSucceeded(p, c, agreed)
      PROVE Goal
  <2>1. CASE agreed /\ checkouts[c].account \in accounts
    <3> DEFINE row == Row("purchase", Price, p)
    <3>1. row \in Rows /\ row.delta = Price
      BY CreditsAssumption DEF Row, Rows
    <3>2. PICK b \in Accounts : b = checkouts[c].account
      BY <1>0, <2>1
    <3>3. Record(b, row) /\ wallets' = Upserted({b}, LAMBDA x : Plus(x, Price))
      BY <1>6, <2>1, <3>2 DEF PaymentSucceeded
    <3> HIDE DEF row
    <3>4. Wallet(a)' = IF a = b THEN Plus(a, Price) ELSE Wallet(a)
      BY <3>3 DEF Wallet, Upserted
    <3>5. Plus(a, Price).balance = Wallet(a).balance + Price
      BY <1>0, PlusMoves
    <3> QED
      BY <1>3, <3>1, <3>3, <3>4, <3>5
  <2>2. CASE ~(agreed /\ checkouts[c].account \in accounts)
    <3>1. wallets' = wallets /\ ledger' = ledger
      BY <1>6, <2>2 DEF PaymentSucceeded
    <3> QED
      BY <1>1, <3>1 DEF Wallet
  <2> QED
    BY <2>1, <2>2
<1>7. ASSUME NEW i \in Instances, CommitGrant(i) PROVE Goal
  <2>1. work[i] \in Transactions /\ work[i].step = "grant"
    BY <1>0, <1>7 DEF CommitGrant
  <2>2. PICK period \in Nat : period = work[i].period
    BY <2>1 DEF Transactions, Idle
  <2> DEFINE still == work[i].due \cap Due(period)
             delta(x) == MonthsOwed(wallets[x].granted, period) * wallets[x].free
             row == Row("free_grant", delta(a), NoPayment)
  <2>3. still \subseteq DOMAIN wallets
    BY DEF Due
  <2>4. ledger'[a] = IF a \in still THEN Append(ledger[a], row) ELSE ledger[a]
    BY <1>0, <1>7, <2>2 DEF CommitGrant, Granted
  <2>5. wallets' = Upserted(still, LAMBDA x : [Plus(x, delta(x)) EXCEPT !.granted = period])
    BY <1>7, <2>2 DEF CommitGrant
  <2>6. a \in still => row \in Rows
    BY <2>2, <2>3, GrantIsRow
  <2>7. row.delta = delta(a)
    BY DEF Row
  <2> HIDE DEF delta, row, still
  <2>8. CASE a \in still
    <3>1. Wallet(a)' = [Plus(a, delta(a)) EXCEPT !.granted = period]
      BY <2>5, <2>8 DEF Wallet, Upserted
    <3>2. IsWallet(Plus(a, delta(a)))
          /\ Plus(a, delta(a)).balance = Wallet(a).balance + delta(a)
      BY <1>0, PlusIsWallet, PlusMoves
    <3>3. Wallet(a)'.balance = Wallet(a).balance + delta(a)
      BY <3>1, <3>2 DEF IsWallet
    <3> QED
      BY <1>2, <2>4, <2>6, <2>7, <2>8, <3>3
  <2>9. CASE a \notin still
    <3>1. Wallet(a)' = Wallet(a)
      BY <2>3, <2>5, <2>9 DEF Wallet, Upserted
    <3> QED
      BY <1>1, <2>4, <2>9, <3>1
  <2> QED
    BY <2>8, <2>9
<1>8. ASSUME NEW b \in Accounts, DeleteAccount(b) PROVE Goal
  <2>1. a # b
    BY <1>8 DEF DeleteAccount
  <2>2. Wallet(a)' = Wallet(a) /\ ledger' = ledger
    BY <1>8, <2>1 DEF DeleteAccount, Wallet
  <2> QED
    BY <1>1, <2>2
<1>9. ASSUME UNCHANGED <<wallets, ledger>> PROVE Goal
  BY <1>1, <1>9 DEF Wallet
<1>10. ASSUME NextMonth PROVE Goal
  BY <1>9, <1>10 DEF NextMonth, books
<1>11. ASSUME NEW c \in Checkouts,
              \/ \E b \in Accounts : CreateCheckout(c, b)
              \/ \E opened \in BOOLEAN : OpenSession(c, opened)
              \/ PaymentFailed(c)
       PROVE Goal
  BY <1>9, <1>11 DEF CreateCheckout, OpenSession, PaymentFailed
<1>12. ASSUME NEW v \in Invocations, NEW b \in Accounts, Accept(v, b) PROVE Goal
  BY <1>9, <1>12 DEF Accept
<1>13. ASSUME NEW i \in Instances,
              \/ BeginCharge(i) \/ BeginDiscard(i)
              \/ \E period \in 1 .. MaxMonth : BeginGrant(i, period)
       PROVE Goal
  BY <1>9, <1>13 DEF BeginCharge, BeginDiscard, BeginGrant, Opens, books
<1>14. ASSUME NEW i \in Instances, CommitDiscard(i) \/ Crash(i) PROVE Goal
  BY <1>9, <1>14 DEF CommitDiscard, Crash, books
<1>15. ASSUME UNCHANGED vars PROVE Goal
  BY <1>9, <1>15 DEF vars
<1>16. Goal
  BY <1>4, <1>5, <1>6, <1>7, <1>8, <1>10, <1>11, <1>12, <1>13, <1>14, <1>15
  DEF Next, Customers, Accounting
<1> QED
  BY <1>16 DEF Goal

\* Only a batch's commit adds charges, and only invocations are queued.
LEMMA ChargesLeft ==
    ASSUME [Next]_vars, ~ \E i \in Instances : CommitCharge(i)
    PROVE  /\ charges' = charges
           /\ \/ queue' \subseteq queue
              \/ \E row : queue' = queue \cup {row}
<1> DEFINE Goal == /\ charges' = charges
                   /\ \/ queue' \subseteq queue
                      \/ \E row : queue' = queue \cup {row}
<1>1. ASSUME UNCHANGED <<queue, charges>> PROVE Goal
  BY <1>1
<1>2. ASSUME NEW v \in Invocations, NEW a \in Accounts, Accept(v, a) PROVE Goal
  BY <1>2 DEF Accept
<1>3. ASSUME NEW i \in Instances, CommitDiscard(i) PROVE Goal
  BY <1>3 DEF CommitDiscard
<1> HIDE DEF Goal
<1>4. ASSUME NEW i \in Instances, CommitGrant(i) \/ Crash(i) PROVE Goal
  BY <1>1, <1>4 DEF CommitGrant, Crash, books
<1>5. ASSUME NEW i \in Instances,
             \/ BeginCharge(i) \/ BeginDiscard(i)
             \/ \E period \in 1 .. MaxMonth : BeginGrant(i, period)
      PROVE Goal
  BY <1>1, <1>5 DEF BeginCharge, BeginDiscard, BeginGrant, Opens, books
<1>6. ASSUME NextMonth PROVE Goal
  BY <1>1, <1>6 DEF NextMonth, books
<1>7. ASSUME Customers PROVE Goal
  BY <1>1, <1>7
  DEF Customers, AddEntry, UpdateSettings, DeleteAccount, CreateCheckout,
      OpenSession, PaymentSucceeded, PaymentFailed, SetCheckout
<1>8. ASSUME UNCHANGED vars PROVE Goal
  BY <1>1, <1>8 DEF vars
<1>9. Goal
  BY <1>2, <1>3, <1>4, <1>5, <1>6, <1>7, <1>8 DEF Next, Accounting
<1> QED
  BY <1>9 DEF Goal

\* A batch's charges are finitely many, new, and each of an amount.
LEMMA BatchAddsUp ==
    ASSUME ChargesInv, ChargesAddUp, NEW i \in Instances, work[i].step = "charge"
    PROVE  /\ IsFiniteSet(work[i].rows) /\ IsFiniteSet(Made(i))
           /\ charges \cap Made(i) = {}
           /\ \A c \in Made(i) : c.cost \in {0, Cost} /\ c.cost \in Int
<1>1. IsFiniteSet(work[i].rows)
  <2>1. work[i].rows \in SUBSET queue
    BY DEF ChargesInv, BatchesAreCurrent
  <2> QED
    BY <2>1, FS_Subset DEF ChargesAddUp
<1> DEFINE charge == [r \in work[i].rows |->
                         [id |-> r[1], account |-> r[2],
                          cost |-> IF r[2] \in work[i].payers THEN Cost ELSE 0]]
           all == {charge[r] : r \in work[i].rows}
<1>2. all = Priced(work[i].rows, work[i].payers)
  BY DEF Priced
<1>3. \A r \in work[i].rows : charge[r].cost \in {0, Cost}
  OBVIOUS
<1>4. IsFiniteSet(all)
  <2>1. charge = [r \in work[i].rows |-> charge[r]]
    OBVIOUS
  <2> HIDE DEF charge
  <2>2. charge \in Surjection(work[i].rows, all)
    BY <2>1 DEF Surjection
  <2> HIDE DEF all
  <2> QED
    BY <1>1, <2>2, FS_Surjection
<1> HIDE DEF charge
<1>5. \A c \in all : c.cost \in {0, Cost}
  BY <1>3
<1>6. Made(i) \in SUBSET all /\ charges \cap Made(i) = {}
  BY <1>2 DEF Made
<1> HIDE DEF all
<1>7. IsFiniteSet(Made(i))
  BY <1>4, <1>6, FS_Subset
<1> QED
  BY <1>1, <1>5, <1>6, <1>7, CreditsAssumption

\* charge_rows takes from each balance what the new charges of its account come
\* to, and nothing from one that has none.
LEMMA ChargeBalances ==
    ASSUME BalancesInv, NEW i \in Instances, CommitCharge(i)
    PROVE  ChargesAddUp' /\ BalancesTie'
<1> DEFINE debited == {c.account : c \in {d \in Made(i) : d.cost > 0}}
<1>1. /\ work[i].step = "charge" /\ accounts' = accounts /\ ledger' = ledger
      /\ WalletsOK /\ BooksTypes /\ accounts \subseteq Accounts
      /\ IsFiniteSet(charges) /\ IsFiniteSet(queue) /\ \A c \in charges : c.cost \in Int
  BY DEF CommitCharge, Ends, BalancesInv, ChargesInv, ChargesAddUp, BooksTypes, WalletsOK
<1>2. /\ IsFiniteSet(Made(i)) /\ charges \cap Made(i) = {}
      /\ \A c \in Made(i) : c.cost \in {0, Cost} /\ c.cost \in Int
  BY <1>1, BatchAddsUp DEF BalancesInv
<1>3. CASE References(debited)
  <2>1. /\ queue' = queue \ work[i].rows /\ charges' = charges \cup Made(i)
        /\ wallets' = Upserted(debited, LAMBDA x : Plus(x, -Debit(Made(i), x)))
    BY <1>3 DEF CommitCharge, Made
  <2>2. ChargesAddUp'
    <3>1. queue' \in SUBSET queue
      BY <2>1
    <3>2. IsFiniteSet(queue') /\ IsFiniteSet(charges \cup Made(i))
      BY <1>1, <1>2, <3>1, FS_Subset, FS_Union
    <3> QED
      BY <1>1, <1>2, <2>1, <3>2 DEF ChargesAddUp
  <2>3. ASSUME NEW a \in accounts
        PROVE  Wallet(a)'.balance = Credited(a)' - Debit(charges', a)
    <3>1. /\ Debit(charges, a) \in Int /\ Debit(Made(i), a) \in Int
          /\ Debit(charges', a) = Debit(charges, a) + Debit(Made(i), a)
      BY <1>1, <1>2, <2>1, DebitsJoin
    <3>2. Credited(a)' = Credited(a) /\ Credited(a) \in Int
      BY <1>1, CreditedMore
    <3>3. Wallet(a).balance = Credited(a) - Debit(charges, a)
      BY DEF BalancesInv, BalancesTie
    <3>4. CASE a \in debited
      <4>1. Wallet(a)' = Plus(a, -Debit(Made(i), a))
        BY <2>1, <3>4 DEF Wallet, Upserted
      <4>2. Wallet(a)'.balance = Wallet(a).balance + (-Debit(Made(i), a))
        BY <1>1, <4>1, PlusMoves
      <4> QED
        BY <3>1, <3>2, <3>3, <4>2
    <3>5. CASE a \notin debited
      <4>1. Wallet(a)' = Wallet(a)
        BY <2>1, <3>5 DEF Wallet, Upserted
      <4>2. \A c \in Made(i) : c.account = a => c.cost = 0
        BY <1>2, <3>5, CreditsAssumption
      <4>3. Debit(Made(i), a) = 0
        BY <1>2, <4>2, NothingToDebit
      <4> QED
        BY <3>1, <3>2, <3>3, <4>1, <4>3
    <3> QED
      BY <3>4, <3>5
  <2> QED
    BY <1>1, <2>2, <2>3 DEF BalancesTie
<1>4. CASE ~References(debited)
  <2>1. UNCHANGED <<queue, charges, wallets>>
    BY <1>4 DEF CommitCharge, Made
  <2> QED
    BY <1>1, <2>1
    DEF BalancesInv, ChargesAddUp, BalancesTie, Wallet, Credited, Deltas
<1> QED
  BY <1>3, <1>4

\* The invariant the balances rest on.
THEOREM BalancesInvariant == Spec => []BalancesInv
<1>1. Init => BalancesInv
  <2> SUFFICES ASSUME Init PROVE BalancesInv
    OBVIOUS
  <2>1. ChargesInv
    BY BooksTypesInit
    DEF Init, InitWith, ChargesInv, RowsAwaitCharge, OneTransaction,
        BatchesAreCurrent, Idle
  <2>2. /\ queue = {} /\ charges = {} /\ DOMAIN wallets = {}
        /\ accounts = Accounts /\ ledger = [a \in Accounts |-> << >>]
    BY DEF Init, InitWith
  <2>3. ChargesAddUp
    BY <2>2, FS_EmptySet DEF ChargesAddUp
  <2>4. ASSUME NEW a \in Accounts PROVE Credited(a) = 0 /\ Debit(charges, a) = 0
    <3>1. DOMAIN ledger[a] = {} /\ IsFiniteSet({})
      BY <2>2, FS_EmptySet
    <3>2. Credited(a) = 0
      <4>1. Credited(a) = SumFunctionOnSet(Deltas(a), {})
        BY <3>1 DEF Credited, SumFunction, Deltas
      <4> QED
        BY <3>1, <4>1, SumTakesOne
    <3>3. Debit(charges, a) = 0
      BY <2>2, <3>1, NothingToDebit
    <3> QED
      BY <3>2, <3>3
  <2>5. \A a : Wallet(a).balance = 0
    BY <2>2 DEF Wallet, NewWallet
  <2>6. BalancesTie
    BY <2>2, <2>4, <2>5 DEF BalancesTie
  <2> QED
    BY <2>1, <2>3, <2>6 DEF BalancesInv
<1>2. BalancesInv /\ [Next]_vars => BalancesInv'
  <2> SUFFICES ASSUME BalancesInv, [Next]_vars PROVE BalancesInv'
    OBVIOUS
  <2>1. BooksTypes /\ BooksTypes' /\ ChargesInv'
    BY BooksTypesStep, ChargesStep DEF BalancesInv, ChargesInv
  <2>2. CASE \E i \in Instances : CommitCharge(i)
    BY <2>1, <2>2, ChargeBalances DEF BalancesInv
  <2>3. CASE ~ \E i \in Instances : CommitCharge(i)
    <3>1. /\ charges' = charges
          /\ queue' \subseteq queue \/ \E row : queue' = queue \cup {row}
      BY <2>3, ChargesLeft
    <3>2. IsFiniteSet(queue')
      BY <3>1, FS_Subset, FS_AddElement DEF BalancesInv, ChargesAddUp
    <3>3. ASSUME NEW a \in accounts'
          PROVE  Wallet(a)'.balance = Credited(a)' - Debit(charges', a)
      <4>1. a \in accounts /\ a \in Accounts
        BY <2>1, GrantedStays DEF BooksTypes, WalletsOK
      <4>2. Credited(a) \in Int
        BY <2>1, <4>1, CreditedMore
      <4>3. Debit(charges, a) \in Int
        <5>1. IsFiniteSet(charges) /\ \A c \in charges : c.cost \in Int
          BY DEF BalancesInv, ChargesAddUp
        <5>2. IsFiniteSet({})
          BY FS_EmptySet
        <5> QED
          BY <5>1, <5>2, DebitsJoin
      <4>4. Wallet(a).balance = Credited(a) - Debit(charges, a)
        BY <4>1 DEF BalancesInv, BalancesTie
      <4>5. PICK d \in Int : /\ Wallet(a)'.balance = Wallet(a).balance + d
                             /\ Credited(a)' = Credited(a) + d
        BY <2>1, <2>3, <4>1, <4>2, <4>3, <4>4, BalancesMove
      <4> QED
        BY <3>1, <4>2, <4>3, <4>4, <4>5
    <3> QED
      BY <2>1, <3>1, <3>2, <3>3 DEF BalancesInv, ChargesAddUp, BalancesTie
  <2> QED
    BY <2>2, <2>3
<1> QED
  BY <1>1, <1>2, PTL DEF Spec

\* Whatever operators, purchases, settings, overlapping and crashing accounting
\* passes and deleted accounts did, in any order, a wallet holds the sum of its
\* account's ledger less the sum of its charges.
THEOREM BalancesAreSums == Spec => []BooksBalance
<1>1. BalancesInv => BooksBalance
  BY DEF BalancesInv, BalancesTie, BooksBalance, Wallet, ChargesInv, BooksTypes, WalletsOK
<1> QED
  BY <1>1, BalancesInvariant, PTL

----------------------------------------------------------------------------
(* The switches *)

SwitchTypes ==
    /\ blocked \in [Instances -> SUBSET Accounts]
    /\ age \in [Instances -> 0 .. Old]
    /\ reading \in [Instances -> [found : SUBSET Accounts, age : {-1, 0, 1}]]
    /\ outAge \in [Accounts -> Nat]

\* outAge counts from the last tick an account was out of credits.
OutIsNow == \A a \in Accounts : Out(a) => outAge[a] = 0

\* What a refresh found is no older than the refresh.
ReadingIsFresh ==
    \A i \in Instances : \A a \in reading[i].found : outAge[a] <= reading[i].age

\* What a snapshot blocks is a tick older than the snapshot at most, until the
\* snapshot is too old to count.
SnapshotIsRecent ==
    \A i \in Instances : \A a \in blocked[i] : age[i] # Old => outAge[a] <= age[i] + 1

\* Whoever was seen out of credits and has an account still has a wallet that
\* was granted.
SeenWereGranted ==
    \A i \in Instances : \A a \in (blocked[i] \cup reading[i].found) \cap accounts :
        a \in DOMAIN wallets /\ wallets[a].granted # 0

SwitchesInv ==
    /\ BooksTypes /\ SwitchTypes
    /\ OutIsNow /\ ReadingIsFresh /\ SnapshotIsRecent /\ SeenWereGranted

\* The clocks of the switches never run ahead of time.
LEMMA OlderBounds ==
    ASSUME NEW n \in Nat
    PROVE  Older(n) \in Nat /\ Older(n) <= n + 1 /\ (n # Old => Older(n) \in {n + 1, Old})
BY SwitchesAssumption DEF Older, Old

\* A step of the books sees who is out, and leaves the snapshots alone.
LEMMA BooksSeen ==
    ASSUME SwitchesInv, BooksTypes', [Next]_vars, Keep, SeesOut
    PROVE  SwitchesInv'
<1>1. \A a \in Accounts : outAge'[a] \in {0, outAge[a]} /\ outAge[a] \in Nat
  BY DEF SeesOut, SwitchesInv, SwitchTypes
<1>2. SwitchTypes'
  BY DEF SwitchesInv, SwitchTypes, Keep, SeesOut
<1>3. OutIsNow'
  BY DEF OutIsNow, SeesOut
<1>4. ReadingIsFresh'
  <2>1. \A i \in Instances : \A a \in reading[i].found :
            a \in Accounts /\ reading[i].age \in {-1, 0, 1}
    BY DEF SwitchesInv, SwitchTypes
  <2> QED
    BY <1>1, <2>1 DEF SwitchesInv, ReadingIsFresh, Keep
<1>5. SnapshotIsRecent'
  <2>1. \A i \in Instances : age[i] \in Nat /\ \A a \in blocked[i] : a \in Accounts
    BY DEF SwitchesInv, SwitchTypes
  <2> QED
    BY <1>1, <2>1 DEF SwitchesInv, SnapshotIsRecent, Keep
<1>6. SeenWereGranted'
  <2>1. \A a \in accounts' :
            /\ a \in accounts
            /\ a \in DOMAIN wallets /\ wallets[a].granted # 0 =>
                   a \in DOMAIN wallets' /\ wallets'[a].granted # 0
    BY GrantedStays DEF SwitchesInv
  <2> QED
    BY <2>1 DEF SwitchesInv, SeenWereGranted, Keep
<1> QED
  BY <1>2, <1>3, <1>4, <1>5, <1>6 DEF SwitchesInv

\* Every step of the books, the ticks and the refreshes keeps what is known of
\* whom an instance blocks.
LEMMA SwitchesStep ==
    ASSUME SwitchesInv, [SwitchesNext]_<<vars, switchVars>> PROVE SwitchesInv'
<1>0. /\ BooksTypes /\ Old \in Nat
      /\ blocked \in [Instances -> SUBSET Accounts]
      /\ age \in [Instances -> 0 .. Old]
      /\ reading \in [Instances -> [found : SUBSET Accounts, age : {-1, 0, 1}]]
      /\ outAge \in [Accounts -> Nat]
      /\ NoReading \in [found : SUBSET Accounts, age : {-1, 0, 1}]
      /\ NoReading.found = {}
  BY SwitchesAssumption DEF SwitchesInv, SwitchTypes, Old, NoReading
<1>1. CASE BooksStep
  <2>1. Next /\ Keep /\ SeesOut
    BY <1>1 DEF BooksStep, Next
  <2> QED
    BY <1>0, <2>1, BooksTypesStep, BooksSeen
<1>2. ASSUME NEW i \in Instances, NEW v \in Invocations, NEW a \in Accounts,
             Invoke(i, v, a)
      PROVE SwitchesInv'
  <2>1. Next /\ Keep /\ SeesOut
    BY <1>2 DEF Invoke, Next
  <2> QED
    BY <1>0, <2>1, BooksTypesStep, BooksSeen
<1>3. ASSUME UNCHANGED vars, OutIsNow', SwitchTypes', ReadingIsFresh', SnapshotIsRecent',
             \A i \in Instances : \A a \in blocked'[i] \cup reading'[i].found :
                 \/ \E j \in Instances : a \in blocked[j] \cup reading[j].found
                 \/ Out(a)
      PROVE SwitchesInv'
  <2>1. BooksTypes'
    BY <1>0, <1>3, BooksTypesStep
  <2>2. SeenWereGranted'
    BY <1>3 DEF vars, SwitchesInv, SeenWereGranted, Out
  <2> QED
    BY <1>3, <2>1, <2>2 DEF SwitchesInv
<1>4. ASSUME NEW i \in Instances, ReadSwitches(i) PROVE SwitchesInv'
  <2> DEFINE seen == {a \in Accounts : Billing(i) /\ Out(a)}
  <2>1. /\ reading' = [reading EXCEPT ![i] = [found |-> seen, age |-> 0]]
        /\ UNCHANGED <<blocked, age, outAge>> /\ UNCHANGED vars
    BY <1>4 DEF ReadSwitches
  <2>2. \A a \in seen : Out(a) /\ outAge[a] = 0 /\ a \in Accounts
    BY DEF SwitchesInv, OutIsNow
  <2> HIDE DEF seen
  <2>3. OutIsNow'
    BY <2>1 DEF SwitchesInv, OutIsNow, Out, vars
  <2>4. SwitchTypes' /\ ReadingIsFresh' /\ SnapshotIsRecent'
    BY <1>0, <2>1, <2>2 DEF SwitchesInv, SwitchTypes, ReadingIsFresh, SnapshotIsRecent
  <2> QED
    BY <1>0, <1>3, <2>1, <2>2, <2>3, <2>4
<1>5. ASSUME NEW i \in Instances, ReplaceAll(i) PROVE SwitchesInv'
  <2>1. /\ blocked' = [blocked EXCEPT ![i] = reading[i].found]
        /\ age' = [age EXCEPT ![i] = 0]
        /\ reading' = [reading EXCEPT ![i] = NoReading]
        /\ UNCHANGED outAge /\ UNCHANGED vars
    BY <1>5 DEF ReplaceAll
  <2>2. OutIsNow'
    BY <2>1 DEF SwitchesInv, OutIsNow, Out, vars
  <2>3. SwitchTypes'
    BY <1>0, <2>1 DEF SwitchesInv, SwitchTypes
  <2>4. ReadingIsFresh'
    BY <1>0, <2>1 DEF SwitchesInv, ReadingIsFresh
  <2>5. SnapshotIsRecent'
    BY <1>0, <2>1 DEF SwitchesInv, SnapshotIsRecent, ReadingIsFresh
  <2> QED
    BY <1>0, <1>3, <2>1, <2>2, <2>3, <2>4, <2>5
<1>6. ASSUME NEW i \in Instances, RefreshFails(i) PROVE SwitchesInv'
  <2>1. /\ reading' = [reading EXCEPT ![i] = NoReading]
        /\ UNCHANGED <<blocked, age, outAge>> /\ UNCHANGED vars
    BY <1>6 DEF RefreshFails
  <2>2. OutIsNow'
    BY <2>1 DEF SwitchesInv, OutIsNow, Out, vars
  <2>3. SwitchTypes' /\ ReadingIsFresh' /\ SnapshotIsRecent'
    BY <1>0, <2>1 DEF SwitchesInv, SwitchTypes, ReadingIsFresh, SnapshotIsRecent
  <2> QED
    BY <1>0, <1>3, <2>1, <2>2, <2>3
<1>7. ASSUME NEW i \in Instances, Restart(i) PROVE SwitchesInv'
  <2>1. BooksTypes'
    <3>1. Idle \in Transactions
      BY DEF Transactions
    <3> QED
      BY <1>0, <1>7, <3>1 DEF Restart, BooksTypes, WalletsOK, books
  <2>2. OutIsNow'
    BY <1>7 DEF Restart, SwitchesInv, OutIsNow, Out, books
  <2>3. SwitchTypes'
    BY <1>0, <1>7 DEF Restart, SwitchTypes
  <2>4. ReadingIsFresh'
    BY <1>0, <1>7 DEF Restart, SwitchesInv, ReadingIsFresh
  <2>5. SnapshotIsRecent'
    BY <1>0, <1>7 DEF Restart, SwitchesInv, SnapshotIsRecent
  <2>6. SeenWereGranted'
    BY <1>0, <1>7 DEF Restart, SwitchesInv, SeenWereGranted, books
  <2> QED
    BY <2>1, <2>2, <2>3, <2>4, <2>5, <2>6 DEF SwitchesInv
<1>8. CASE Tick
  <2>1. /\ age' = [i \in Instances |-> Older(age[i])]
        /\ reading' = [i \in Instances |-> TimedOut(reading[i])]
        /\ outAge' = [a \in Accounts |-> IF Out(a) THEN 0 ELSE Older(outAge[a])]
        /\ UNCHANGED blocked /\ UNCHANGED vars
    BY <1>8 DEF Tick
  <2>2. \A a \in Accounts : outAge'[a] \in Nat /\ outAge'[a] <= outAge[a] + 1
    BY <1>0, <2>1, OlderBounds
  <2>3. \A i \in Instances :
            \/ reading'[i] = NoReading
            \/ /\ reading[i].age # 1
               /\ reading'[i] = [reading[i] EXCEPT !.age = @ + 1]
    BY <2>1 DEF TimedOut
  <2>4. \A i \in Instances : age[i] # Old => age'[i] \in {age[i] + 1, Old}
    BY <1>0, <2>1, OlderBounds
  <2>5. OutIsNow'
    BY <2>1 DEF OutIsNow, Out, vars
  <2>6. \A i \in Instances :
            \/ reading'[i] = NoReading
            \/ /\ reading[i].age \in {-1, 0}
               /\ reading'[i].found = reading[i].found
               /\ reading'[i].age = reading[i].age + 1
               /\ reading'[i] \in [found : SUBSET Accounts, age : {-1, 0, 1}]
    <3> SUFFICES ASSUME NEW i \in Instances, reading[i].age # 1,
                        reading'[i] = [reading[i] EXCEPT !.age = @ + 1]
                 PROVE  /\ reading[i].age \in {-1, 0}
                        /\ reading'[i].found = reading[i].found
                        /\ reading'[i].age = reading[i].age + 1
                        /\ reading'[i] \in [found : SUBSET Accounts, age : {-1, 0, 1}]
      BY <2>3
    <3>1. reading[i] \in [found : SUBSET Accounts, age : {-1, 0, 1}]
      BY <1>0
    <3>2. reading[i].age \in {-1, 0} /\ reading[i].age + 1 \in {0, 1}
      BY <3>1
    <3> QED
      BY <3>1, <3>2
  <2>7. SwitchTypes'
    <3>1. age' \in [Instances -> 0 .. Old]
      BY <1>0, <2>1, SwitchesAssumption DEF Older, Old
    <3>2. reading' \in [Instances -> [found : SUBSET Accounts, age : {-1, 0, 1}]]
      BY <1>0, <2>1, <2>6
    <3>3. outAge' \in [Accounts -> Nat] /\ blocked' \in [Instances -> SUBSET Accounts]
      BY <1>0, <2>1, <2>2
    <3> QED
      BY <3>1, <3>2, <3>3 DEF SwitchTypes
  <2>8. ReadingIsFresh'
    BY <1>0, <2>2, <2>6 DEF SwitchesInv, ReadingIsFresh
  <2>9. SnapshotIsRecent'
    <3> SUFFICES ASSUME NEW i \in Instances, NEW a \in blocked[i], age'[i] # Old
                 PROVE  outAge'[a] <= age'[i] + 1
      BY <2>1 DEF SnapshotIsRecent, Old
    <3>1. age[i] # Old
      BY <1>0, <2>1 DEF Older
    <3>2. outAge[a] <= age[i] + 1 /\ a \in Accounts
      BY <1>0, <3>1 DEF SwitchesInv, SnapshotIsRecent
    <3>3. age'[i] = age[i] + 1 /\ age[i] \in Nat
      BY <1>0, <2>4, <3>1
    <3> QED
      BY <1>0, <2>2, <3>2, <3>3
  <2>10. \A i \in Instances : \A a \in blocked'[i] \cup reading'[i].found :
             a \in blocked[i] \cup reading[i].found
    BY <1>0, <2>1, <2>6
  <2> QED
    BY <1>3, <2>1, <2>5, <2>7, <2>8, <2>9, <2>10
<1>9. CASE UNCHANGED <<vars, switchVars>>
  <2>1. UNCHANGED vars /\ UNCHANGED <<blocked, age, reading, outAge>>
    BY <1>9 DEF switchVars
  <2>2. OutIsNow' /\ SwitchTypes' /\ ReadingIsFresh' /\ SnapshotIsRecent'
    BY <2>1 DEF SwitchesInv, SwitchTypes, OutIsNow, Out, ReadingIsFresh,
                SnapshotIsRecent, vars
  <2> QED
    BY <1>3, <2>1, <2>2
<1> QED
  BY <1>1, <1>2, <1>4, <1>5, <1>6, <1>7, <1>8, <1>9 DEF SwitchesNext

\* The invariant the switches rest on.
THEOREM SwitchesInvariant == SwitchesSpec => []SwitchesInv
<1>1. SwitchesInit => SwitchesInv
  <2> SUFFICES ASSUME SwitchesInit PROVE SwitchesInv
    OBVIOUS
  <2>1. BooksTypes
    BY BooksTypesInit DEF SwitchesInit
  <2>2. Old \in Nat
    BY SwitchesAssumption DEF Old
  <2>3. DOMAIN wallets = {}
    BY DEF SwitchesInit, Init, InitWith
  <2> QED
    BY <2>1, <2>2, <2>3
    DEF SwitchesInit, SwitchesInv, SwitchTypes, OutIsNow, Out, ReadingIsFresh,
        SnapshotIsRecent, SeenWereGranted, NoReading
<1>2. SwitchesInv /\ [SwitchesNext]_<<vars, switchVars>> => SwitchesInv'
  BY SwitchesStep
<1> QED
  BY <1>1, <1>2, PTL DEF SwitchesSpec

\* Refreshes that fail, hang, are dropped or overtake a top-up, and instances
\* that restart, never make an instance refuse an account that has not been out
\* of credits for longer than a snapshot is good for and a refresh may take.
THEOREM OnlyTheRecentlyOutAreBlocked == SwitchesSpec => []BlocksOnlyTheRecentlyOut
<1>1. SwitchesInv => BlocksOnlyTheRecentlyOut
  <2> SUFFICES ASSUME SwitchesInv, NEW i \in Instances, NEW a \in Accounts, Blocks(i, a)
               PROVE  outAge[a] <= StaleAfter + 1
    BY DEF BlocksOnlyTheRecentlyOut
  <2>1. age[i] \in Nat /\ age[i] <= StaleAfter /\ a \in blocked[i]
    BY DEF Blocks, IsFresh, SwitchesInv, SwitchTypes
  <2>2. age[i] # Old
    BY <2>1, SwitchesAssumption DEF Old
  <2>3. outAge[a] <= age[i] + 1 /\ outAge[a] \in Nat
    BY <2>1, <2>2 DEF SwitchesInv, SnapshotIsRecent, SwitchTypes
  <2> QED
    BY <2>1, <2>3, SwitchesAssumption
<1> QED
  BY <1>1, SwitchesInvariant, PTL

\* A wallet that the charge of a first invocation overdraws is not refused
\* before its first grant, whatever snapshot an instance goes by.
THEOREM GrantComesBeforeBlocking == SwitchesSpec => []GrantedBeforeBlocked
<1>1. SwitchesInv => GrantedBeforeBlocked
  BY DEF SwitchesInv, SeenWereGranted, GrantedBeforeBlocked, Blocks, BooksTypes, WalletsOK
<1> QED
  BY <1>1, SwitchesInvariant, PTL
=============================================================================
