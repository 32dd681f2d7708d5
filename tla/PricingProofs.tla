--------------------------- MODULE PricingProofs ---------------------------
(* What the strategies make of a subtotal, for every subtotal and rate.     *)
EXTENDS Pricing, FiniteSetTheorems, WellFoundedInduction, TLAPS

-----------------------------------------------------------------------------
(* Sums over a finite set.  The library has no theorem about them that the *)
(* provers can use, so the recursive function behind MapThenSumSet and     *)
(* SumFunction is shown to exist, and its values to be naturals, by looking *)
(* at a smallest set for which that fails.                                 *)

\* Of the subsets of a finite set that are bad in some way, one has no bad
\* subset but itself.
LEMMA SmallestSet ==
    ASSUME NEW S, IsFiniteSet(S), NEW bad, bad \subseteq SUBSET S, bad # {}
    PROVE  \E X \in bad : \A Y \in bad : Y \subseteq X => Y = X
<1>1. IsWellFoundedOn(StrictSubsetOrdering(S), SUBSET S)
  BY FS_StrictSubsetOrderingWellFounded, FS_FiniteSubsetsOfFinite
<1>2. PICK X \in bad : \A Y \in bad : ~ (<<Y, X>> \in StrictSubsetOrdering(S))
  BY <1>1, WFMin
<1> QED
  BY <1>2 DEF StrictSubsetOrdering

\* The element that a fold takes first.
First(s) == CHOOSE x \in s : TRUE

\* g gives the sum of f over every subset of S.
Sums(f, S, g) ==
    g = [s \in SUBSET S |-> IF s = {} THEN 0 ELSE f[First(s)] + g[s \ {First(s)}]]

\* The sum over a nonempty set is a value and the sum over the rest.
LEMMA SumsStep ==
    ASSUME NEW f, NEW S, NEW g, Sums(f, S, g), NEW s \in SUBSET S, s # {}
    PROVE  /\ First(s) \in s
           /\ s \ {First(s)} \in SUBSET S
           /\ s \ {First(s)} \subseteq s
           /\ s \ {First(s)} # s
           /\ g[s] = f[First(s)] + g[s \ {First(s)}]
  BY DEF Sums, First

\* The sums over the subsets of a smaller set are the same.
LEMMA SumsAgree ==
    ASSUME NEW f, NEW S, IsFiniteSet(S), NEW g, Sums(f, S, g),
           NEW T \in SUBSET S, NEW h, Sums(f, T, h)
    PROVE  \A s \in SUBSET T : g[s] = h[s]
<1> DEFINE bad == {s \in SUBSET T : g[s] # h[s]}
<1> SUFFICES ASSUME bad # {} PROVE FALSE
  OBVIOUS
<1>1. PICK X \in bad : \A Y \in bad : Y \subseteq X => Y = X
  <2>1. bad \subseteq SUBSET S
    OBVIOUS
  <2> HIDE DEF bad
  <2> QED
    BY <2>1, SmallestSet
<1>2. X \in SUBSET T /\ X \in SUBSET S /\ g[X] # h[X]
  OBVIOUS
<1>3. X # {}
  BY <1>2 DEF Sums
<1>4. g[X \ {First(X)}] = h[X \ {First(X)}]
  BY <1>1, <1>2, <1>3, SumsStep
<1>5. /\ g[X] = f[First(X)] + g[X \ {First(X)}]
      /\ h[X] = f[First(X)] + h[X \ {First(X)}]
  BY <1>2, <1>3, SumsStep
<1> QED
  BY ONLY <1>2, <1>4, <1>5

\* There are such sums: those of a smallest set without them are put together
\* from those of its proper subsets.
LEMMA SumsExist ==
    ASSUME NEW f, NEW S, IsFiniteSet(S)
    PROVE  \E g : Sums(f, S, g)
<1> DEFINE bad == {X \in SUBSET S : ~ \E g : Sums(f, X, g)}
<1> SUFFICES ASSUME bad # {} PROVE FALSE
  OBVIOUS
<1>1. PICK X \in bad : \A Y \in bad : Y \subseteq X => Y = X
  <2>1. bad \subseteq SUBSET S
    OBVIOUS
  <2> HIDE DEF bad
  <2> QED
    BY <2>1, SmallestSet
<1> DEFINE part(Y) == CHOOSE g : Sums(f, Y, g)
           value(Y) == IF Y = {} THEN 0
                       ELSE IF Y = X THEN f[First(X)] + part(X \ {First(X)})[X \ {First(X)}]
                       ELSE part(Y)[Y]
           sum == [Y \in SUBSET X |-> value(Y)]
<1>2. X \in SUBSET S /\ ~ \E g : Sums(f, X, g)
  OBVIOUS
<1>3. ASSUME NEW Y \in SUBSET X, Y # X
      PROVE  Sums(f, Y, part(Y)) /\ IsFiniteSet(Y)
  <2>1. Y \in SUBSET S /\ Y \notin bad
    BY <1>1, <1>2, <1>3
  <2> QED
    BY <2>1, FS_Subset
<1> HIDE DEF part, bad
<1>4. ASSUME NEW Y \in SUBSET X, Y # {}
      PROVE  value(Y) = f[First(Y)] + value(Y \ {First(Y)})
  <2> DEFINE Z == Y \ {First(Y)}
  <2>1. First(Y) \in Y /\ Z \in SUBSET X /\ Z \in SUBSET Y /\ Z # X /\ Z # Y
    BY <1>4 DEF First
  <2>2. Sums(f, Z, part(Z))
    BY <1>3, <2>1
  <2> HIDE DEF Z
  <2>3. value(Z) = part(Z)[Z]
    <3>1. Z = {} => part(Z)[Z] = 0
      BY <2>2 DEF Sums
    <3> QED
      BY <2>1, <3>1
  <2>4. CASE Y = X
    BY <1>4, <2>3, <2>4 DEF Z
  <2>5. CASE Y # X
    <3>1. Sums(f, Y, part(Y)) /\ IsFiniteSet(Y)
      BY <1>3, <2>5
    <3>2. part(Y)[Z] = part(Z)[Z]
      BY <2>1, <2>2, <3>1, SumsAgree
    <3>3. part(Y)[Y] = f[First(Y)] + part(Y)[Z]
      BY <1>4, <3>1, SumsStep DEF Z
    <3>4. value(Y) = part(Y)[Y]
      BY <1>4, <2>5
    <3> HIDE DEF value
    <3> QED
      BY ONLY <2>3, <3>2, <3>3, <3>4 DEF Z
  <2> QED
    BY <2>4, <2>5
<1>5. value({}) = 0
  OBVIOUS
<1> HIDE DEF value
<1>6. ASSUME NEW Y \in SUBSET X
      PROVE  sum[Y] = IF Y = {} THEN 0 ELSE f[First(Y)] + sum[Y \ {First(Y)}]
  BY <1>4, <1>5
<1>7. DOMAIN sum = SUBSET X /\ sum = [Y \in SUBSET X |-> sum[Y]]
  OBVIOUS
<1> HIDE DEF sum
<1>8. Sums(f, X, sum)
  BY <1>6, <1>7 DEF Sums
<1> QED
  BY <1>2, <1>8

\* A finite sum of naturals is a natural.
LEMMA SumOfNaturals ==
    ASSUME NEW f, IsFiniteSet(DOMAIN f), \A x \in DOMAIN f : f[x] \in Nat
    PROVE  SumFunction(f) \in Nat
<1> DEFINE S == DOMAIN f
           sum == CHOOSE g : Sums(f, S, g)
           bad == {s \in SUBSET S : sum[s] \notin Nat}
<1>1. SumFunction(f) = sum[S]
  BY DEF SumFunction, SumFunctionOnSet, FoldFunctionOnSet, MapThenFoldSet, Sums, First
<1>2. IsFiniteSet(S) /\ \A x \in S : f[x] \in Nat
  OBVIOUS
<1> HIDE DEF S
<1>3. Sums(f, S, sum)
  BY <1>2, SumsExist
<1> HIDE DEF sum
<1> SUFFICES ASSUME bad # {} PROVE FALSE
  BY <1>1
<1>4. PICK X \in bad : \A Y \in bad : Y \subseteq X => Y = X
  <2>1. bad \subseteq SUBSET S
    OBVIOUS
  <2> HIDE DEF bad
  <2> QED
    BY <1>2, <2>1, SmallestSet
<1>5. X \in SUBSET S /\ sum[X] \notin Nat
  OBVIOUS
<1>6. X # {}
  BY <1>3, <1>5 DEF Sums
<1> HIDE DEF bad
<1>7. /\ First(X) \in X
      /\ X \ {First(X)} \in SUBSET S
      /\ X \ {First(X)} \subseteq X
      /\ X \ {First(X)} # X
      /\ sum[X] = f[First(X)] + sum[X \ {First(X)}]
  BY <1>3, <1>5, <1>6, SumsStep
<1>8. sum[X \ {First(X)}] \in Nat
  BY <1>4, <1>7 DEF bad
<1>9. f[First(X)] \in Nat
  BY <1>2, <1>5, <1>7
<1> QED
  BY ONLY <1>5, <1>7, <1>8, <1>9

\* The two ways the model writes the sum of an order's lines are one.
LEMMA SubtotalIsSum ==
    ASSUME NEW lines, NEW price
    PROVE  Subtotal(lines, price) = SumFunction([p \in DOMAIN lines |-> price[p] * lines[p]])
<1>1. \A f : SumFunction(f) = (CHOOSE g : Sums(f, DOMAIN f, g))[DOMAIN f]
  BY DEF SumFunction, SumFunctionOnSet, FoldFunctionOnSet, MapThenFoldSet, Sums, First
<1>2. Subtotal(lines, price) =
         (CHOOSE g : Sums([p \in DOMAIN lines |-> price[p] * lines[p]], DOMAIN lines, g))
         [DOMAIN lines]
  BY Zenon DEF Subtotal, MapThenSumSet, MapThenFoldSet, Sums, First
<1> QED
  BY <1>1, <1>2

\* Whatever is ordered, in whatever quantities and at whatever prices, the
\* subtotal is a number of cents that is not negative (_subtotal of
\* pricing.py): what StrategiesOrdered assumes of it.
THEOREM SubtotalIsNatural ==
    ASSUME NEW lines, IsFiniteSet(DOMAIN lines), NEW price,
           \A p \in DOMAIN lines : price[p] \in Nat /\ lines[p] \in Nat
    PROVE  Subtotal(lines, price) \in Nat
<1> DEFINE amount == [p \in DOMAIN lines |-> price[p] * lines[p]]
<1>1. \A p \in DOMAIN amount : amount[p] \in Nat
  OBVIOUS
<1>2. IsFiniteSet(DOMAIN amount)
  OBVIOUS
<1> HIDE DEF amount
<1>3. SumFunction(amount) \in Nat
  BY <1>1, <1>2, SumOfNaturals
<1> QED
  BY <1>3, SubtotalIsSum DEF amount

-----------------------------------------------------------------------------
(* The strategies.                                                         *)

\* A part of at most 100 percent of a subtotal is between nothing and all of it.
LEMMA PartOfSubtotal ==
    ASSUME NEW subtotal \in Nat, NEW rate \in 0..100
    PROVE  subtotal * rate \in Nat /\ subtotal * rate <= 100 * subtotal
<1>1. subtotal * rate \in Nat
    OBVIOUS
<1>2. subtotal * (100 - rate) >= 0
    OBVIOUS
<1>3. subtotal * (100 - rate) = 100 * subtotal - subtotal * rate
    OBVIOUS
<1> QED
    BY <1>1, <1>2, <1>3

\* With the rates their constructors accept, the strategies are ordered:
\* a discount takes no more than the whole price, and tax adds to it.
THEOREM StrategiesOrdered ==
    ASSUME NEW subtotal \in Nat, NEW threshold \in Nat,
           NEW tax \in Int, NEW discount \in Int,
           ValidTax(tax), ValidDiscount(threshold, discount)
    PROVE  /\ 0 <= Discounted(subtotal, threshold, discount)
           /\ Discounted(subtotal, threshold, discount) <= Standard(subtotal)
           /\ Standard(subtotal) <= Taxed(subtotal, tax)
<1>1. tax \in Nat /\ discount \in 0..100
    BY DEF ValidTax, ValidDiscount
<1>2. subtotal * discount \in Nat /\ subtotal * discount <= 100 * subtotal
    BY <1>1, PartOfSubtotal
<1>3. subtotal * tax \in Nat
    BY <1>1
<1>4. 0 <= Discounted(subtotal, threshold, discount)
        /\ Discounted(subtotal, threshold, discount) <= Standard(subtotal)
    BY <1>2, <1>1 DEF Discounted, Standard
<1>5. Standard(subtotal) <= Taxed(subtotal, tax)
    BY <1>3, <1>1 DEF Standard, Taxed
<1> QED
    BY <1>4, <1>5

\* The default rate of 10 percent is taken of the whole subtotal, not of what
\* exceeds the threshold, so the total is not monotonic: an order of a cent
\* more than the threshold costs less than one that just reaches it.
THEOREM DiscountIsNotMonotonic ==
    ASSUME NEW threshold \in Nat, threshold > 9
    PROVE  Discounted(threshold + 1, threshold, 10) < Discounted(threshold, threshold, 10)
BY DEF Discounted, Standard
=============================================================================
