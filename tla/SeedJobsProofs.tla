---------------------------- MODULE SeedJobsProofs ---------------------------
(* Proofs about the seed jobs for every seed_data.json, every number of    *)
(* jobs, pods and crashes, and whatever the clients do meanwhile.          *)
EXTENDS SeedJobs, FiniteSetTheorems, TLAPS

-----------------------------------------------------------------------------
(* The lists of seed_data.json, and what is missing of them.               *)

\* There are as many names as positions, and each has its own.
LEMMA SpecFacts ==
    /\ Len(ProductSpecs) \in Nat /\ Len(OrderSpecs) \in Nat
    /\ DOMAIN OrderSpecs = 1..Len(OrderSpecs)
    /\ \A k \in DOMAIN OrderSpecs : OrderSpecs[k] \subseteq Specs /\ OrderSpecs[k] # {}
    /\ IsFiniteSet(Specs) /\ Cardinality(Specs) = Len(ProductSpecs)
    /\ \A n \in Specs : Position(n) \in 1..Len(ProductSpecs)
    /\ \A n, m \in Specs : Position(n) = Position(m) => n = m
<1>1. /\ ProductSpecs \in Seq(Specs)
      /\ \A a, b \in DOMAIN ProductSpecs : ProductSpecs[a] = ProductSpecs[b] => a = b
  BY SpecsAssumption DEF IsInjective
<1>2. /\ Len(ProductSpecs) \in Nat /\ DOMAIN ProductSpecs = 1..Len(ProductSpecs)
      /\ ProductSpecs \in [1..Len(ProductSpecs) -> Specs]
  BY <1>1
<1>3. \A n \in Specs : \E k \in DOMAIN ProductSpecs : ProductSpecs[k] = n
  BY DEF Specs, Range
<1>4. \A n \in Specs : Position(n) \in DOMAIN ProductSpecs /\ ProductSpecs[Position(n)] = n
  BY <1>3 DEF Position
<1>5. IsFiniteSet(Specs) /\ Cardinality(Specs) = Len(ProductSpecs)
  <2>1. IsFiniteSet(1..Len(ProductSpecs))
        /\ Cardinality(1..Len(ProductSpecs)) = Len(ProductSpecs)
    <3> DEFINE n == Len(ProductSpecs)
    <3>1. n \in Nat
      BY <1>2
    <3> HIDE DEF n
    <3>2. IsFiniteSet(1..n) /\ Cardinality(1..n) = IF 1 > n THEN 0 ELSE n - 1 + 1
      BY ONLY <3>1, FS_Interval
    <3>3. Cardinality(1..n) = n
      BY ONLY <3>1, <3>2
    <3> QED
      BY <3>2, <3>3 DEF n
  <2>2. ProductSpecs \in Surjection(1..Len(ProductSpecs), Specs)
    BY <1>2, <1>3 DEF Surjection
  <2>3. ProductSpecs \in Injection(1..Len(ProductSpecs), Specs)
    BY <1>1, <1>2 DEF Injection, IsInjective
  <2> QED
    BY <2>1, <2>2, <2>3, FS_Surjection
<1>6. /\ Len(OrderSpecs) \in Nat /\ DOMAIN OrderSpecs = 1..Len(OrderSpecs)
      /\ \A k \in DOMAIN OrderSpecs : OrderSpecs[k] \subseteq Specs
  <2>1. OrderSpecs \in Seq(SUBSET Specs)
    BY SpecsAssumption
  <2>2. Len(OrderSpecs) \in Nat /\ DOMAIN OrderSpecs = 1..Len(OrderSpecs)
    BY <2>1
  <2>3. \A k \in DOMAIN OrderSpecs : OrderSpecs[k] \in SUBSET Specs
    BY <2>1, <2>2
  <2> QED
    BY <2>2, <2>3
<1> QED
  BY <1>2, <1>4, <1>5, <1>6, SpecsAssumption

\* Ranks count the names through, so the ids of new products are distinct.
LEMMA RankFacts ==
    ASSUME NEW names \in SUBSET Specs
    PROVE  /\ IsFiniteSet(names) /\ Cardinality(names) \in Nat
           /\ \A n \in names : Rank(n, names) \in 1..Cardinality(names)
           /\ \A n, m \in names : Rank(n, names) = Rank(m, names) => n = m
<1>1. IsFiniteSet(names) /\ Cardinality(names) \in Nat
  BY SpecFacts, FS_Subset, FS_CardinalityType
<1> DEFINE below(n) == {m \in names : Position(m) <= Position(n)}
<1>2. \A n \in names : below(n) \in SUBSET names /\ n \in below(n)
  BY SpecFacts
<1>3. \A n \in names : /\ IsFiniteSet(below(n)) /\ Cardinality(below(n)) \in Nat
                       /\ Cardinality(below(n)) <= Cardinality(names)
                       /\ Cardinality(below(n)) # 0
  <2> SUFFICES ASSUME NEW n \in names
               PROVE  /\ IsFiniteSet(below(n)) /\ Cardinality(below(n)) \in Nat
                      /\ Cardinality(below(n)) <= Cardinality(names)
                      /\ Cardinality(below(n)) # 0
    OBVIOUS
  <2> HIDE DEF below
  <2>1. IsFiniteSet(below(n)) /\ Cardinality(below(n)) <= Cardinality(names)
    BY <1>1, <1>2, FS_Subset
  <2> QED
    BY <1>2, <2>1, FS_CardinalityType, FS_EmptySet
<1>4. ASSUME NEW n \in names, NEW m \in names, n # m,
             Cardinality(below(n)) = Cardinality(below(m))
      PROVE  FALSE
  <2>1. Position(n) \in Nat /\ Position(m) \in Nat /\ Position(n) # Position(m)
    BY <1>4, SpecFacts
  <2>2. ASSUME NEW a \in names, NEW b \in names, Position(a) < Position(b),
               Cardinality(below(a)) = Cardinality(below(b)),
               Position(a) \in Nat, Position(b) \in Nat
        PROVE  FALSE
    <3>1. \A c \in names : Position(c) \in Nat
      BY SpecFacts
    <3>2. below(a) \in SUBSET below(b) /\ b \in below(b) /\ b \notin below(a)
      BY <2>2, <3>1
    <3> HIDE DEF below
    <3>3. below(b) = below(a)
      BY <1>3, <2>2, <3>2, FS_Subset
    <3> QED
      BY <3>2, <3>3
  <2>3. Position(n) < Position(m) \/ Position(m) < Position(n)
    BY <2>1
  <2> HIDE DEF below
  <2> QED
    BY <1>4, <2>1, <2>2, <2>3
<1>5. \A n \in names : Rank(n, names) = Cardinality(below(n))
  BY DEF Rank
<1> HIDE DEF below
<1> QED
  BY <1>1, <1>3, <1>4, <1>5

\* What is added is missing; and if nobody else has added anything, everything
\* that is missing is.
LEMMA ToAddFacts ==
    ASSUME NEW existing
    PROVE  /\ ToAdd(existing) \subseteq Specs
           /\ ToAdd(existing) \cap existing = {}
           /\ existing \subseteq Specs => ToAdd(existing) = Specs \ existing
<1> DEFINE missing == Specs \ existing
<1>1. ASSUME existing \subseteq Specs, NEW n \in missing
      PROVE  Rank(n, missing) <= Len(ProductSpecs) - Cardinality(existing)
  <2>1. IsFiniteSet(existing) /\ Specs \cap existing = existing
    BY <1>1, SpecFacts, FS_Subset
  <2>2. Cardinality(missing) = Len(ProductSpecs) - Cardinality(existing)
    BY <2>1, SpecFacts, FS_Difference
  <2>3. Cardinality(missing) \in Nat /\ Rank(n, missing) \in 1..Cardinality(missing)
    BY <1>1, RankFacts
  <2> QED
    BY <2>2, <2>3
<1> QED
  BY <1>1 DEF ToAdd

\* The larger of a number and zero.
LEMMA MaxFacts ==
    ASSUME NEW a \in Int
    PROVE  Max({a, 0}) = IF a > 0 THEN a ELSE 0
<1>1. \E x \in {a, 0} : \A y \in {a, 0} : x >= y
  OBVIOUS
<1>2. /\ Max({a, 0}) \in {a, 0}
      /\ \A y \in {a, 0} : Max({a, 0}) >= y
  BY <1>1 DEF Max
<1> QED
  BY <1>2

-----------------------------------------------------------------------------
(* Types.                                                                  *)

PodSteps == Ended \cup {"starting", "adding", "mapping", "counting", "seeding"}

TablesOK ==
    /\ migrated \in BOOLEAN
    /\ DOMAIN products \subseteq Names /\ lastId \in Nat
    /\ IsInjective(products) /\ Range(products) \subseteq 1..lastId
    /\ lines \subseteq Range(products)
    /\ orders \in Nat /\ seeded \in [DOMAIN OrderSpecs -> Nat]
    /\ acts \in 0..MaxActs /\ bought \in 0..acts

\* A pod that is not in the loop of seed_orders has none of its variables.
PodOK(j) ==
    /\ jpc[j] \in PodSteps
    /\ failures[j] \in 0..BackoffLimit + 1
    /\ jpc[j] # "failed" => failures[j] <= BackoffLimit
    /\ target[j] \in 0..Len(OrderSpecs) /\ created[j] \in 0..target[j]
    /\ pos[j] \in created[j] + 1..Len(OrderSpecs) + 1
    /\ jpc[j] # "seeding" => target[j] = 0 /\ created[j] = 0 /\ pos[j] = 1
    /\ jpc[j] = "adding" => seen[j] \subseteq Specs

PodsOK ==
    /\ \A f \in {jpc, failures, seen, target, created, pos} : DOMAIN f = Jobs
    /\ \A j \in Jobs : PodOK(j)

TypeInv == TablesOK /\ PodsOK

\* What a step of one pod leaves alone of the others.
OnlyPod(j) ==
    /\ \A f \in {jpc', failures', seen', target', created', pos'} : DOMAIN f = Jobs
    /\ \A i \in Jobs \ {j} :
          /\ jpc'[i] = jpc[i] /\ failures'[i] = failures[i] /\ seen'[i] = seen[i]
          /\ target'[i] = target[i] /\ created'[i] = created[i] /\ pos'[i] = pos[i]

\* A step of one pod that keeps its own types keeps those of all.
LEMMA OnePodPods ==
    ASSUME PodsOK, NEW j \in Jobs, OnlyPod(j), PodOK(j)'
    PROVE  PodsOK'
<1>1. ASSUME NEW i \in Jobs \ {j}
      PROVE  PodOK(i)'
  <2>1. /\ jpc'[i] = jpc[i] /\ failures'[i] = failures[i] /\ seen'[i] = seen[i]
        /\ target'[i] = target[i] /\ created'[i] = created[i] /\ pos'[i] = pos[i]
        /\ PodOK(i)
    BY DEF OnlyPod, PodsOK
  <2> QED
    BY ONLY <2>1 DEF PodOK
<1> QED
  BY <1>1 DEF OnlyPod, PodsOK

\* A pod that fails is replaced by one that knows nothing.
LEMMA PodFailsPods ==
    ASSUME PodsOK, NEW j \in Jobs, jpc[j] \notin Ended, PodFails(j)
    PROVE  /\ OnlyPod(j) /\ PodsOK'
           /\ jpc'[j] \in {"starting", "failed"}
           /\ UNCHANGED <<migrated, tables, acts>>
<1>1. OnlyPod(j) /\ UNCHANGED <<migrated, tables, acts>>
  BY DEF PodFails, Gone, PodsOK, OnlyPod
<1>2. /\ failures'[j] = failures[j] + 1
      /\ jpc'[j] = IF failures[j] < BackoffLimit THEN "starting" ELSE "failed"
      /\ target'[j] = 0 /\ created'[j] = 0 /\ pos'[j] = 1
  BY DEF PodFails, Gone, PodsOK
<1>3. failures[j] \in 0..BackoffLimit /\ BackoffLimit \in Nat
  BY SeedBoundsAssumption DEF PodsOK, PodOK, Ended
<1>4. PodOK(j)'
  <2>1. failures'[j] \in 0..BackoffLimit + 1
        /\ (failures[j] < BackoffLimit => failures'[j] <= BackoffLimit)
    BY <1>2, <1>3
  <2>2. 0 \in 0..Len(OrderSpecs) /\ 1 \in 0 + 1..Len(OrderSpecs) + 1 /\ 0 \in 0..0
    BY SpecFacts
  <2>3. jpc'[j] \in {"starting", "failed"}
        /\ (jpc'[j] # "failed" => failures'[j] <= BackoffLimit)
    BY <1>2, <2>1
  <2>4. failures'[j] \in 0..BackoffLimit + 1
    BY <2>1
  <2>5. /\ target'[j] = 0 /\ created'[j] = 0 /\ pos'[j] = 1
    BY <1>2
  <2>6. /\ target'[j] \in 0..Len(OrderSpecs) /\ created'[j] \in 0..target'[j]
        /\ pos'[j] \in created'[j] + 1..Len(OrderSpecs) + 1
    BY ONLY <2>2, <2>5
  <2>7. jpc'[j] \in PodSteps /\ jpc'[j] # "adding"
    BY ONLY <2>3 DEF PodSteps, Ended
  <2>8. jpc'[j] # "failed" => failures'[j] <= BackoffLimit
    BY <2>3
  <2> QED
    BY ONLY <2>4, <2>5, <2>6, <2>7, <2>8 DEF PodOK
<1>5. jpc'[j] \in {"starting", "failed"}
  BY <1>2
<1> QED
  BY <1>1, <1>4, <1>5, OnePodPods

\* What a step of a pod does to the pods.
LEMMA PodStepPods ==
    ASSUME PodsOK, orders \in Nat, NEW j \in Jobs, Apply(j) \/ PodStep(j) \/ Crash(j)
    PROVE  OnlyPod(j) /\ PodsOK'
<1>0. PodOK(j) /\ \A f \in {jpc, failures, seen, target, created, pos} : DOMAIN f = Jobs
  BY DEF PodsOK
<1>1. CASE Apply(j)
  <2>1. OnlyPod(j) /\ jpc[j] = "new" /\ jpc'[j] = "starting"
        /\ UNCHANGED <<failures, seen, target, created, pos>>
    BY <1>0, <1>1 DEF Apply, Step, OnlyPod
  <2>2. PodOK(j)'
    BY <1>0, <2>1 DEF PodOK, PodSteps, Ended
  <2> QED
    BY <2>1, <2>2, OnePodPods
<1>2. CASE ReadNames(j)
  <2>1. CASE PodFails(j)
    BY <1>2, <2>1, PodFailsPods DEF ReadNames, Ended
  <2>2. CASE jpc' = [jpc EXCEPT ![j] = "adding"]
    <3>1. OnlyPod(j) /\ jpc[j] = "starting" /\ jpc'[j] = "adding"
          /\ seen'[j] = ToAdd(DOMAIN products)
          /\ UNCHANGED <<failures, target, created, pos>>
      BY <1>0, <1>2, <2>2 DEF ReadNames, OnlyPod, PodFails
    <3>2. PodOK(j)'
      BY <1>0, <3>1, ToAddFacts DEF PodOK, PodSteps, Ended
    <3> QED
      BY <3>1, <3>2, OnePodPods
  <2> QED
    BY <1>2, <2>1, <2>2 DEF ReadNames
<1>3. CASE CommitProducts(j)
  <2>1. CASE PodFails(j)
    BY <1>3, <2>1, PodFailsPods DEF CommitProducts, Ended
  <2>2. CASE /\ jpc' = [jpc EXCEPT ![j] = "mapping"] /\ seen' = [seen EXCEPT ![j] = Empty]
             /\ UNCHANGED <<failures, target, created, pos>>
    <3>1. OnlyPod(j) /\ jpc[j] = "adding" /\ jpc'[j] = "mapping"
      BY <1>0, <1>3, <2>2 DEF CommitProducts, OnlyPod
    <3>2. PodOK(j)'
      BY <1>0, <2>2, <3>1 DEF PodOK, PodSteps, Ended
    <3> QED
      BY <3>1, <3>2, OnePodPods
  <2> QED
    BY <1>3, <2>1, <2>2 DEF CommitProducts
<1>4. CASE MapProducts(j)
  <2>1. OnlyPod(j) /\ jpc[j] = "mapping" /\ jpc'[j] \in {"counting", "done"}
        /\ UNCHANGED <<failures, target, created, pos>>
    BY <1>0, <1>4 DEF MapProducts, Step, OnlyPod
  <2>2. PodOK(j)'
    BY <1>0, <2>1 DEF PodOK, PodSteps, Ended
  <2> QED
    BY <2>1, <2>2, OnePodPods
<1>5. CASE CountOrders(j)
  <2>1. OnlyPod(j) /\ jpc[j] = "counting" /\ jpc'[j] = "seeding"
        /\ target'[j] = Max({Len(OrderSpecs) - orders, 0})
        /\ UNCHANGED <<failures, seen, created, pos>>
    BY <1>0, <1>5 DEF CountOrders, Step, OnlyPod
  <2>2. target'[j] \in 0..Len(OrderSpecs)
    <3>1. Len(OrderSpecs) \in Nat /\ Len(OrderSpecs) - orders \in Int
      BY SpecFacts
    <3> QED
      BY <2>1, <3>1, MaxFacts
  <2>3. PodOK(j)'
    BY <1>0, <2>1, <2>2, SpecFacts DEF PodOK, PodSteps, Ended
  <2> QED
    BY <2>1, <2>3, OnePodPods
<1>6. CASE SkipOrder(j)
  <2>1. /\ OnlyPod(j) /\ jpc[j] = "seeding" /\ created[j] < target[j]
        /\ pos[j] <= Len(OrderSpecs) /\ pos'[j] = pos[j] + 1
        /\ UNCHANGED <<jpc, failures, seen, target, created>>
    BY <1>0, <1>6 DEF SkipOrder, More, OnlyPod
  <2>2. PodOK(j)'
    BY <1>0, <2>1, SpecFacts DEF PodOK, PodSteps, Ended
  <2> QED
    BY <2>1, <2>2, OnePodPods
<1>7. CASE SeedOrder(j)
  <2>1. CASE PodFails(j)
    BY <1>7, <2>1, PodFailsPods DEF SeedOrder, More, Ended
  <2>2. CASE /\ created' = [created EXCEPT ![j] = @ + 1] /\ pos' = [pos EXCEPT ![j] = @ + 1]
             /\ UNCHANGED <<jpc, failures, seen, target>>
    <3>1. /\ OnlyPod(j) /\ jpc[j] = "seeding" /\ created[j] < target[j]
          /\ pos[j] <= Len(OrderSpecs)
          /\ pos'[j] = pos[j] + 1 /\ created'[j] = created[j] + 1
      BY <1>0, <1>7, <2>2 DEF SeedOrder, More, OnlyPod
    <3>2. PodOK(j)'
      BY <1>0, <2>2, <3>1, SpecFacts DEF PodOK, PodSteps, Ended
    <3> QED
      BY <3>1, <3>2, OnePodPods
  <2> QED
    BY <1>7, <2>1, <2>2 DEF SeedOrder
<1>8. CASE Complete(j)
  <2>1. /\ OnlyPod(j) /\ jpc[j] = "seeding" /\ jpc'[j] = "done"
        /\ target'[j] = 0 /\ created'[j] = 0 /\ pos'[j] = 1 /\ UNCHANGED failures
    BY <1>0, <1>8 DEF Complete, Step, Gone, OnlyPod
  <2>2. PodOK(j)'
    BY <1>0, <2>1, SpecFacts DEF PodOK, PodSteps, Ended
  <2> QED
    BY <2>1, <2>2, OnePodPods
<1>9. CASE Crash(j)
  BY <1>9, PodFailsPods DEF Crash
<1> QED
  BY <1>1, <1>2, <1>3, <1>4, <1>5, <1>6, <1>7, <1>8, <1>9 DEF PodStep

\* The tables hold to their keys, and to ids that have been given.
Keyed == /\ DOMAIN products \subseteq Names /\ lastId \in Nat
         /\ IsInjective(products) /\ Range(products) \subseteq 1..lastId
         /\ lines \subseteq Range(products)

\* Products that get ids above the last, each its own, keep the keys.
LEMMA NewProducts ==
    ASSUME Keyed, NEW new \in SUBSET Names, new \cap DOMAIN products = {},
           NEW count \in Nat, NEW rank,
           \A n \in new : rank[n] \in 1..count,
           \A n, m \in new : rank[n] = rank[m] => n = m,
           products' = [n \in DOMAIN products \cup new |->
                            IF n \in new THEN lastId + rank[n] ELSE products[n]],
           lastId' = lastId + count, lines' = lines
    PROVE  Keyed' /\ Range(products) \subseteq Range(products')
<1>1. DOMAIN products' = DOMAIN products \cup new /\ lastId' \in Nat
  BY DEF Keyed
<1>2. \A n \in DOMAIN products :
          products'[n] = products[n] /\ products[n] \in 1..lastId
  BY <1>1 DEF Keyed, Range
<1>3. \A n \in new : products'[n] = lastId + rank[n]
  BY <1>1
<1>4. \A n \in new : rank[n] \in Nat /\ rank[n] >= 1 /\ rank[n] <= count /\ lastId \in Nat
  BY DEF Keyed
<1>5. \A n \in new : products'[n] \in lastId + 1..lastId'
  BY <1>3, <1>4
<1>6. Range(products) \subseteq Range(products')
  BY <1>1, <1>2 DEF Range
<1>7. Range(products') \subseteq 1..lastId'
  <2>1. \A n \in DOMAIN products : products'[n] \in 1..lastId'
    BY <1>2 DEF Keyed
  <2>2. \A n \in new : products'[n] \in 1..lastId'
    BY <1>5 DEF Keyed
  <2> QED
    BY <1>1, <2>1, <2>2 DEF Range
<1>8. ASSUME NEW a \in DOMAIN products', NEW b \in DOMAIN products',
             products'[a] = products'[b]
      PROVE  a = b
  <2>1. CASE a \in new /\ b \in new
    BY <1>3, <1>4, <1>8, <2>1
  <2>2. CASE a \in DOMAIN products /\ b \in DOMAIN products
    BY <1>2, <1>8, <2>2 DEF Keyed, IsInjective
  <2>3. CASE a \in new /\ b \in DOMAIN products
    BY <1>2, <1>5, <1>8, <2>3 DEF Keyed
  <2>4. CASE a \in DOMAIN products /\ b \in new
    BY <1>2, <1>5, <1>8, <2>4 DEF Keyed
  <2> QED
    BY <1>1, <2>1, <2>2, <2>3, <2>4
<1>9. IsInjective(products')
  BY <1>8 DEF IsInjective
<1> QED
  BY <1>1, <1>6, <1>7, <1>9 DEF Keyed

\* Every step keeps the types of the tables.
LEMMA TablesTyped == TypeInv /\ [Next]_vars => TablesOK'
<1> SUFFICES ASSUME TypeInv, [Next]_vars
             PROVE  TablesOK'
  OBVIOUS
<1>0. TablesOK /\ Keyed
  BY DEF TypeInv, TablesOK, Keyed
<1>1. CASE UNCHANGED <<migrated, tables, acts>> \/ Migrate
  <2>1. UNCHANGED <<tables, acts>> /\ migrated' \in BOOLEAN
    BY <1>0, <1>1 DEF Migrate, TablesOK
  <2>2. UNCHANGED <<products, lastId, orders, seeded, bought, lines, acts>>
    BY <2>1 DEF tables
  <2> QED
    BY <1>0, <2>1, <2>2 DEF TablesOK
<1>2. ASSUME NEW j \in Jobs, CommitProducts(j), ~ PodFails(j)
      PROVE  TablesOK'
  <2> DEFINE new == seen[j]
             rank == [n \in new |-> Rank(n, new)]
  <2>1. /\ new \cap DOMAIN products = {}
        /\ products' = [n \in DOMAIN products \cup new |->
                            IF n \in new THEN lastId + Rank(n, new) ELSE products[n]]
        /\ lastId' = lastId + Cardinality(new)
        /\ UNCHANGED <<migrated, orders, seeded, bought, lines, acts>>
    BY <1>2 DEF CommitProducts
  <2>2. new \in SUBSET Specs /\ new \in SUBSET Names
    BY <1>2 DEF CommitProducts, TypeInv, PodsOK, PodOK, Names
  <2>3. /\ Cardinality(new) \in Nat
        /\ \A n \in new : rank[n] \in 1..Cardinality(new)
        /\ \A n, m \in new : rank[n] = rank[m] => n = m
    BY <2>2, RankFacts
  <2>4. products' = [n \in DOMAIN products \cup new |->
                         IF n \in new THEN lastId + rank[n] ELSE products[n]]
    BY <2>1
  <2> HIDE DEF new, rank
  <2>5. Keyed'
    BY <1>0, <2>1, <2>2, <2>3, <2>4, NewProducts
  <2> QED
    BY <1>0, <2>1, <2>5 DEF TablesOK, Keyed
<1>3. ASSUME NEW j \in Jobs, SeedOrder(j), ~ PodFails(j)
      PROVE  TablesOK'
  <2>1. pos[j] \in DOMAIN OrderSpecs
    BY <1>3, SpecFacts DEF SeedOrder, More, TypeInv, PodsOK, PodOK
  <2>2. /\ lines' \subseteq Range(products)
        /\ orders' = orders + 1 /\ seeded' = [seeded EXCEPT ![pos[j]] = @ + 1]
        /\ UNCHANGED <<migrated, products, lastId, bought, acts>>
    BY <1>0, <1>3 DEF SeedOrder, Keyed
  <2>3. seeded' \in [DOMAIN OrderSpecs -> Nat]
    BY <1>0, <2>1, <2>2 DEF TablesOK
  <2> QED
    BY <1>0, <2>2, <2>3 DEF TablesOK
<1>4. ASSUME NEW name \in Names, AddProduct(name) \/ DeleteProduct(name) \/ PlaceOrder(name)
      PROVE  TablesOK'
  <2>1. /\ acts < MaxActs /\ acts' = acts + 1 /\ UNCHANGED <<migrated, seeded>>
        /\ UNCHANGED <<orders, bought>> \/ (orders' = orders + 1 /\ bought' = bought + 1)
    BY <1>4 DEF AddProduct, DeleteProduct, PlaceOrder, Act
  <2>2. /\ acts' \in 0..MaxActs /\ bought' \in 0..acts' /\ orders' \in Nat
        /\ migrated' \in BOOLEAN /\ seeded' \in [DOMAIN OrderSpecs -> Nat]
    BY <1>0, <2>1, SeedBoundsAssumption DEF TablesOK
  <2>3. CASE AddProduct(name)
    <3> DEFINE rank == [n \in {name} |-> 1]
    <3>1. /\ {name} \in SUBSET Names /\ {name} \cap DOMAIN products = {}
          /\ lastId' = lastId + 1 /\ lines' = lines
          /\ products' = [n \in DOMAIN products \cup {name} |->
                              IF n \in {name} THEN lastId + rank[n] ELSE products[n]]
      BY <2>3 DEF AddProduct
    <3>2. /\ \A n \in {name} : rank[n] \in 1..1
          /\ \A n, m \in {name} : rank[n] = rank[m] => n = m
      OBVIOUS
    <3> HIDE DEF rank
    <3>3. Keyed'
      BY <1>0, <3>1, <3>2, NewProducts
    <3> QED
      BY <2>2, <3>3 DEF TablesOK, Keyed
  <2>4. CASE DeleteProduct(name)
    <3>1. /\ products' = [n \in DOMAIN products \ {name} |-> products[n]]
          /\ products[name] \notin lines /\ UNCHANGED <<lastId, lines>>
      BY <2>4 DEF DeleteProduct, Restrict
    <3>2. /\ DOMAIN products' = DOMAIN products \ {name}
          /\ \A n \in DOMAIN products' : products'[n] = products[n]
      BY <3>1
    <3>3. Range(products') \subseteq Range(products) /\ IsInjective(products')
      BY <1>0, <3>2 DEF Keyed, IsInjective, Range
    <3>4. lines' \subseteq Range(products')
      BY <1>0, <3>1, <3>2 DEF Keyed, Range
    <3> QED
      BY <1>0, <2>2, <3>1, <3>2, <3>3, <3>4 DEF TablesOK, Keyed
  <2>5. CASE PlaceOrder(name)
    <3>1. lines' \subseteq Range(products) /\ UNCHANGED <<products, lastId>>
      BY <1>0, <2>5 DEF PlaceOrder, Keyed, Range
    <3> QED
      BY <1>0, <2>2, <3>1 DEF TablesOK, Keyed
  <2> QED
    BY <1>4, <2>3, <2>4, <2>5
<1>5. ASSUME NEW j \in Jobs, Apply(j) \/ PodStep(j) \/ Crash(j), ~ CommitProducts(j),
             ~ SeedOrder(j)
      PROVE  UNCHANGED <<migrated, tables, acts>>
  BY <1>5 DEF Apply, PodStep, ReadNames, MapProducts, CountOrders, SkipOrder, Complete, Crash,
              PodFails
<1>6. ASSUME NEW j \in Jobs, PodFails(j)
      PROVE  UNCHANGED <<migrated, tables, acts>>
  BY <1>6 DEF PodFails
<1>7. CASE UNCHANGED vars
  BY <1>1, <1>7 DEF vars
<1> QED
  BY <1>1, <1>2, <1>3, <1>4, <1>5, <1>6, <1>7 DEF Next

\* Every step keeps all types.
LEMMA SeedTypeStep == TypeInv /\ [Next]_vars => TypeInv'
<1> SUFFICES ASSUME TypeInv, [Next]_vars
             PROVE  PodsOK'
  BY TablesTyped DEF TypeInv
<1>1. orders \in Nat
  BY DEF TypeInv, TablesOK
<1>2. CASE UNCHANGED pods
  BY <1>2 DEF pods, TypeInv, PodsOK, PodOK
<1>3. ASSUME NEW j \in Jobs, Apply(j) \/ PodStep(j) \/ Crash(j)
      PROVE  PodsOK'
  BY <1>1, <1>3, PodStepPods DEF TypeInv
<1>4. ASSUME NEW n \in Names, AddProduct(n) \/ DeleteProduct(n) \/ PlaceOrder(n)
      PROVE  UNCHANGED pods
  BY <1>4 DEF AddProduct, DeleteProduct, PlaceOrder, Act
<1>5. Migrate \/ UNCHANGED vars => UNCHANGED pods
  BY DEF Migrate, vars
<1> QED
  BY <1>2, <1>3, <1>4, <1>5 DEF Next

\* Nothing is there yet.
LEMMA SeedInit == Init => TypeInv
<1> SUFFICES ASSUME Init
             PROVE  TypeInv
  OBVIOUS
<1>1. DOMAIN Empty = {} /\ Range(Empty) = {} /\ IsInjective(Empty)
  BY DEF Empty, Range, IsInjective
<1>2. TablesOK
  <2>1. products = Empty /\ lastId = 0 /\ lines = {} /\ orders = 0 /\ bought = 0 /\ acts = 0
    BY DEF Init
  <2>2. DOMAIN products \subseteq Names /\ IsInjective(products)
        /\ Range(products) \subseteq 1..lastId /\ lines \subseteq Range(products)
    BY <1>1, <2>1
  <2>3. seeded \in [DOMAIN OrderSpecs -> Nat] /\ migrated \in BOOLEAN
    BY DEF Init
  <2>4. acts \in 0..MaxActs /\ bought \in 0..acts
    BY <2>1, SeedBoundsAssumption
  <2> QED
    BY <2>1, <2>2, <2>3, <2>4 DEF TablesOK
<1>3. PodsOK
  BY SpecFacts, SeedBoundsAssumption DEF Init, PodsOK, PodOK, PodSteps, Ended
<1> QED
  BY <1>2, <1>3 DEF TypeInv

\* So the types always hold.
LEMMA SeedTypes == Spec => []TypeInv
  BY SeedInit, SeedTypeStep, PTL DEF Spec

\* The tables keep their keys (a name has one id, an id one name, and every
\* line item a product), and the loop of seed_orders keeps its counts in range,
\* whatever fails and whoever writes in between.
THEOREM SeedTyped == Spec => []TypeOK
<1>1. TypeInv => TypeOK
  <2> SUFFICES ASSUME TypeInv
               PROVE  TypeOK
    OBVIOUS
  <2>1. bought \in 0..MaxActs
    BY SeedBoundsAssumption DEF TypeInv, TablesOK
  <2> QED
    BY <2>1 DEF TypeInv, TablesOK, PodsOK, PodOK, PodSteps, TypeOK
<1> QED
  BY <1>1, SeedTypes, PTL

-----------------------------------------------------------------------------
(* Why pods fail.                                                          *)

\* What a pod has read of the products is still so, if nobody disturbed it.
Undisturbed(j) ==
    quiet[j] =>
        /\ jpc[j] = "adding" => seen[j] = ToAdd(DOMAIN products)
        /\ jpc[j] \in {"counting", "seeding"} => seen[j] = products

QuietInv ==
    /\ TypeInv /\ faults \in Nat
    /\ quiet \in [Jobs -> BOOLEAN]
    /\ products = [n \in DOMAIN products |-> products[n]]
    /\ \A j \in Jobs : Undisturbed(j)

\* A step of one pod that leaves the products alone disturbs no other.
LEMMA OthersUndisturbed ==
    ASSUME QuietInv, NEW j \in Jobs, OnlyPod(j), products' = products,
           \A i \in Jobs \ {j} : quiet'[i] = quiet[i], Undisturbed(j)'
    PROVE  \A i \in Jobs : Undisturbed(i)'
<1>1. ASSUME NEW i \in Jobs \ {j}
      PROVE  Undisturbed(i)'
  <2>1. /\ jpc'[i] = jpc[i] /\ seen'[i] = seen[i] /\ quiet'[i] = quiet[i]
        /\ products' = products
    BY DEF OnlyPod
  <2> QED
    BY <2>1 DEF QuietInv, Undisturbed
<1> QED
  BY <1>1

\* Every step leaves the pods that are undisturbed with what they have read.
LEMMA QuietStep == QuietInv /\ [Next]_vars => QuietInv'
<1> SUFFICES ASSUME QuietInv, [Next]_vars
             PROVE  QuietInv'
  OBVIOUS
<1>0. /\ TypeInv /\ PodsOK /\ orders \in Nat /\ faults \in Nat
      /\ quiet \in [Jobs -> BOOLEAN]
      /\ products = [n \in DOMAIN products |-> products[n]]
  BY DEF QuietInv, TypeInv, TablesOK
<1>1. TypeInv'
  BY <1>0, SeedTypeStep
<1>2. CASE UNCHANGED <<products, jpc, seen, quiet, faults>>
  BY <1>1, <1>2 DEF QuietInv, Undisturbed
<1>3. ASSUME NEW n \in Names, AddProduct(n) \/ DeleteProduct(n)
      PROVE  QuietInv'
  <2>1. /\ quiet' = [i \in Jobs |-> quiet[i] /\ (i = "client" \/ jpc[i] \in Ended)]
        /\ UNCHANGED <<jpc, seen, faults>>
    BY <1>3 DEF AddProduct, DeleteProduct, Noticed, Act, pods
  <2>2. ASSUME NEW i \in Jobs
        PROVE  Undisturbed(i)'
    <3>1. quiet'[i] => jpc[i] \in Ended
      BY <2>1, SeedBoundsAssumption
    <3> QED
      BY <2>1, <3>1 DEF Undisturbed, Ended
  <2>3. products' = [m \in DOMAIN products' |-> products'[m]]
    BY <1>3 DEF AddProduct, DeleteProduct, Restrict
  <2>4. quiet' \in [Jobs -> BOOLEAN] /\ faults' \in Nat
    BY <1>0, <2>1
  <2> QED
    BY <1>1, <2>2, <2>3, <2>4 DEF QuietInv
<1>4. ASSUME NEW j \in Jobs, Apply(j) \/ PodStep(j) \/ Crash(j)
      PROVE  QuietInv'
  <2>0. OnlyPod(j)
    BY <1>0, <1>4, PodStepPods
  <2>1. faults' \in Nat
    <3>1. faults' = faults \/ faults' = faults + 1
      BY <1>4 DEF Apply, PodStep, ReadNames, CommitProducts, MapProducts, CountOrders,
                  SkipOrder, SeedOrder, Complete, Crash
    <3> QED
      BY <1>0, <3>1
  <2>2. CASE CommitProducts(j) /\ ~ PodFails(j)
    <3> DEFINE new == seen[j]
    <3>1. /\ jpc'[j] = "mapping"
          /\ products' = [n \in DOMAIN products \cup new |->
                              IF n \in new THEN lastId + Rank(n, new) ELSE products[n]]
          /\ IF new = {} THEN UNCHANGED quiet ELSE Noticed(j)
      BY <1>0, <2>2 DEF CommitProducts, PodsOK
    <3>2. Undisturbed(j)'
      BY <3>1 DEF Undisturbed
    <3>3. products' = [m \in DOMAIN products' |-> products'[m]]
      BY <3>1
    <3>4. CASE new = {}
      <4>1. products' = products /\ quiet' = quiet
        BY <1>0, <3>1, <3>4
      <4> QED
        BY <1>0, <1>1, <2>0, <2>1, <3>2, <4>1, OthersUndisturbed DEF QuietInv
    <3>5. CASE new # {}
      <4>1. quiet' = [i \in Jobs |-> quiet[i] /\ (i = j \/ jpc[i] \in Ended)]
        BY <3>1, <3>5 DEF Noticed
      <4>2. ASSUME NEW i \in Jobs \ {j}
            PROVE  Undisturbed(i)'
        <5>1. quiet'[i] => jpc'[i] \in Ended
          BY <2>0, <4>1 DEF OnlyPod
        <5> QED
          BY <5>1 DEF Undisturbed, Ended
      <4>3. quiet' \in [Jobs -> BOOLEAN]
        BY <1>0, <4>1
      <4> QED
        BY <1>1, <2>1, <3>2, <3>3, <4>2, <4>3 DEF QuietInv
    <3> QED
      BY <3>4, <3>5
  <2>3. CASE ~ CommitProducts(j) \/ PodFails(j)
    <3>1. products' = products
      BY <1>4, <2>3 DEF Apply, PodStep, ReadNames, CommitProducts, MapProducts, CountOrders,
                        SkipOrder, SeedOrder, Complete, Crash, PodFails, tables
    <3>2. Undisturbed(j)' /\ quiet' \in [Jobs -> BOOLEAN]
          /\ \A i \in Jobs \ {j} : quiet'[i] = quiet[i]
      <4>1. CASE PodFails(j) /\ quiet' = quiet
        <5>1. jpc'[j] \in {"starting", "failed"}
          BY <1>0, <4>1 DEF PodFails, PodsOK
        <5> QED
          BY <1>0, <4>1, <5>1 DEF Undisturbed
      <4>2. CASE ReadNames(j) /\ quiet' = [quiet EXCEPT ![j] = TRUE]
                 /\ jpc' = [jpc EXCEPT ![j] = "adding"]
                 /\ seen' = [seen EXCEPT ![j] = ToAdd(DOMAIN products)]
        <5>1. jpc'[j] = "adding" /\ seen'[j] = ToAdd(DOMAIN products)
          BY <1>0, <4>2 DEF PodsOK
        <5>2. DOMAIN products' = DOMAIN products
          BY <3>1
        <5>3. Undisturbed(j)'
          BY <3>1, <5>1, <5>2 DEF Undisturbed
        <5> QED
          BY <1>0, <4>2, <5>3
      <4>3. CASE MapProducts(j)
        <5>1. seen'[j] = products /\ quiet' = quiet /\ jpc'[j] \in {"counting", "done"}
          BY <1>0, <4>3 DEF MapProducts, Step, PodsOK
        <5> QED
          BY <1>0, <3>1, <5>1 DEF Undisturbed
      <4>4. CASE CountOrders(j) \/ SkipOrder(j) \/ (SeedOrder(j) /\ ~ PodFails(j))
        <5>1. /\ quiet' = quiet /\ seen' = seen /\ jpc[j] \in {"counting", "seeding"}
              /\ jpc'[j] = "seeding"
          BY <1>0, <4>4 DEF CountOrders, SkipOrder, SeedOrder, More, Step, PodsOK
        <5> QED
          BY <1>0, <3>1, <5>1 DEF QuietInv, Undisturbed
      <4>5. CASE Apply(j) \/ Complete(j)
        <5>1. quiet' = quiet /\ jpc'[j] \in {"starting", "done"}
          BY <1>0, <4>5 DEF Apply, Complete, Step, PodsOK
        <5> QED
          BY <1>0, <5>1 DEF Undisturbed
      <4>6. ReadNames(j) => (PodFails(j) /\ quiet' = quiet)
                            \/ (/\ quiet' = [quiet EXCEPT ![j] = TRUE]
                                /\ jpc' = [jpc EXCEPT ![j] = "adding"]
                                /\ seen' = [seen EXCEPT ![j] = ToAdd(DOMAIN products)])
        BY DEF ReadNames
      <4>7. /\ CommitProducts(j) /\ PodFails(j) => quiet' = quiet
            /\ SeedOrder(j) \/ Crash(j) => quiet' = quiet
            /\ Crash(j) => PodFails(j)
        <5>1. CommitProducts(j) /\ PodFails(j) => quiet' = quiet
          <6> SUFFICES ASSUME CommitProducts(j), PodFails(j)
                       PROVE  quiet' = quiet
            OBVIOUS
          <6>1. jpc'[j] # "mapping"
            BY <1>0 DEF PodFails, PodsOK
          <6> QED
            BY <1>0, <6>1 DEF CommitProducts, PodsOK
        <5> QED
          BY <5>1 DEF SeedOrder, Crash
      <4> QED
        BY <1>4, <2>3, <4>1, <4>2, <4>3, <4>4, <4>5, <4>6, <4>7 DEF PodStep
    <3> QED
      BY <1>0, <1>1, <2>0, <2>1, <3>1, <3>2, OthersUndisturbed DEF QuietInv
  <2> QED
    BY <2>2, <2>3
<1>5. ASSUME NEW n \in Names, PlaceOrder(n)
      PROVE  UNCHANGED <<products, jpc, seen, quiet, faults>>
  BY <1>5 DEF PlaceOrder, Act, pods
<1>6. Migrate \/ UNCHANGED vars => UNCHANGED <<products, jpc, seen, quiet, faults>>
  BY DEF Migrate, vars, pods, tables
<1> QED
  BY <1>2, <1>3, <1>4, <1>5, <1>6 DEF Next

\* Nobody has read anything yet.
LEMMA QuietInit == Init => QuietInv
<1> SUFFICES ASSUME Init
             PROVE  QuietInv
  OBVIOUS
<1>1. TypeInv /\ faults = 0 /\ quiet = [j \in Jobs |-> TRUE] /\ products = Empty
      /\ jpc = [j \in Jobs |-> "new"]
  BY SeedInit DEF Init
<1>2. \A j \in Jobs : Undisturbed(j)
  BY <1>1 DEF Undisturbed
<1>3. products = [n \in DOMAIN products |-> products[n]]
  BY <1>1 DEF Empty
<1> QED
  BY <1>1, <1>2, <1>3 DEF QuietInv

\* A step that fails a pod has a reason.
LEMMA FailureStep ==
    QuietInv /\ [Next]_vars =>
        \A j \in Jobs : failures'[j] # failures[j] =>
            faults' # faults \/ ~ migrated \/ ~ quiet[j]
<1> SUFFICES ASSUME QuietInv, [Next]_vars, NEW i \in Jobs, failures'[i] # failures[i],
                    migrated, quiet[i]
             PROVE  faults' # faults
  OBVIOUS
<1>0. TypeInv /\ PodsOK /\ orders \in Nat /\ faults \in Nat
  BY DEF QuietInv, TypeInv, TablesOK
<1>1. PICK j \in Jobs : Apply(j) \/ PodStep(j) \/ Crash(j)
  BY DEF Next, Migrate, AddProduct, DeleteProduct, PlaceOrder, Act, pods, vars
<1>2. j = i
  BY <1>0, <1>1, PodStepPods DEF OnlyPod
<1>3. ~ ReadNames(i)
  BY DEF ReadNames
<1>4. ~ CommitProducts(i)
  <2> SUFFICES ASSUME CommitProducts(i)
               PROVE  FALSE
    OBVIOUS
  <2>1. seen[i] \cap DOMAIN products # {} /\ jpc[i] = "adding"
    BY DEF CommitProducts
  <2>2. seen[i] = ToAdd(DOMAIN products)
    BY <2>1 DEF QuietInv, Undisturbed
  <2> QED
    BY <2>1, <2>2, ToAddFacts
<1>5. ~ SeedOrder(i)
  <2> SUFFICES ASSUME SeedOrder(i)
               PROVE  FALSE
    OBVIOUS
  <2>1. /\ jpc[i] = "seeding" /\ OrderSpecs[pos[i]] \subseteq DOMAIN seen[i]
        /\ ~ {seen[i][n] : n \in OrderSpecs[pos[i]]} \subseteq Range(products)
    BY DEF SeedOrder, More
  <2>2. seen[i] = products
    BY <2>1 DEF QuietInv, Undisturbed
  <2> QED
    BY <2>1, <2>2 DEF Range
<1>6. Crash(i)
  BY <1>1, <1>2, <1>3, <1>4, <1>5
     DEF Apply, PodStep, MapProducts, CountOrders, SkipOrder, Complete
<1> QED
  BY <1>0, <1>6 DEF Crash

\* A pod only fails when it crashes, when the tables are not there yet, or
\* when a client or another job changes the products during its attempt: what
\* earlier attempts left, and what clients did before, never makes
\* seed_products or seed_orders fail.
THEOREM FailuresHaveCause == Spec => FailsForCause
<1>1. Spec => []QuietInv
  BY QuietInit, QuietStep, PTL DEF Spec
<1>2. QuietInv /\ [Next]_vars =>
          [\A j \in Jobs : failures'[j] # failures[j] =>
               faults' # faults \/ ~ migrated \/ ~ quiet[j]]_vars
  BY FailureStep
<1> QED
  BY <1>1, <1>2, PTL DEF Spec, FailsForCause

-----------------------------------------------------------------------------
(* How many orders the jobs make.                                          *)

AtWork(j) == jpc[j] \notin Ended

AloneInv ==
    /\ QuietInv /\ overlapped \in BOOLEAN
    /\ ~ overlapped => \A i, j \in Jobs : AtWork(i) /\ AtWork(j) => i = j

\* Where the clients and the migration leave the pods.
LEMMA ClientsLeavePods ==
    ASSUME NEW n, Migrate \/ AddProduct(n) \/ DeleteProduct(n) \/ PlaceOrder(n)
    PROVE  UNCHANGED <<jpc, failures, seen, target, created, pos, faults, overlapped>>
  BY DEF Migrate, AddProduct, DeleteProduct, PlaceOrder, Act, pods

\* Without an overlap only one job is at work.
LEMMA AloneStep == AloneInv /\ [Next]_vars => AloneInv'
<1> SUFFICES ASSUME AloneInv, [Next]_vars
             PROVE  AloneInv'
  OBVIOUS
<1>0. QuietInv /\ QuietInv' /\ PodsOK /\ orders \in Nat
  BY QuietStep DEF AloneInv, QuietInv, TypeInv, TablesOK
<1>1. CASE UNCHANGED <<jpc, overlapped>>
  BY <1>0, <1>1 DEF AloneInv, AtWork
<1>2. ASSUME NEW j \in Jobs, Apply(j)
      PROVE  AloneInv'
  <2>1. /\ OnlyPod(j)
        /\ overlapped' \in BOOLEAN
        /\ ~ overlapped' => \A i \in Jobs : ~ AtWork(i)
    BY <1>0, <1>2, PodStepPods DEF Apply, AtWork, AloneInv
  <2> QED
    BY <1>0, <2>1 DEF AloneInv, AtWork, OnlyPod
<1>3. ASSUME NEW j \in Jobs, PodStep(j) \/ Crash(j)
      PROVE  AloneInv'
  <2>1. OnlyPod(j)
    BY <1>0, <1>3, PodStepPods
  <2>2. overlapped' = overlapped /\ AtWork(j)
    BY <1>3 DEF PodStep, ReadNames, CommitProducts, MapProducts, CountOrders, SkipOrder,
                SeedOrder, More, Complete, Step, Crash, AtWork, Ended
  <2>3. \A i \in Jobs : AtWork(i)' => AtWork(i)
    BY <2>1, <2>2 DEF OnlyPod, AtWork
  <2> QED
    BY <1>0, <2>2, <2>3 DEF AloneInv
<1>4. Migrate \/ (\E n \in Names : AddProduct(n) \/ DeleteProduct(n) \/ PlaceOrder(n))
          => UNCHANGED <<jpc, overlapped>>
  BY ClientsLeavePods
<1>5. UNCHANGED vars => UNCHANGED <<jpc, overlapped>>
  BY DEF vars, pods
<1> QED
  BY <1>1, <1>2, <1>3, <1>4, <1>5 DEF Next

\* The orders of the jobs, with those the job at work has still to make.
CountInv ==
    /\ AloneInv
    /\ ~ overlapped =>
          /\ orders - bought <= Len(OrderSpecs)
          /\ \A j \in Jobs : jpc[j] = "seeding" =>
                orders - bought + target[j] - created[j] <= Len(OrderSpecs)

\* How the numbers change: a client's order is counted apart, and a job's order
\* is one it had still to make.
LEMMA CountStep == CountInv /\ [Next]_vars => CountInv'
<1> SUFFICES ASSUME CountInv, [Next]_vars, ~ overlapped'
             PROVE  /\ orders' - bought' <= Len(OrderSpecs)
                    /\ \A i \in Jobs : jpc'[i] = "seeding" =>
                          orders' - bought' + target'[i] - created'[i] <= Len(OrderSpecs)
  BY AloneStep DEF CountInv
<1>0. /\ PodsOK /\ orders \in Nat /\ bought \in Nat /\ Len(OrderSpecs) \in Nat
      /\ \A i \in Jobs : target[i] \in Nat /\ created[i] \in Nat
  BY SpecFacts, SeedBoundsAssumption
     DEF CountInv, AloneInv, QuietInv, TypeInv, TablesOK, PodsOK, PodOK
<1>1. CASE /\ UNCHANGED <<jpc, target, created, overlapped>>
           /\ UNCHANGED <<orders, bought>> \/ (orders' = orders + 1 /\ bought' = bought + 1)
  <2>1. orders' - bought' = orders - bought
    BY <1>0, <1>1
  <2> QED
    BY <1>1, <2>1 DEF CountInv
<1>2. ASSUME NEW j \in Jobs, Apply(j) \/ PodStep(j) \/ Crash(j)
      PROVE  /\ orders' - bought' <= Len(OrderSpecs)
             /\ \A i \in Jobs : jpc'[i] = "seeding" =>
                   orders' - bought' + target'[i] - created'[i] <= Len(OrderSpecs)
  <2>0. /\ OnlyPod(j) /\ PodsOK'
        /\ orders - bought <= Len(OrderSpecs) /\ ~ overlapped
    BY <1>0, <1>2, PodStepPods
       DEF CountInv, AloneInv, Apply, PodStep, ReadNames, CommitProducts, MapProducts,
           CountOrders, SkipOrder, SeedOrder, Complete, Crash
  <2>1. CASE SeedOrder(j) /\ ~ PodFails(j)
    <3>1. /\ jpc[j] = "seeding" /\ created[j] < target[j]
          /\ orders' = orders + 1 /\ created'[j] = created[j] + 1 /\ target'[j] = target[j]
          /\ bought' = bought
      BY <1>0, <2>1 DEF SeedOrder, More, PodsOK
    <3>2. orders - bought + target[j] - created[j] <= Len(OrderSpecs)
      BY <2>0, <3>1 DEF CountInv
    <3>3. /\ orders' - bought' <= Len(OrderSpecs)
          /\ orders' - bought' + target'[j] - created'[j] <= Len(OrderSpecs)
      BY <1>0, <3>1, <3>2
    <3>4. ASSUME NEW i \in Jobs, jpc'[i] = "seeding"
          PROVE  i = j
      BY <2>0, <3>1, <3>4 DEF OnlyPod, CountInv, AloneInv, AtWork, Ended
    <3> QED
      BY <3>3, <3>4
  <2>2. CASE ~ SeedOrder(j) \/ PodFails(j)
    <3>1. orders' = orders /\ bought' = bought
      BY <1>2, <2>2 DEF Apply, PodStep, ReadNames, CommitProducts, MapProducts, CountOrders,
                        SkipOrder, SeedOrder, Complete, Crash, PodFails, tables
    <3>2. CASE CountOrders(j)
      <4>1. target'[j] = Max({Len(OrderSpecs) - orders, 0}) /\ created'[j] = created[j]
        BY <1>0, <3>2 DEF CountOrders, PodsOK
      <4>2. target'[j] = IF Len(OrderSpecs) - orders > 0 THEN Len(OrderSpecs) - orders ELSE 0
        BY <1>0, <4>1, MaxFacts
      <4>3. orders - bought + target'[j] - created'[j] <= Len(OrderSpecs)
        BY <1>0, <2>0, <4>1, <4>2
      <4> QED
        BY <2>0, <3>1, <4>3 DEF OnlyPod, CountInv
    <3>3. CASE ~ CountOrders(j)
      <4>1. jpc'[j] = "seeding" => /\ jpc[j] = "seeding" /\ target'[j] = target[j]
                                   /\ created'[j] = created[j]
        BY <1>0, <1>2, <2>2, <3>3
           DEF Apply, PodStep, ReadNames, CommitProducts, MapProducts, SkipOrder, More,
               SeedOrder, Complete, Crash, PodFails, Step, PodsOK
      <4> QED
        BY <2>0, <3>1, <4>1 DEF OnlyPod, CountInv
    <3> QED
      BY <3>2, <3>3
  <2> QED
    BY <2>1, <2>2
<1>3. ASSUME NEW n \in Names, Migrate \/ AddProduct(n) \/ DeleteProduct(n) \/ PlaceOrder(n)
      PROVE  /\ UNCHANGED <<jpc, target, created, overlapped>>
             /\ UNCHANGED <<orders, bought>> \/ (orders' = orders + 1 /\ bought' = bought + 1)
  BY <1>3, ClientsLeavePods DEF Migrate, AddProduct, DeleteProduct, PlaceOrder, tables
<1>4. CASE Migrate \/ UNCHANGED vars
  BY <1>1, <1>4 DEF Migrate, vars, tables, pods
<1> QED
  BY <1>1, <1>2, <1>3, <1>4 DEF Next

\* No job is at work yet, and there are no orders.
LEMMA CountInit == Init => CountInv
<1> SUFFICES ASSUME Init
             PROVE  CountInv
  OBVIOUS
<1>1. \A j \in Jobs : jpc[j] = "new"
  BY DEF Init
<1>2. orders - bought <= Len(OrderSpecs) /\ overlapped = FALSE
  BY SpecFacts DEF Init
<1> QED
  BY <1>1, <1>2, QuietInit DEF CountInv, AloneInv, AtWork, Ended

\* However often pods crash, jobs are applied again one after the other and
\* customers order in between, seed_orders never makes more orders than
\* seed_data.json has.
THEOREM SeededNeverTooMany == Spec => []NeverTooMany
<1>1. CountInv => NeverTooMany
  BY DEF CountInv, NeverTooMany
<1> QED
  BY <1>1, CountInit, CountStep, PTL DEF Spec

-----------------------------------------------------------------------------
(* The baseline.                                                           *)

\* What a pod is at, as long as no client has touched the tables.
BaseOf(j) ==
    /\ jpc[j] = "adding" => seen[j] = Specs \ DOMAIN products
    /\ jpc[j] \in {"mapping", "counting", "seeding", "done"} => DOMAIN products = Specs
    /\ jpc[j] \in {"counting", "seeding"} => seen[j] = products
    /\ jpc[j] = "seeding" => /\ orders + target[j] - created[j] = Len(OrderSpecs)
                             /\ pos[j] = created[j] + 1
    /\ jpc[j] = "done" => orders = Len(OrderSpecs)

\* Without crashes, the orders there are the first of seed_data.json; and
\* outside the loop there are all of them or none.
NoCrashOf(j) ==
    jpc[j] = "seeding" /\ created[j] < target[j] => pos[j] = orders + 1

NoCrash ==
    /\ \A k \in DOMAIN OrderSpecs : seeded[k] = IF k <= orders THEN 1 ELSE 0
    /\ (\A j \in Jobs : jpc[j] # "seeding") => orders \in {0, Len(OrderSpecs)}
    /\ \A j \in Jobs : NoCrashOf(j)

BaseInv ==
    /\ CountInv
    /\ acts = 0 /\ ~ overlapped =>
          /\ orders <= Len(OrderSpecs) /\ DOMAIN products \in {{}, Specs}
          /\ \A j \in Jobs : BaseOf(j)
          /\ faults = 0 => NoCrash

\* What is known of a step before which, and after which, there is a baseline.
Baseline(j) ==
    /\ PodsOK /\ PodsOK' /\ OnlyPod(j)
    /\ orders \in Nat /\ faults \in Nat /\ seeded \in [DOMAIN OrderSpecs -> Nat]
    /\ orders <= Len(OrderSpecs) /\ DOMAIN products \in {{}, Specs}
    /\ products = [n \in DOMAIN products |-> products[n]]
    /\ \A i \in Jobs : BaseOf(i)
    /\ faults = 0 => NoCrash
    /\ \A i \in Jobs \ {j} : jpc[i] \in Ended

Kept(j) ==
    /\ orders' <= Len(OrderSpecs) /\ DOMAIN products' \in {{}, Specs}
    /\ \A i \in Jobs : BaseOf(i)'
    /\ faults' = 0 => NoCrash'

\* A step that makes no order and keeps out of the loop, or fails after a crash.
LEMMA OutsideTheLoop ==
    ASSUME NEW j \in Jobs, Baseline(j), UNCHANGED <<orders, seeded>>,
           DOMAIN products = Specs => DOMAIN products' = Specs,
           DOMAIN products' \in {{}, Specs}, BaseOf(j)', jpc'[j] # "seeding",
           faults' = 0 => /\ faults = 0
                          /\ jpc[j] = "seeding" => orders = Len(OrderSpecs)
    PROVE  Kept(j)
<1>1. ASSUME NEW i \in Jobs \ {j}
      PROVE  BaseOf(i)' /\ jpc[i] # "seeding" /\ jpc'[i] # "seeding"
  <2>1. jpc'[i] = jpc[i] /\ jpc[i] \in Ended
    BY DEF Baseline, OnlyPod
  <2>2. BaseOf(i)
    BY DEF Baseline
  <2> QED
    BY <2>1, <2>2 DEF BaseOf, Ended
<1>2. ASSUME faults' = 0
      PROVE  NoCrash'
  <2>1. NoCrash
    BY <1>2 DEF Baseline
  <2>2. orders' \in {0, Len(OrderSpecs)}
    BY <1>1, <1>2, <2>1 DEF NoCrash
  <2>3. \A i \in Jobs : NoCrashOf(i)'
    BY <1>1 DEF NoCrashOf
  <2> QED
    BY <2>1, <2>2, <2>3 DEF NoCrash
<1> QED
  BY <1>1, <1>2 DEF Baseline, Kept

\* Apply, seed_products and the way into seed_orders.
LEMMA BaseBefore ==
    ASSUME NEW j \in Jobs, Baseline(j),
           Apply(j) \/ ReadNames(j) \/ CommitProducts(j) \/ MapProducts(j)
    PROVE  Kept(j)
<1>0. PodsOK /\ BaseOf(j) /\ DOMAIN products \in {{}, Specs}
  BY DEF Baseline
<1>1. UNCHANGED <<orders, seeded, faults>> /\ jpc[j] # "seeding"
  BY DEF Apply, ReadNames, CommitProducts, MapProducts, PodFails, Step, tables
<1>2. CASE PodFails(j) /\ UNCHANGED products
  <2>1. jpc'[j] \in {"starting", "failed"}
    BY <1>0, <1>2 DEF PodFails, PodsOK
  <2>2. BaseOf(j)'
    BY <2>1 DEF BaseOf
  <2> QED
    BY <1>0, <1>1, <1>2, <2>1, <2>2, OutsideTheLoop
<1>3. CASE Apply(j)
  <2>1. jpc'[j] = "starting" /\ products' = products
    BY <1>0, <1>3 DEF Apply, Step, PodsOK, tables
  <2>2. BaseOf(j)'
    BY <2>1 DEF BaseOf
  <2> QED
    BY <1>0, <1>1, <2>1, <2>2, OutsideTheLoop
<1>4. CASE ReadNames(j) /\ ~ PodFails(j)
  <2>1. jpc'[j] = "adding" /\ seen'[j] = ToAdd(DOMAIN products) /\ products' = products
    BY <1>0, <1>4 DEF ReadNames, PodsOK, tables
  <2>2. seen'[j] = Specs \ DOMAIN products
    BY <1>0, <2>1, ToAddFacts
  <2>3. BaseOf(j)'
    BY <2>1, <2>2 DEF BaseOf
  <2> QED
    BY <1>0, <1>1, <2>1, <2>3, OutsideTheLoop
<1>5. CASE CommitProducts(j) /\ ~ PodFails(j)
  <2>1. /\ jpc[j] = "adding" /\ jpc'[j] = "mapping"
        /\ DOMAIN products' = DOMAIN products \cup seen[j]
    BY <1>0, <1>5 DEF CommitProducts, PodsOK
  <2>2. DOMAIN products' = Specs
    BY <1>0, <2>1 DEF BaseOf
  <2>3. BaseOf(j)'
    BY <2>1, <2>2 DEF BaseOf
  <2> QED
    BY <1>0, <1>1, <2>1, <2>2, <2>3, OutsideTheLoop
<1>6. CASE MapProducts(j)
  <2>1. /\ jpc[j] = "mapping" /\ seen'[j] = products /\ products' = products
        /\ \/ products # Empty /\ jpc'[j] = "counting"
           \/ products = Empty /\ jpc'[j] = "done"
    BY <1>0, <1>6 DEF MapProducts, Step, PodsOK, tables
  <2>2. ASSUME products = Empty
        PROVE  orders = Len(OrderSpecs)
    <3>1. Specs = {}
      BY <1>0, <2>1, <2>2 DEF BaseOf, Empty
    <3>2. Len(OrderSpecs) = 0
      BY <3>1, SpecFacts
    <3> QED
      BY <3>2 DEF Baseline
  <2>3. BaseOf(j)'
    BY <1>0, <1>1, <2>1, <2>2 DEF BaseOf
  <2> QED
    BY <1>0, <1>1, <2>1, <2>3, OutsideTheLoop
<1> QED
  <2>1. (ReadNames(j) \/ CommitProducts(j)) /\ PodFails(j) => UNCHANGED products
    BY DEF PodFails, tables
  <2> QED
    BY <1>2, <1>3, <1>4, <1>5, <1>6, <2>1

\* The count, and the loop of seed_orders.
LEMMA BaseLoop ==
    ASSUME NEW j \in Jobs, Baseline(j),
           CountOrders(j) \/ SkipOrder(j) \/ SeedOrder(j) \/ Complete(j) \/ Crash(j)
    PROVE  Kept(j)
<1>0. /\ PodsOK /\ PodOK(j) /\ BaseOf(j) /\ DOMAIN products \in {{}, Specs}
      /\ orders \in Nat /\ orders <= Len(OrderSpecs) /\ faults \in Nat
      /\ Len(OrderSpecs) \in Nat /\ DOMAIN OrderSpecs = 1..Len(OrderSpecs)
      /\ target[j] \in Nat /\ created[j] \in Nat /\ pos[j] \in Nat
      /\ created[j] <= target[j] /\ target[j] <= Len(OrderSpecs)
  <2>1. /\ PodsOK /\ PodOK(j) /\ BaseOf(j) /\ DOMAIN products \in {{}, Specs}
        /\ orders \in Nat /\ orders <= Len(OrderSpecs) /\ faults \in Nat
    BY DEF Baseline, PodsOK
  <2>2. Len(OrderSpecs) \in Nat /\ DOMAIN OrderSpecs = 1..Len(OrderSpecs)
    BY SpecFacts
  <2>3. /\ target[j] \in 0..Len(OrderSpecs) /\ created[j] \in 0..target[j]
        /\ pos[j] \in created[j] + 1..Len(OrderSpecs) + 1
    BY <2>1 DEF PodOK
  <2>4. /\ target[j] \in Nat /\ created[j] \in Nat /\ pos[j] \in Nat
        /\ created[j] <= target[j] /\ target[j] <= Len(OrderSpecs)
    BY ONLY <2>2, <2>3
  <2> QED
    BY <2>1, <2>2, <2>4
<1>1. CASE Crash(j)
  <2>1. /\ jpc'[j] \in {"starting", "failed"} /\ faults' = faults + 1
        /\ UNCHANGED <<products, orders, seeded>>
    BY <1>0, <1>1 DEF Crash, PodFails, PodsOK, tables
  <2>2. BaseOf(j)' /\ faults' # 0
    BY <1>0, <2>1 DEF BaseOf
  <2> QED
    BY <1>0, <2>1, <2>2, OutsideTheLoop
<1>2. CASE Complete(j)
  <2>1. /\ jpc[j] = "seeding" /\ jpc'[j] = "done"
        /\ ~ (created[j] < target[j] /\ pos[j] <= Len(OrderSpecs))
        /\ UNCHANGED <<products, orders, seeded, faults>>
    BY <1>0, <1>2 DEF Complete, More, Step, PodsOK, tables
  <2>2. orders + target[j] - created[j] = Len(OrderSpecs) /\ pos[j] = created[j] + 1
    BY <1>0, <2>1 DEF BaseOf
  <2>3. orders = Len(OrderSpecs)
    BY <1>0, <2>1, <2>2
  <2>4. BaseOf(j)'
    BY <1>0, <2>1, <2>3 DEF BaseOf
  <2> QED
    BY <1>0, <2>1, <2>3, <2>4, OutsideTheLoop
<1>3. CASE CountOrders(j)
  <2>1. /\ jpc[j] = "counting" /\ jpc'[j] = "seeding"
        /\ target'[j] = Max({Len(OrderSpecs) - orders, 0})
        /\ created'[j] = 0 /\ pos'[j] = 1 /\ seen'[j] = seen[j]
        /\ UNCHANGED <<products, orders, seeded, faults>>
    BY <1>0, <1>3 DEF CountOrders, Step, PodsOK, PodOK, tables
  <2>2. target'[j] = Len(OrderSpecs) - orders
    BY <1>0, <2>1, MaxFacts
  <2>3. BaseOf(j)'
    BY <1>0, <2>1, <2>2 DEF BaseOf
  <2>4. ASSUME NEW i \in Jobs \ {j}
        PROVE  BaseOf(i)' /\ jpc[i] # "seeding" /\ jpc'[i] # "seeding"
    <3>1. jpc'[i] = jpc[i] /\ jpc[i] \in Ended /\ BaseOf(i)
      BY DEF Baseline, OnlyPod
    <3> QED
      BY <2>1, <3>1 DEF BaseOf, Ended
  <2>5. ASSUME faults' = 0
        PROVE  NoCrash'
    <3>1. NoCrash /\ orders \in {0, Len(OrderSpecs)}
      BY <2>1, <2>4, <2>5 DEF Baseline, NoCrash
    <3>2. NoCrashOf(j)'
      <4>1. orders' = orders /\ created'[j] = 0 /\ pos'[j] = 1
        BY <2>1
      <4>2. CASE orders = 0
        BY <4>1, <4>2 DEF NoCrashOf
      <4>3. CASE orders = Len(OrderSpecs)
        <5>1. target'[j] = 0
          BY <1>0, <2>2, <4>3
        <5> QED
          BY <4>1, <5>1 DEF NoCrashOf
      <4> QED
        BY <3>1, <4>2, <4>3
    <3> QED
      BY <2>1, <2>4, <3>1, <3>2 DEF NoCrash, NoCrashOf
  <2> QED
    BY <1>0, <2>1, <2>3, <2>4, <2>5 DEF Kept
<1>4. ~ SkipOrder(j) /\ (SeedOrder(j) => ~ PodFails(j))
  <2> SUFFICES ASSUME SkipOrder(j) \/ (SeedOrder(j) /\ PodFails(j))
               PROVE  FALSE
    OBVIOUS
  <2>1. jpc[j] = "seeding" /\ pos[j] \in DOMAIN OrderSpecs
    BY <1>0, SpecFacts DEF SkipOrder, SeedOrder, More, PodOK
  <2>2. seen[j] = products /\ DOMAIN products = Specs
    BY <1>0, <2>1 DEF BaseOf
  <2>3. OrderSpecs[pos[j]] \subseteq DOMAIN seen[j]
    BY <2>1, <2>2, SpecFacts
  <2>4. SeedOrder(j) /\ PodFails(j)
    BY <2>3 DEF SkipOrder
  <2>5. {seen[j][n] : n \in OrderSpecs[pos[j]]} \subseteq Range(products)
    BY <2>2, <2>3 DEF Range
  <2>6. jpc'[j] = jpc[j]
    BY <2>4, <2>5 DEF SeedOrder
  <2>7. jpc'[j] \in {"starting", "failed"}
    BY <1>0, <2>4 DEF PodFails, PodsOK
  <2> QED
    BY <2>1, <2>6, <2>7
<1>5. CASE SeedOrder(j)
  <2>1. /\ jpc[j] = "seeding" /\ created[j] < target[j] /\ pos[j] <= Len(OrderSpecs)
        /\ orders' = orders + 1 /\ seeded' = [seeded EXCEPT ![pos[j]] = @ + 1]
        /\ created'[j] = created[j] + 1 /\ pos'[j] = pos[j] + 1
        /\ UNCHANGED <<products, jpc, seen, target, faults>>
    BY <1>0, <1>4, <1>5 DEF SeedOrder, More, PodsOK
  <2>2. orders + target[j] - created[j] = Len(OrderSpecs) /\ pos[j] = created[j] + 1
    BY <1>0, <2>1 DEF BaseOf
  <2>3. /\ orders < Len(OrderSpecs) /\ orders' <= Len(OrderSpecs)
        /\ orders' + target'[j] - created'[j] = Len(OrderSpecs)
        /\ pos'[j] = created'[j] + 1
    <3>1. /\ orders \in Nat /\ Len(OrderSpecs) \in Nat
          /\ target[j] \in Nat /\ created[j] \in Nat /\ created[j] < target[j]
          /\ orders + target[j] - created[j] = Len(OrderSpecs)
      BY <1>0, <2>1, <2>2
    <3>2. /\ orders' = orders + 1 /\ target'[j] = target[j]
          /\ created'[j] = created[j] + 1 /\ pos'[j] = created[j] + 2
      BY <1>0, <2>1, <2>2
    <3>3. orders < Len(OrderSpecs)
      BY ONLY <3>1
    <3>4. orders' <= Len(OrderSpecs)
      BY ONLY <3>1, <3>2, <3>3
    <3>5. /\ orders' + target'[j] - created'[j] = Len(OrderSpecs)
          /\ pos'[j] = created'[j] + 1
      BY ONLY <3>1, <3>2
    <3> QED
      BY <3>3, <3>4, <3>5
  <2>4. BaseOf(j)'
    BY <1>0, <2>1, <2>3 DEF BaseOf
  <2>5. ASSUME NEW i \in Jobs \ {j}
        PROVE  BaseOf(i)' /\ jpc'[i] # "seeding"
    <3>1. jpc'[i] = jpc[i] /\ jpc[i] \in Ended /\ BaseOf(i)
      BY DEF Baseline, OnlyPod
    <3>2. jpc[i] # "done"
      <4>1. orders \in Nat /\ Len(OrderSpecs) \in Nat /\ orders < Len(OrderSpecs)
        BY <1>0, <2>3
      <4>2. orders # Len(OrderSpecs)
        BY <4>1
      <4> QED
        BY <3>1, <4>2 DEF BaseOf
    <3> QED
      BY <2>1, <3>1, <3>2 DEF BaseOf, Ended
  <2>6. ASSUME faults' = 0
        PROVE  NoCrash'
    <3>1. NoCrash /\ NoCrashOf(j)
      BY <2>1, <2>6 DEF Baseline, NoCrash
    <3>2. pos[j] = orders + 1
      BY <2>1, <3>1 DEF NoCrashOf
    <3>3. \A k \in DOMAIN OrderSpecs : seeded'[k] = IF k <= orders' THEN 1 ELSE 0
      <4> SUFFICES ASSUME NEW k \in DOMAIN OrderSpecs
                   PROVE  seeded'[k] = IF k <= orders' THEN 1 ELSE 0
        OBVIOUS
      <4>1. k \in Nat /\ seeded \in [DOMAIN OrderSpecs -> Nat]
        BY <1>0 DEF Baseline
      <4>2. seeded[k] = IF k <= orders THEN 1 ELSE 0
        BY <3>1 DEF NoCrash
      <4>3. seeded'[k] = IF k = pos[j] THEN seeded[k] + 1 ELSE seeded[k]
        BY <2>1, <4>1
      <4> QED
        BY <1>0, <2>1, <3>2, <4>1, <4>2, <4>3
    <3>4. NoCrashOf(j)'
      BY <1>0, <2>1, <3>2 DEF NoCrashOf
    <3> QED
      BY <2>1, <2>5, <3>3, <3>4 DEF NoCrash, NoCrashOf
  <2> QED
    BY <1>0, <2>1, <2>3, <2>4, <2>5, <2>6 DEF Kept
<1> QED
  BY <1>1, <1>2, <1>3, <1>4, <1>5

\* Every step keeps the baseline, as long as no client has touched the tables
\* and no two jobs were at work together.
LEMMA BaseStep == BaseInv /\ [Next]_vars => BaseInv'
<1> SUFFICES ASSUME BaseInv, [Next]_vars, acts' = 0, ~ overlapped'
             PROVE  /\ orders' <= Len(OrderSpecs) /\ DOMAIN products' \in {{}, Specs}
                    /\ \A j \in Jobs : BaseOf(j)'
                    /\ faults' = 0 => NoCrash'
  BY CountStep DEF BaseInv
<1>0. /\ CountInv /\ AloneInv /\ QuietInv /\ PodsOK /\ orders \in Nat /\ faults \in Nat
      /\ seeded \in [DOMAIN OrderSpecs -> Nat] /\ acts \in Nat
      /\ products = [n \in DOMAIN products |-> products[n]]
  BY SeedBoundsAssumption
     DEF BaseInv, CountInv, AloneInv, QuietInv, TypeInv, TablesOK
<1>1. CASE UNCHANGED <<tables, pods, acts, faults, overlapped>>
  BY <1>1 DEF tables, pods, BaseInv, BaseOf, NoCrash, NoCrashOf
<1>2. ASSUME NEW n \in Names, AddProduct(n) \/ DeleteProduct(n) \/ PlaceOrder(n)
      PROVE  FALSE
  <2>1. acts' = acts + 1
    BY <1>2 DEF AddProduct, DeleteProduct, PlaceOrder, Act
  <2> QED
    BY <1>0, <2>1
<1>3. ASSUME NEW j \in Jobs, Apply(j) \/ PodStep(j) \/ Crash(j)
      PROVE  Kept(j)
  <2>1. OnlyPod(j) /\ PodsOK'
    BY <1>0, <1>3, PodStepPods
  <2>2. /\ acts = 0 /\ ~ overlapped
        /\ (\A i \in Jobs : ~ AtWork(i)) \/ (AtWork(j) /\ ~ Apply(j))
    <3>1. CASE Apply(j)
      <4>1. acts' = acts /\ overlapped' = (overlapped \/ \E i \in Jobs : jpc[i] \notin Ended)
        BY <3>1 DEF Apply
      <4> QED
        BY <4>1 DEF AtWork
    <3>2. CASE ~ Apply(j)
      <4>1. acts' = acts /\ overlapped' = overlapped /\ AtWork(j)
        BY <1>3, <3>2
           DEF PodStep, ReadNames, CommitProducts, MapProducts, CountOrders, SkipOrder,
               SeedOrder, More, Complete, Step, Crash, PodFails, AtWork, Ended
      <4> QED
        BY <3>2, <4>1
    <3> QED
      BY <3>1, <3>2
  <2>3. \A i \in Jobs \ {j} : jpc[i] \in Ended
    <3>1. \A i \in Jobs : AtWork(i) /\ AtWork(j) => i = j
      BY <1>0, <2>2 DEF AloneInv
    <3> QED
      BY <2>2, <3>1 DEF AtWork
  <2>4. Baseline(j)
    <3>1. /\ orders <= Len(OrderSpecs) /\ DOMAIN products \in {{}, Specs}
          /\ \A i \in Jobs : BaseOf(i)
          /\ faults = 0 => NoCrash
      BY <2>2 DEF BaseInv
    <3> QED
      BY <1>0, <2>1, <2>3, <3>1 DEF Baseline
  <2> QED
    BY <1>3, <2>4, BaseBefore, BaseLoop DEF PodStep
<1>4. Migrate \/ UNCHANGED vars => UNCHANGED <<tables, pods, acts, faults, overlapped>>
  BY DEF Migrate, vars
<1> QED
  BY <1>1, <1>2, <1>3, <1>4 DEF Next, Kept

\* Nothing is there yet, and no pod.
LEMMA BaseInit == Init => BaseInv
<1> SUFFICES ASSUME Init
             PROVE  BaseInv
  OBVIOUS
<1>1. /\ orders = 0 /\ products = Empty /\ \A j \in Jobs : jpc[j] = "new"
      /\ seeded = [k \in DOMAIN OrderSpecs |-> 0]
  BY DEF Init
<1>2. DOMAIN products = {} /\ orders <= Len(OrderSpecs)
  BY <1>1, SpecFacts DEF Empty
<1>3. (\A j \in Jobs : BaseOf(j) /\ NoCrashOf(j))
  BY <1>1 DEF BaseOf, NoCrashOf
<1>4. \A k \in DOMAIN OrderSpecs : seeded[k] = IF k <= orders THEN 1 ELSE 0
  BY <1>1, SpecFacts
<1> QED
  BY <1>1, <1>2, <1>3, <1>4, CountInit DEF BaseInv, NoCrash

\* When a job is done and no client has touched the tables, every product and
\* as many orders as seed_data.json has are there, whatever attempts crashed;
\* and if none crashed, each of its orders was made exactly once.
THEOREM SeededBaseline == Spec => []BaselineComplete
<1>1. BaseInv => BaselineComplete
  <2> SUFFICES ASSUME BaseInv, NEW j \in Jobs, jpc[j] = "done", acts = 0, ~ overlapped
               PROVE  /\ DOMAIN products = Specs /\ orders = Len(OrderSpecs)
                      /\ faults = 0 => \A k \in DOMAIN OrderSpecs : seeded[k] = 1
    BY DEF BaselineComplete
  <2>1. BaseOf(j) /\ (faults = 0 => NoCrash)
    BY DEF BaseInv
  <2>2. DOMAIN products = Specs /\ orders = Len(OrderSpecs)
    BY <2>1 DEF BaseOf
  <2>3. ASSUME faults = 0, NEW k \in DOMAIN OrderSpecs
        PROVE  seeded[k] = 1
    BY <2>1, <2>2, <2>3, SpecFacts DEF NoCrash
  <2> QED
    BY <2>2, <2>3
<1> QED
  BY <1>1, BaseInit, BaseStep, PTL DEF Spec
=============================================================================
