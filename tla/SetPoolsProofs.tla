--------------------------- MODULE SetPoolsProofs ---------------------------
(***************************************************************************)
(* Proofs about the pools order, for all orders of one to three pools and  *)
(* all files: where rev_pools puts what it finds, the types, that the      *)
(* first order is applied as asked, and that "S" speaks of a cgminer that  *)
(* runs with the file.                                                     *)
(***************************************************************************)
EXTENDS SetPools, FiniteSetTheorems, TLAPS

-----------------------------------------------------------------------------
(* Items and their places *)

\* How many numbers an interval has.
LEMMA IntervalSize ==
  ASSUME NEW a \in Int, NEW b \in Int, a <= b + 1
  PROVE  IsFiniteSet(a .. b) /\ Cardinality(a .. b) = b - a + 1
<1>1. IsFiniteSet(a .. b) /\ Cardinality(a .. b) = IF a > b THEN 0 ELSE b - a + 1
  BY FS_Interval
<1> QED
  BY <1>1

\* A number below one that is at most three.
LEMMA UpToThree ==
  ASSUME NEW n \in 1 .. 3, NEW x \in 1 .. n
  PROVE  x \in 1 .. 3
OBVIOUS

PoolOrders == {o \in Seq([1 .. 4 -> Text]) : Len(o) \in 1 .. 3}

\* The orders of the constant are orders of one to three pools.
LEMMA OrdersArePools == Orders \subseteq PoolOrders
BY OrdersAssumption DEF PoolOrders

\* An order has finitely many items, each in one of its pools.
LEMMA ItemsFinite ==
  ASSUME NEW o \in PoolOrders
  PROVE  /\ IsFiniteSet(Items(o)) /\ Items(o) \subseteq (1 .. Len(o)) \X (1 .. 4)
         /\ Len(o) \in 1 .. 3
         /\ \A f \in Items(o) : o[f[1]][f[2]] \in Text
<1>1. Len(o) \in 1 .. 3 /\ o \in Seq([1 .. 4 -> Text])
  BY DEF PoolOrders
<1>2. IsFiniteSet(1 .. Len(o)) /\ IsFiniteSet(1 .. 4)
  <2>1. 1 \in Int /\ 4 \in Int /\ Len(o) \in Int /\ 1 <= Len(o) + 1 /\ 1 <= 4 + 1
    BY <1>1
  <2> QED
    BY <2>1, IntervalSize
<1>3. IsFiniteSet((1 .. Len(o)) \X (1 .. 4))
  BY <1>2, FS_Product
<1>4. Items(o) \in SUBSET ((1 .. Len(o)) \X (1 .. 4))
  BY DEF Items
<1>5. IsFiniteSet(Items(o))
  BY <1>3, <1>4, FS_Subset
<1>6. \A f \in Items(o) : o[f[1]][f[2]] \in Text
  <2> SUFFICES ASSUME NEW f \in Items(o) PROVE o[f[1]][f[2]] \in Text
    OBVIOUS
  <2>1. f[1] \in 1 .. Len(o) /\ f[2] \in 1 .. 4
    BY <1>4
  <2>2. o[f[1]] \in [1 .. 4 -> Text]
    BY <1>1, <2>1
  <2> QED
    BY <2>1, <2>2
<1> QED
  BY <1>1, <1>4, <1>5, <1>6

\* The fields passed before a field can be counted.
LEMMA BeforeFinite ==
  ASSUME NEW o \in PoolOrders, NEW f
  PROVE  /\ IsFiniteSet(Before(o, f)) /\ Cardinality(Before(o, f)) \in Nat
         /\ count(o, f) \in 0 .. 3
<1>1. IsFiniteSet(Items(o))
  BY ItemsFinite
<1>2. Before(o, f) \in SUBSET Items(o)
  BY DEF Before
<1>3. IsFiniteSet(Before(o, f))
  BY <1>1, <1>2, FS_Subset
<1>4. Cardinality(Before(o, f)) \in Nat
  BY <1>3, FS_CardinalityType
<1>5. count(o, f) \in 0 .. 3
  BY <1>4 DEF count
<1> QED
  BY <1>3, <1>4, <1>5

\* The items of a pool are taken for different things.
LEMMA PlacesDiffer ==
  ASSUME NEW o \in PoolOrders, NEW f \in Items(o), NEW g \in Items(o),
         f[1] = g[1], f[2] < g[2]
  PROVE  count(o, f) # count(o, g)
<1> DEFINE Between == {h \in Items(o) : h[1] = f[1] /\ f[2] <= h[2] /\ h[2] < g[2]}
           row == {f[1]} \X (f[2] .. g[2] - 1)
<1>1. /\ Items(o) \subseteq (1 .. Len(o)) \X (1 .. 4) /\ IsFiniteSet(Items(o))
      /\ Len(o) \in 1 .. 3
  BY ItemsFinite
<1>2. f[1] \in 1 .. 3 /\ f[2] \in 1 .. 4 /\ g[2] \in 1 .. 4
  <2>1. f[1] \in 1 .. Len(o) /\ f[2] \in 1 .. 4 /\ g[2] \in 1 .. 4
    BY <1>1
  <2> QED
    BY <1>1, <2>1, UpToThree
<1>3. Between \in SUBSET row /\ f \in Between
  <2> SUFFICES ASSUME NEW h \in Items(o), h[1] = f[1], f[2] <= h[2], h[2] < g[2]
               PROVE  h \in row
    BY <1>2
  <2>1. h = <<h[1], h[2]>> /\ h[2] \in 1 .. 4
    BY <1>1
  <2>2. h[1] \in {f[1]} /\ h[2] \in f[2] .. g[2] - 1
    BY <1>2, <2>1
  <2> QED
    BY <2>1, <2>2
<1>4. IsFiniteSet(Between) /\ Cardinality(Between) \in 1 .. 3
  <2>1. IsFiniteSet({f[1]}) /\ Cardinality({f[1]}) = 1
    BY FS_Singleton
  <2>2. IsFiniteSet(f[2] .. g[2] - 1) /\ Cardinality(f[2] .. g[2] - 1) = g[2] - f[2]
    <3>1. f[2] \in Int /\ g[2] - 1 \in Int /\ f[2] <= (g[2] - 1) + 1
      BY <1>2
    <3>2. /\ IsFiniteSet(f[2] .. g[2] - 1)
          /\ Cardinality(f[2] .. g[2] - 1) = (g[2] - 1) - f[2] + 1
      BY <3>1, IntervalSize
    <3>3. (g[2] - 1) - f[2] + 1 = g[2] - f[2]
      BY <1>2
    <3> QED
      BY <3>2, <3>3
  <2>3. IsFiniteSet(row) /\ Cardinality(row) = g[2] - f[2]
    <3> DEFINE columns == f[2] .. g[2] - 1
               width == g[2] - f[2]
    <3> HIDE DEF columns, width
    <3>1. IsFiniteSet(row) /\ Cardinality(row) = 1 * width
      <4>1. IsFiniteSet(columns) /\ Cardinality(columns) = width
        BY <2>2 DEF columns, width
      <4>2. row = {f[1]} \X columns
        BY DEF columns
      <4>3. IsFiniteSet({f[1]} \X columns) /\ Cardinality({f[1]} \X columns) = Cardinality({f[1]}) * Cardinality(columns)
        BY <2>1, <4>1, FS_Product
      <4> QED
        BY <2>1, <4>1, <4>2, <4>3
    <3>2. 1 * width = g[2] - f[2]
      BY <1>2 DEF width
    <3> QED
      BY <3>1, <3>2
  <2> HIDE DEF row, Between
  <2>4. IsFiniteSet(Between) /\ Cardinality(Between) <= g[2] - f[2]
    BY <1>3, <2>3, FS_Subset
  <2>5. Cardinality(Between) \in Nat /\ Cardinality(Between) # 0
    BY <1>3, <2>4, FS_CardinalityType, FS_EmptySet
  <2> QED
    BY <1>2, <2>4, <2>5
<1>5. Before(o, g) = Before(o, f) \cup Between /\ Before(o, f) \cap Between = {}
  <2> SUFFICES ASSUME NEW h \in Items(o)
               PROVE  /\ h \in Before(o, g) <=> h \in Before(o, f) \/ h \in Between
                      /\ ~ (h \in Before(o, f) /\ h \in Between)
    BY DEF Before
  <2>1. h[1] \in 1 .. 3 /\ h[2] \in 1 .. 4
    <3>1. h[1] \in 1 .. Len(o) /\ h[2] \in 1 .. 4
      BY <1>1
    <3> QED
      BY <1>1, <3>1, UpToThree
  <2> QED
    BY <1>2, <2>1 DEF Before
<1> HIDE DEF Between
<1> DEFINE a == Cardinality(Before(o, f))
           d == Cardinality(Between)
<1>6. a \in Nat /\ IsFiniteSet(Before(o, f))
  BY BeforeFinite
<1>7. Cardinality(Before(o, g)) = a + d
  <2>1. Cardinality(Before(o, f) \cap Between) = 0
    BY <1>5, FS_EmptySet
  <2>2. Cardinality(Before(o, f) \cup Between) = a + d - Cardinality(Before(o, f) \cap Between)
    BY <1>4, <1>6, FS_Union
  <2>3. a + d - 0 = a + d
    BY <1>4, <1>6
  <2> QED
    BY <1>5, <2>1, <2>2, <2>3
<1>8. d \in 1 .. 3
  BY <1>4
<1> HIDE DEF a, d
<1>9. a % 4 # (a + d) % 4
  BY <1>6, <1>8
<1> QED
  BY <1>7, <1>9 DEF count, a

\* So a pool has one item at most that rev_pools counts as the first of a pool.
LEMMA PoolsCounted ==
  ASSUME NEW o \in PoolOrders
  PROVE  Cardinality({f \in Items(o) : count(o, f) = 0}) \in 0 .. 3
<1> DEFINE First == {f \in Items(o) : count(o, f) = 0}
           m == [f \in First |-> f[1]]
<1>1. Items(o) \subseteq (1 .. Len(o)) \X (1 .. 4) /\ IsFiniteSet(Items(o)) /\ Len(o) \in 1 .. 3
  BY ItemsFinite
<1>2. m \in [First -> 1 .. 3]
  BY <1>1
<1>3. \A f, g \in First : m[f] = m[g] => f = g
  <2> SUFFICES ASSUME NEW f \in First, NEW g \in First, f[1] = g[1] PROVE f = g
    OBVIOUS
  <2>1. /\ f[2] \in 1 .. 4 /\ g[2] \in 1 .. 4
        /\ f = <<f[1], f[2]>> /\ g = <<g[1], g[2]>>
    BY <1>1
  <2>2. ~ (f[2] < g[2]) /\ ~ (g[2] < f[2])
    BY PlacesDiffer
  <2>3. f[2] = g[2]
    BY <2>1, <2>2
  <2> QED
    BY <2>1, <2>3
<1> HIDE DEF m
<1>4. m \in Injection(First, 1 .. 3)
  BY <1>2, <1>3 DEF Injection, IsInjective
<1>5. IsFiniteSet(1 .. 3) /\ Cardinality(1 .. 3) = 3
  <2>1. 1 \in Int /\ 3 \in Int /\ ~ (1 > 3) /\ 3 - 1 + 1 = 3
    OBVIOUS
  <2> QED
    BY <2>1, FS_Interval
<1> HIDE DEF First
<1>6. IsFiniteSet(First) /\ Cardinality(First) <= 3
  BY <1>4, <1>5, FS_Injection
<1>7. Cardinality(First) \in Nat
  BY <1>6, FS_CardinalityType
<1>8. Cardinality(First) \in 0 .. 3
  BY <1>6, <1>7
<1> QED
  BY <1>8 DEF First

Fields == [1 .. 3 -> [1 .. 4 -> Text]]

\* What rev_pools leaves: fields, and a count that grows by three at most.
LEMMA rev_poolsTypes ==
  ASSUME NEW o \in PoolOrders, NEW change, change.pools_data \in Fields,
         change.pools_count \in Nat
  PROVE  /\ rev_pools(change, o) = [pools_data |-> rev_pools(change, o).pools_data,
                                    pools_count |-> rev_pools(change, o).pools_count]
         /\ rev_pools(change, o).pools_data \in Fields
         /\ rev_pools(change, o).pools_count \in change.pools_count .. change.pools_count + 3
<1> DEFINE taken(num, c) ==
             IF ItemFor(o, num, c) # {}
               THEN o[num][(CHOOSE f \in ItemFor(o, num, c) : TRUE)[2]]
               ELSE change.pools_data[num][c]
<1>1. ASSUME NEW num \in 1 .. 3, NEW c \in 1 .. 4
      PROVE  taken(num, c) \in Text
  <2>1. CASE ItemFor(o, num, c) # {}
    <3>1. PICK f \in ItemFor(o, num, c) : f = CHOOSE g \in ItemFor(o, num, c) : TRUE
      BY <2>1
    <3>2. f \in Items(o) /\ f[1] = num
      BY DEF ItemFor
    <3>3. o[num][f[2]] \in Text
      BY <3>2, ItemsFinite
    <3> QED
      BY <2>1, <3>1, <3>3
  <2>2. CASE ItemFor(o, num, c) = {}
    <3>1. change.pools_data[num] \in [1 .. 4 -> Text]
      BY DEF Fields
    <3> QED
      BY <2>2, <3>1
  <2> QED
    BY <2>1, <2>2
<1>2. rev_pools(change, o).pools_data = [num \in 1 .. 3 |-> [c \in 1 .. 4 |-> taken(num, c)]]
  BY DEF rev_pools
<1> HIDE DEF taken
<1>3. rev_pools(change, o).pools_data \in Fields
  <2>1. \A num \in 1 .. 3 : [c \in 1 .. 4 |-> taken(num, c)] \in [1 .. 4 -> Text]
    BY <1>1
  <2> QED
    BY <1>2, <2>1 DEF Fields
<1> DEFINE n == Cardinality({f \in Items(o) : count(o, f) = 0})
<1>4. rev_pools(change, o).pools_count = change.pools_count + n
  BY DEF rev_pools
<1>5. n \in 0 .. 3
  BY PoolsCounted
<1> HIDE DEF n
<1>6. rev_pools(change, o).pools_count \in change.pools_count .. change.pools_count + 3
  BY <1>4, <1>5
<1>7. rev_pools(change, o) = [pools_data |-> rev_pools(change, o).pools_data,
                              pools_count |-> rev_pools(change, o).pools_count]
  BY DEF rev_pools
<1> QED
  BY <1>3, <1>6, <1>7

\* With no empty field the items are all fields, and each is taken for what it
\* is: the n-th of the order for the n-th.
LEMMA WellFormedCount ==
  ASSUME NEW o \in PoolOrders, WellFormed(o), NEW k \in 1 .. Len(o), NEW c \in 1 .. 4
  PROVE  /\ Items(o) = (1 .. Len(o)) \X (1 .. 4)
         /\ count(o, <<k, c>>) = c - 1
<1>1. Len(o) \in 1 .. 3 /\ DOMAIN o = 1 .. Len(o) /\ k \in 1 .. 3
  <2>1. Len(o) \in 1 .. 3 /\ o \in Seq([1 .. 4 -> Text])
    BY DEF PoolOrders
  <2>2. k \in 1 .. 3
    BY <2>1, UpToThree
  <2> QED
    BY <2>1, <2>2
<1>2. Items(o) = (1 .. Len(o)) \X (1 .. 4)
  <2>1. \A f \in (1 .. Len(o)) \X (1 .. 4) : o[f[1]][f[2]] # Empty
    BY <1>1 DEF WellFormed
  <2> QED
    BY <2>1 DEF Items
<1> DEFINE above == (1 .. k - 1) \X (1 .. 4)
           left == {k} \X (1 .. c - 1)
<1>3. Before(o, <<k, c>>) = above \cup left /\ above \cap left = {}
  <2>1. ASSUME NEW g \in (1 .. Len(o)) \X (1 .. 4)
        PROVE  g \in Before(o, <<k, c>>) <=> g \in above \/ g \in left
    <3>1. g = <<g[1], g[2]>> /\ g[1] \in 1 .. Len(o) /\ g[2] \in 1 .. 4
      OBVIOUS
    <3>2. g[1] \in 1 .. 3
      BY <1>1, <3>1, UpToThree
    <3>3. g \in Before(o, <<k, c>>) <=> g[1] < k \/ (g[1] = k /\ g[2] < c)
      BY <1>2 DEF Before
    <3>4. g \in above <=> g[1] < k
      BY <1>1, <3>1, <3>2
    <3>5. g \in left <=> g[1] = k /\ g[2] < c
      BY <3>1
    <3> QED
      BY <3>3, <3>4, <3>5
  <2>2. Before(o, <<k, c>>) \subseteq (1 .. Len(o)) \X (1 .. 4)
    BY <1>2 DEF Before
  <2>3. above \subseteq (1 .. Len(o)) \X (1 .. 4)
    <3>1. 1 .. k - 1 \subseteq 1 .. Len(o)
      BY <1>1
    <3> QED
      BY <3>1
  <2>4. left \subseteq (1 .. Len(o)) \X (1 .. 4)
    <3>1. 1 .. c - 1 \subseteq 1 .. 4
      OBVIOUS
    <3> QED
      BY <3>1
  <2>5. above \cap left = {}
    <3>1. k \notin 1 .. k - 1
      BY <1>1
    <3> QED
      BY <3>1
  <2> HIDE DEF above, left
  <2> QED
    BY <2>1, <2>2, <2>3, <2>4, <2>5
<1>4. IsFiniteSet(above) /\ Cardinality(above) = 4 * (k - 1)
  <2>1. 1 \in Int /\ k - 1 \in Int /\ 4 \in Int /\ 1 <= k - 1 + 1 /\ 1 <= 4 + 1
    BY <1>1
  <2>2. IsFiniteSet(1 .. k - 1) /\ Cardinality(1 .. k - 1) = k - 1 - 1 + 1
    BY <2>1, IntervalSize
  <2>3. IsFiniteSet(1 .. 4) /\ Cardinality(1 .. 4) = 4 - 1 + 1
    BY <2>1, IntervalSize
  <2>4. IsFiniteSet(above) /\ Cardinality(above) = Cardinality(1 .. k - 1) * Cardinality(1 .. 4)
    BY <2>2, <2>3, FS_Product
  <2>5. (k - 1 - 1 + 1) * (4 - 1 + 1) = 4 * (k - 1)
    BY <1>1
  <2> QED
    BY <2>2, <2>3, <2>4, <2>5
<1>5. IsFiniteSet(left) /\ Cardinality(left) = c - 1
  <2>1. 1 \in Int /\ c - 1 \in Int /\ 1 <= c - 1 + 1
    OBVIOUS
  <2>2. IsFiniteSet(1 .. c - 1) /\ Cardinality(1 .. c - 1) = c - 1 - 1 + 1
    BY <2>1, IntervalSize
  <2>3. IsFiniteSet({k}) /\ Cardinality({k}) = 1
    BY FS_Singleton
  <2>4. IsFiniteSet(left) /\ Cardinality(left) = Cardinality({k}) * Cardinality(1 .. c - 1)
    BY <2>2, <2>3, FS_Product
  <2>5. 1 * (c - 1 - 1 + 1) = c - 1
    OBVIOUS
  <2> QED
    BY <2>2, <2>3, <2>4, <2>5
<1> HIDE DEF above, left
<1>6. Cardinality(Before(o, <<k, c>>)) = 4 * (k - 1) + (c - 1)
  <2>1. Cardinality(above \cap left) = 0
    BY <1>3, FS_EmptySet
  <2>2. Cardinality(above \cup left)
          = Cardinality(above) + Cardinality(left) - Cardinality(above \cap left)
    BY <1>4, <1>5, FS_Union
  <2>3. 4 * (k - 1) + (c - 1) - 0 = 4 * (k - 1) + (c - 1)
    BY <1>1
  <2> QED
    BY <1>3, <1>4, <1>5, <2>1, <2>2, <2>3
<1>7. (4 * (k - 1) + (c - 1)) % 4 = c - 1
  BY <1>1
<1>8. count(o, <<k, c>>) = c - 1
  BY <1>6, <1>7 DEF count
<1> QED
  BY <1>2, <1>8

\* So rev_pools finds the pools of such an order one by one, and counts them.
LEMMA WellFormedFound ==
  ASSUME NEW o \in PoolOrders, WellFormed(o), NEW change, change.pools_count \in Nat
  PROVE  /\ \A k \in 1 .. Len(o) : rev_pools(change, o).pools_data[k] = o[k]
         /\ rev_pools(change, o).pools_count = change.pools_count + Len(o)
<1>1. /\ Len(o) \in 1 .. 3 /\ 1 .. Len(o) \subseteq 1 .. 3
      /\ \A k \in 1 .. Len(o) : o[k] \in [1 .. 4 -> Text]
  <2>1. Len(o) \in 1 .. 3 /\ o \in Seq([1 .. 4 -> Text])
    BY DEF PoolOrders
  <2>2. \A k \in 1 .. Len(o) : k \in 1 .. 3
    BY <2>1, UpToThree
  <2>3. \A k \in 1 .. Len(o) : o[k] \in [1 .. 4 -> Text]
    BY <2>1
  <2> QED
    BY <2>1, <2>2, <2>3
<1>2. \A f \in Items(o) : /\ f = <<f[1], f[2]>> /\ f[1] \in 1 .. Len(o) /\ f[2] \in 1 .. 4
                          /\ count(o, f) = f[2] - 1
  <2>1. Items(o) \subseteq (1 .. Len(o)) \X (1 .. 4)
    BY ItemsFinite
  <2> SUFFICES ASSUME NEW f \in Items(o)
               PROVE  /\ f = <<f[1], f[2]>> /\ f[1] \in 1 .. Len(o) /\ f[2] \in 1 .. 4
                      /\ count(o, f) = f[2] - 1
    OBVIOUS
  <2>2. f = <<f[1], f[2]>> /\ f[1] \in 1 .. Len(o) /\ f[2] \in 1 .. 4
    BY <2>1
  <2>3. count(o, <<f[1], f[2]>>) = f[2] - 1
    BY <2>2, WellFormedCount
  <2>4. count(o, <<f[1], f[2]>>) = count(o, f)
    BY <2>2
  <2> QED
    BY <2>2, <2>3, <2>4
<1>3. ASSUME NEW k \in 1 .. Len(o), NEW c \in 1 .. 4
      PROVE  ItemFor(o, k, c) = {<<k, c>>}
  <2>1. <<k, c>> \in Items(o) /\ count(o, <<k, c>>) = c - 1
    BY WellFormedCount
  <2>2. ASSUME NEW f \in ItemFor(o, k, c) PROVE f = <<k, c>>
    <3>1. f \in Items(o) /\ f[1] = k /\ count(o, f) = c - 1
      BY DEF ItemFor
    <3>2. f[2] - 1 = c - 1 /\ f[2] \in 1 .. 4 /\ f = <<k, f[2]>>
      BY <1>2, <3>1
    <3>3. f[2] = c
      BY <3>2
    <3> QED
      BY <3>2, <3>3
  <2>3. <<k, c>> \in ItemFor(o, k, c)
    BY <2>1 DEF ItemFor
  <2> QED
    BY <2>2, <2>3
<1>4. ASSUME NEW k \in 1 .. Len(o)
      PROVE  rev_pools(change, o).pools_data[k] = o[k]
  <2>1. \A c \in 1 .. 4 : /\ ItemFor(o, k, c) # {}
                          /\ (CHOOSE f \in ItemFor(o, k, c) : TRUE)[2] = c
    <3> SUFFICES ASSUME NEW c \in 1 .. 4
                 PROVE  /\ ItemFor(o, k, c) # {}
                        /\ (CHOOSE f \in ItemFor(o, k, c) : TRUE)[2] = c
      OBVIOUS
    <3>1. ItemFor(o, k, c) = {<<k, c>>}
      BY <1>3
    <3>2. (CHOOSE f \in {<<k, c>>} : TRUE) = <<k, c>>
      OBVIOUS
    <3>3. (CHOOSE f \in ItemFor(o, k, c) : TRUE) = <<k, c>>
      BY <3>1, <3>2
    <3> QED
      BY <3>1, <3>3
  <2>2. rev_pools(change, o).pools_data[k]
          = [c \in 1 .. 4 |-> IF ItemFor(o, k, c) # {}
                                THEN o[k][(CHOOSE f \in ItemFor(o, k, c) : TRUE)[2]]
                                ELSE change.pools_data[k][c]]
    <3>1. k \in 1 .. 3
      BY <1>1
    <3> QED
      BY <3>1 DEF rev_pools
  <2>3. rev_pools(change, o).pools_data[k] = [c \in 1 .. 4 |-> o[k][c]]
    BY <2>1, <2>2
  <2> QED
    BY <1>1, <2>3
<1> DEFINE First == {f \in Items(o) : count(o, f) = 0}
<1>5. First = (1 .. Len(o)) \X {1}
  <2>1. ASSUME NEW f \in First PROVE f \in (1 .. Len(o)) \X {1}
    <3>1. f[2] - 1 = 0 /\ f[2] \in 1 .. 4 /\ f[1] \in 1 .. Len(o) /\ f = <<f[1], f[2]>>
      BY <1>2
    <3>2. f[2] = 1
      BY <3>1
    <3> QED
      BY <3>1, <3>2
  <2>2. ASSUME NEW k \in 1 .. Len(o) PROVE <<k, 1>> \in First
    <3>1. <<k, 1>> \in Items(o) /\ count(o, <<k, 1>>) = 1 - 1
      <4>1. 1 \in 1 .. 4
        OBVIOUS
      <4>2. Items(o) = (1 .. Len(o)) \X (1 .. 4) /\ count(o, <<k, 1>>) = 1 - 1
        BY <4>1, WellFormedCount
      <4> QED
        BY <4>1, <4>2
    <3> QED
      BY <3>1
  <2> QED
    BY <2>1, <2>2
<1>6. Cardinality(First) = Len(o)
  <2>1. 1 \in Int /\ Len(o) \in Int /\ 1 <= Len(o) + 1 /\ (Len(o) - 1 + 1) * 1 = Len(o)
    BY <1>1
  <2>2. IsFiniteSet(1 .. Len(o)) /\ Cardinality(1 .. Len(o)) = Len(o) - 1 + 1
    BY <2>1, IntervalSize
  <2>3. IsFiniteSet({1}) /\ Cardinality({1}) = 1
    BY FS_Singleton
  <2>4. Cardinality((1 .. Len(o)) \X {1}) = Cardinality(1 .. Len(o)) * Cardinality({1})
    BY <2>2, <2>3, FS_Product
  <2> QED
    BY <1>5, <2>1, <2>2, <2>3, <2>4
<1>7. rev_pools(change, o).pools_count = change.pools_count + Cardinality(First)
  BY DEF rev_pools
<1> QED
  BY <1>4, <1>6, <1>7

-----------------------------------------------------------------------------
(* The new contents of the file *)

\* The url, user and password of the four fields.
LEMMA SubSeqOfFields ==
  ASSUME NEW data \in [1 .. 4 -> Text]
  PROVE  SubSeq(data, 2, 4) \in [1 .. 3 -> Text]
<1>1. data \in Seq(Text) /\ Len(data) = 4
  <2>1. data = [j \in 1 .. 4 |-> data[j]] /\ \A j \in 1 .. 4 : data[j] \in Text
    OBVIOUS
  <2> QED
    BY <2>1
<1>2. SubSeq(data, 2, 4) = [j \in 1 .. 3 |-> data[j + 1]]
  BY <1>1
<1>3. \A j \in 1 .. 3 : data[j + 1] \in Text
  OBVIOUS
<1> QED
  BY <1>2, <1>3

Pools == [1 .. 3 -> [1 .. 3 -> Text]]

\* A pool put in its place.
LEMMA SetPoolTypes ==
  ASSUME NEW pools \in Pools, NEW data \in [1 .. 4 -> Text]
  PROVE  SetPool(pools, data) \in Pools
<1>1. SubSeq(data, 2, 4) \in [1 .. 3 -> Text]
  BY SubSeqOfFields
<1> DEFINE j == atoi(data[1]) + 1
           p == SubSeq(data, 2, 4)
<1>2. SetPool(pools, data) = [k \in 1 .. 3 |-> IF k = j THEN p ELSE pools[k]]
  BY DEF SetPool
<1>3. p \in [1 .. 3 -> Text]
  BY <1>1
<1> HIDE DEF j, p
<1> QED
  BY <1>2, <1>3 DEF Pools

\* A file whose pools are replaced.
LEMMA WithPools ==
  ASSUME NEW c \in Confs, NEW p \in Pools
  PROVE  /\ [c EXCEPT !.pools = p] \in Confs /\ [c EXCEPT !.pools = p].pools = p
         /\ c.pools \in Pools
<1>1. /\ c = [pools |-> c.pools, nobeeper |-> c.nobeeper, notempoverctrl |-> c.notempoverctrl]
      /\ c.pools \in Pools
  BY DEF Confs, Pools
<1>2. [c EXCEPT !.pools = p]
        = [pools |-> p, nobeeper |-> c.nobeeper, notempoverctrl |-> c.notempoverctrl]
  BY <1>1
<1>3. c.nobeeper \in BOOLEAN /\ c.notempoverctrl \in BOOLEAN
  BY DEF Confs
<1>4. [c EXCEPT !.pools = p] \in Confs
  BY <1>2, <1>3 DEF Confs, Pools
<1> QED
  BY <1>1, <1>2, <1>4

\* The pools that creat_newpools makes of those of the file.
NewPools(change, pools) ==
  LET d == change.pools_data IN
  CASE change.pools_count = 1 -> SetPool(pools, d[1])
    [] change.pools_count = 2 -> SetPool(SetPool(pools, d[1]), d[2])
    [] change.pools_count = 3 -> [k \in 1 .. 3 |-> SubSeq(d[k], 2, 4)]
    [] OTHER -> pools

\* The file with the order's pools.
LEMMA creat_newpoolsTypes ==
  ASSUME NEW old \in Confs, NEW change, change.pools_data \in Fields
  PROVE  /\ creat_newpools(change, old) \in Confs
         /\ creat_newpools(change, old).pools = NewPools(change, old.pools)
<1> DEFINE d == change.pools_data
           n == change.pools_count
<1>1. old.pools \in Pools
  BY DEF Confs, Pools
<1>2. \A k \in 1 .. 3 : d[k] \in [1 .. 4 -> Text]
  BY DEF Fields
<1>3. d[1] \in [1 .. 4 -> Text] /\ d[2] \in [1 .. 4 -> Text]
  BY <1>2
<1>4. SetPool(old.pools, d[1]) \in Pools
  BY <1>1, <1>3, SetPoolTypes
<1>5. SetPool(SetPool(old.pools, d[1]), d[2]) \in Pools
  BY <1>3, <1>4, SetPoolTypes
<1>6. [k \in 1 .. 3 |-> SubSeq(d[k], 2, 4)] \in Pools
  <2>1. \A k \in 1 .. 3 : SubSeq(d[k], 2, 4) \in [1 .. 3 -> Text]
    BY <1>2, SubSeqOfFields
  <2> QED
    BY <2>1 DEF Pools
<1>7. \/ creat_newpools(change, old) = [old EXCEPT !.pools = NewPools(change, old.pools)]
      \/ creat_newpools(change, old) = old /\ NewPools(change, old.pools) = old.pools
  <2>1. CASE n = 1
    BY <2>1 DEF creat_newpools, NewPools
  <2>2. CASE n = 2
    BY <2>2 DEF creat_newpools, NewPools
  <2>3. CASE n = 3
    BY <2>3 DEF creat_newpools, NewPools
  <2>4. CASE n # 1 /\ n # 2 /\ n # 3
    BY <2>4 DEF creat_newpools, NewPools
  <2> QED
    BY <2>1, <2>2, <2>3, <2>4
<1>8. NewPools(change, old.pools) \in Pools
  <2>1. \/ NewPools(change, old.pools) = SetPool(old.pools, d[1])
        \/ NewPools(change, old.pools) = SetPool(SetPool(old.pools, d[1]), d[2])
        \/ NewPools(change, old.pools) = [k \in 1 .. 3 |-> SubSeq(d[k], 2, 4)]
        \/ NewPools(change, old.pools) = old.pools
    <3>1. CASE n = 1
      BY <3>1 DEF NewPools
    <3>2. CASE n = 2
      BY <3>2 DEF NewPools
    <3>3. CASE n = 3
      BY <3>3 DEF NewPools
    <3>4. CASE n # 1 /\ n # 2 /\ n # 3
      BY <3>4 DEF NewPools
    <3> QED
      BY <3>1, <3>2, <3>3, <3>4
  <2> QED
    BY <1>1, <1>4, <1>5, <1>6, <2>1
<1> QED
  BY <1>7, <1>8, WithPools

\* A file that holds c.
LEMMA FileTypes ==
  /\ \A c \in Confs : <<c>> \in Files /\ <<c>> # <<>> /\ <<c>>[1] = c
  /\ \A f \in Files : f # <<>> => f[1] \in Confs /\ f = <<f[1]>>
<1>1. ASSUME NEW c \in Confs PROVE <<c>> \in [{1} -> Confs] /\ <<c>> # <<>> /\ <<c>>[1] = c
  <2>1. <<c>> \in Seq(Confs) /\ Len(<<c>>) = 1 /\ <<c>>[1] = c /\ DOMAIN <<c>> = 1 .. 1
    OBVIOUS
  <2>2. 1 .. 1 = {1} /\ Len(<<>>) = 0
    OBVIOUS
  <2>3. <<c>> = [k \in 1 .. 1 |-> <<c>>[k]]
    BY <2>1
  <2> QED
    BY <2>1, <2>2, <2>3
<1>2. ASSUME NEW f \in [{1} -> Confs] PROVE f[1] \in Confs /\ f = <<f[1]>>
  <2>1. f = [k \in {1} |-> f[1]] /\ 1 .. 1 = {1}
    OBVIOUS
  <2>2. <<f[1]>> = [k \in 1 .. 1 |-> f[1]]
    OBVIOUS
  <2> QED
    BY <2>1, <2>2
<1> QED
  BY <1>1, <1>2 DEF Files

-----------------------------------------------------------------------------
(* The inductive invariant *)

\* The types; and three pools at most are counted with each order.
ChangedTypes == changed_pools \in [pools_data : Fields, pools_count : 0 .. 3 * orders]
CountTypes == orders \in 0 .. MaxOrders /\ kills \in 0 .. MaxKills /\ saves \in 0 .. MaxSaves
RestTypes ==
  /\ conf_file \in Files /\ running \in Files
  /\ get_cgminer_conf \in Confs
  /\ pc \in {"idle", "write", "restart", "connect", "dead"}
  /\ order \in Orders \cup {<<>>} /\ i \in -1 .. 6 /\ answer \in {"none", "S", "F"}
  /\ cgminer \in {"up", "down", "starting"}
  /\ script \in [{"daemon", "page"} -> {"none", "kill", "start"}]
TypeInv == ChangedTypes /\ CountTypes /\ RestTypes

\* cgminer runs with the file as it is, unless create_conf was interrupted, or a
\* script that is to kill it has not done so yet.
Fresh == \/ conf_file = <<>> \/ cgminer = "down" \/ running = conf_file
         \/ script["daemon"] = "kill" \/ script["page"] = "kill"

\* restart_cgminer comes after create_conf, connects after the script's end, and
\* answers when the tries are over.
Steps ==
  /\ pc \in {"restart", "connect"} => conf_file # <<>>
  /\ pc = "connect" => script["daemon"] = "none"
  /\ pc \in {"write", "restart", "connect"} => answer = "none" /\ order \in Orders
  /\ pc = "connect" => i >= 0

PoolsInv == TypeInv /\ Fresh /\ Steps

\* A group of variables that a step leaves alone keeps its types.
LEMMA TypesKept ==
  /\ ChangedTypes /\ UNCHANGED <<changed_pools, orders>> => ChangedTypes'
  /\ CountTypes /\ UNCHANGED <<orders, kills, saves>> => CountTypes'
BY DEF ChangedTypes, CountTypes

\* changed_pools is its two parts.
LEMMA ChangedParts ==
  ASSUME ChangedTypes, CountTypes
  PROVE  /\ changed_pools = [pools_data |-> changed_pools.pools_data,
                             pools_count |-> changed_pools.pools_count]
         /\ changed_pools.pools_data \in Fields
         /\ changed_pools.pools_count \in 0 .. 3 * orders /\ changed_pools.pools_count \in Nat
         /\ orders \in Nat
<1>1. orders \in Nat
  BY BoundsAssumption DEF CountTypes
<1> DEFINE top == 3 * orders
<1>2. top \in Nat
  BY <1>1
<1>3. changed_pools \in [pools_data : Fields, pools_count : 0 .. top]
  BY DEF ChangedTypes
<1> HIDE DEF top
<1>4. /\ changed_pools = [pools_data |-> changed_pools.pools_data,
                          pools_count |-> changed_pools.pools_count]
      /\ changed_pools.pools_data \in Fields
      /\ changed_pools.pools_count \in 0 .. top
  BY <1>3
<1>5. changed_pools.pools_count \in Nat
  BY <1>2, <1>4
<1> QED
  BY <1>1, <1>4, <1>5 DEF top

\* The fields of a pool that is not there.
LEMMA FieldsOfStrings ==
  ASSUME NEW a \in Text
  PROVE  <<a, a, a, a>> \in [1 .. 4 -> Text] /\ <<a, a, a>> \in [1 .. 3 -> Text]
<1>1. <<a, a, a, a>> \in [1 .. 4 -> Text]
  OBVIOUS
<1>2. <<a, a, a>> \in [1 .. 3 -> Text]
  OBVIOUS
<1> QED
  BY <1>1, <1>2

\* Globals that are zeroed are typed.
LEMMA NothingTypes ==
  NoChange \in [pools_data : Fields, pools_count : {0}] /\ NoConf \in Confs
<1>1. <<Empty, Empty, Empty, Empty>> \in [1 .. 4 -> Text] /\ <<Empty, Empty, Empty>> \in [1 .. 3 -> Text]
  BY TextAssumption, FieldsOfStrings
<1>2. NoData \in Fields /\ [k \in 1 .. 3 |-> <<Empty, Empty, Empty>>] \in Pools
  BY <1>1 DEF NoData, Fields, Pools
<1>3. NoChange \in [pools_data : Fields, pools_count : {0}]
  BY <1>2 DEF NoChange
<1>4. FALSE \in BOOLEAN
  OBVIOUS
<1>5. NoConf \in Confs
  BY <1>2, <1>4 DEF NoConf, Confs, Pools
<1> QED
  BY <1>3, <1>5

\* The invariant holds at the start.
LEMMA PoolsInvInit == Init => PoolsInv
<1> SUFFICES ASSUME Init PROVE PoolsInv
  OBVIOUS
<1>1. conf_file \in Files
  <2>1. PICK c \in FirstConfs : conf_file = <<c>>
    BY DEF Init
  <2>2. c \in Confs
    BY ConfsAssumption
  <2> QED
    BY <2>1, <2>2, FileTypes
<1>2. ChangedTypes
  <2>1. NoChange.pools_data \in Fields /\ NoChange.pools_count = 0
        /\ NoChange = [pools_data |-> NoChange.pools_data, pools_count |-> NoChange.pools_count]
    BY NothingTypes DEF NoChange
  <2>2. changed_pools = NoChange /\ orders = 0
    BY DEF Init
  <2>3. 0 \in 0 .. 3 * 0
    OBVIOUS
  <2> QED
    BY <2>1, <2>2, <2>3 DEF ChangedTypes
<1>3. script \in [{"daemon", "page"} -> {"none", "kill", "start"}]
  BY DEF Init, NoScript
<1>4. TypeInv
  <2>1. CountTypes
    BY BoundsAssumption DEF Init, CountTypes
  <2>2. RestTypes
    BY <1>1, <1>3, NothingTypes DEF Init, RestTypes
  <2> QED
    BY <1>2, <2>1, <2>2 DEF TypeInv
<1>5. Fresh /\ Steps
  BY DEF Init, Fresh, Steps
<1> QED
  BY <1>4, <1>5 DEF PoolsInv

\* An order, up to the fopen.
LEMMA WriteConfigStep ==
  ASSUME PoolsInv, NEW o \in Orders, WriteConfig(o)
  PROVE  PoolsInv'
<1>1. o \in PoolOrders
  BY OrdersArePools
<1>2. conf_file # <<>> /\ conf_file[1] \in Confs
  BY FileTypes DEF PoolsInv, TypeInv, RestTypes, WriteConfig, Readable
<1>3. /\ changed_pools.pools_data \in Fields
      /\ changed_pools.pools_count \in 0 .. 3 * orders /\ orders \in Nat
  BY ChangedParts DEF PoolsInv, TypeInv
<1>4. changed_pools.pools_count \in Nat
  BY ChangedParts DEF PoolsInv, TypeInv
<1>5. changed_pools' = rev_pools(changed_pools, o) /\ orders' = orders + 1
  BY DEF WriteConfig
<1>6. changed_pools' \in [pools_data : Fields, pools_count : 0 .. 3 * orders']
  <2>1. /\ changed_pools' = [pools_data |-> changed_pools'.pools_data,
                             pools_count |-> changed_pools'.pools_count]
        /\ changed_pools'.pools_data \in Fields
        /\ changed_pools'.pools_count
             \in changed_pools.pools_count .. changed_pools.pools_count + 3
    BY <1>1, <1>3, <1>4, <1>5, rev_poolsTypes
  <2>2. changed_pools'.pools_count \in 0 .. 3 * orders'
    BY <1>3, <1>5, <2>1
  <2> QED
    BY <2>1, <2>2
<1>7. get_cgminer_conf' \in Confs
  <2>1. changed_pools'.pools_data \in Fields
    BY <1>6
  <2>2. get_cgminer_conf' = creat_newpools(changed_pools', conf_file[1])
    BY DEF WriteConfig, save_old_conf
  <2> QED
    BY <1>2, <2>1, <2>2, creat_newpoolsTypes
<1>8. TypeInv'
  <2>1. <<>> \in Files
    BY DEF Files
  <2>2. CountTypes'
    BY BoundsAssumption DEF PoolsInv, TypeInv, CountTypes, WriteConfig
  <2>3. ChangedTypes'
    BY <1>6 DEF ChangedTypes
  <2>4. RestTypes'
    BY <1>7, <2>1 DEF PoolsInv, TypeInv, RestTypes, WriteConfig
  <2> QED
    BY <2>2, <2>3, <2>4 DEF TypeInv
<1>9. Fresh' /\ Steps'
  BY DEF WriteConfig, Fresh, Steps
<1> QED
  BY <1>8, <1>9 DEF PoolsInv

\* The rest of what the daemon does.
LEMMA DaemonStep == PoolsInv /\ Daemon => PoolsInv'
<1> SUFFICES ASSUME PoolsInv, Daemon PROVE PoolsInv'
  OBVIOUS
<1>1. CASE \E o \in Orders : WriteConfig(o)
  BY <1>1, WriteConfigStep
<1>2. CASE \E o \in Orders : ConfigFaults(o)
  <2> PICK o \in Orders : ConfigFaults(o)
    BY <1>2
  <2>1. CountTypes' /\ orders' = orders + 1
    BY BoundsAssumption DEF PoolsInv, TypeInv, CountTypes, ConfigFaults
  <2>2. ChangedTypes'
    <3>1. /\ changed_pools = [pools_data |-> changed_pools.pools_data,
                              pools_count |-> changed_pools.pools_count]
          /\ changed_pools.pools_data \in Fields
          /\ changed_pools.pools_count \in 0 .. 3 * orders /\ orders \in Nat
      BY ChangedParts DEF PoolsInv, TypeInv
    <3>2. changed_pools.pools_count \in 0 .. 3 * orders'
      BY <2>1, <3>1
    <3>3. changed_pools' = changed_pools
      BY DEF ConfigFaults
    <3> QED
      BY <3>1, <3>2, <3>3 DEF ChangedTypes
  <2>3. TypeInv'
    BY <2>1, <2>2 DEF PoolsInv, TypeInv, RestTypes, ConfigFaults
  <2>4. Fresh' /\ Steps'
    BY DEF PoolsInv, Fresh, Steps, ConfigFaults
  <2> QED
    BY <2>3, <2>4 DEF PoolsInv
<1>3. CASE create_conf
  <2>1. /\ conf_file' = <<get_cgminer_conf>> /\ get_cgminer_conf \in Confs
        /\ script' = [script EXCEPT !["daemon"] = "kill"]
    BY <1>3 DEF create_conf, PoolsInv, TypeInv, RestTypes
  <2>2. conf_file' \in Files /\ conf_file' # <<>>
    BY <2>1, FileTypes
  <2>3. script' \in [{"daemon", "page"} -> {"none", "kill", "start"}] /\ script'["daemon"] = "kill"
    BY <2>1 DEF PoolsInv, TypeInv, RestTypes
  <2>4. TypeInv'
    BY <1>3, <2>2, <2>3, TypesKept DEF PoolsInv, TypeInv, RestTypes, create_conf, daemon_vars
  <2>5. Fresh' /\ Steps'
    BY <1>3, <2>2, <2>3 DEF PoolsInv, Fresh, Steps, create_conf, daemon_vars
  <2> QED
    BY <2>4, <2>5 DEF PoolsInv
<1>4. CASE Restarted
  <2>1. TypeInv'
    BY <1>4, TypesKept DEF PoolsInv, TypeInv, RestTypes, Restarted
  <2>2. Fresh' /\ Steps'
    BY <1>4 DEF PoolsInv, Fresh, Steps, Restarted
  <2> QED
    BY <2>1, <2>2 DEF PoolsInv
<1>5. CASE TryAgain
  <2>1. TypeInv'
    BY <1>5, TypesKept DEF PoolsInv, TypeInv, RestTypes, TryAgain
  <2>2. Fresh' /\ Steps'
    BY <1>5 DEF PoolsInv, TypeInv, RestTypes, Fresh, Steps, TryAgain
  <2> QED
    BY <2>1, <2>2 DEF PoolsInv
<1>6. CASE RestartResult
  <2>1. TypeInv'
    BY <1>6, TypesKept DEF PoolsInv, TypeInv, RestTypes, Steps, RestartResult
  <2>2. Fresh' /\ Steps'
    BY <1>6 DEF PoolsInv, Fresh, Steps, RestartResult
  <2> QED
    BY <2>1, <2>2 DEF PoolsInv
<1>7. CASE RestartUntried
  <2>1. TypeInv'
    BY <1>7, TypesKept DEF PoolsInv, TypeInv, RestTypes, RestartUntried
  <2>2. Fresh' /\ Steps'
    BY <1>7 DEF PoolsInv, Fresh, Steps, RestartUntried
  <2> QED
    BY <2>1, <2>2 DEF PoolsInv
<1> QED
  BY <1>1, <1>2, <1>3, <1>4, <1>5, <1>6, <1>7 DEF Daemon

\* The scripts, monitorcg and cgminer.
LEMMA CgminerStep == PoolsInv /\ Cgminer => PoolsInv'
<1> SUFFICES ASSUME PoolsInv, Cgminer PROVE PoolsInv'
  OBVIOUS
<1>1. ASSUME NEW s \in {"daemon", "page"}, do_stop(s) PROVE PoolsInv'
  <2>1. script' \in [{"daemon", "page"} -> {"none", "kill", "start"}]
    BY <1>1 DEF PoolsInv, TypeInv, RestTypes, do_stop
  <2>2. script["daemon"] = "none" => script'["daemon"] = "none"
    BY <1>1 DEF PoolsInv, TypeInv, RestTypes, do_stop
  <2>3. <<>> \in Files
    BY DEF Files
  <2>4. TypeInv'
    BY <1>1, <2>1, <2>3, TypesKept DEF PoolsInv, TypeInv, RestTypes, do_stop, daemon_vars
  <2>5. Fresh' /\ Steps'
    BY <1>1, <2>2 DEF PoolsInv, Fresh, Steps, do_stop, daemon_vars
  <2> QED
    BY <2>4, <2>5 DEF PoolsInv
<1>2. ASSUME NEW s \in {"daemon", "page"}, do_start(s) PROVE PoolsInv'
  <2>1. script' \in [{"daemon", "page"} -> {"none", "kill", "start"}]
    BY <1>2 DEF PoolsInv, TypeInv, RestTypes, do_start
  <2>2. /\ script["daemon"] = "none" => script'["daemon"] = "none"
        /\ \A t \in {"daemon", "page"} : script[t] = "kill" => script'[t] = "kill"
    BY <1>2 DEF PoolsInv, TypeInv, RestTypes, do_start
  <2>3. TypeInv'
    BY <1>2, <2>1, TypesKept DEF PoolsInv, TypeInv, RestTypes, do_start, daemon_vars
  <2>4. Fresh' /\ Steps'
    BY <1>2, <2>2 DEF PoolsInv, Fresh, Steps, do_start, daemon_vars
  <2> QED
    BY <2>3, <2>4 DEF PoolsInv
<1>3. CASE MonitorStarts
  <2>1. TypeInv'
    BY <1>3, TypesKept DEF PoolsInv, TypeInv, RestTypes, MonitorStarts, daemon_vars
  <2>2. Fresh' /\ Steps'
    BY <1>3 DEF PoolsInv, Fresh, Steps, MonitorStarts, daemon_vars
  <2> QED
    BY <2>1, <2>2 DEF PoolsInv
<1>4. CASE CgminerRuns
  <2>1. TypeInv'
    BY <1>4, TypesKept DEF PoolsInv, TypeInv, RestTypes, CgminerRuns, daemon_vars
  <2>2. Fresh' /\ Steps'
    BY <1>4 DEF PoolsInv, Fresh, Steps, CgminerRuns, daemon_vars
  <2> QED
    BY <2>1, <2>2 DEF PoolsInv
<1> QED
  BY <1>1, <1>2, <1>3, <1>4 DEF Cgminer

\* What is around them.
LEMMA AroundStep == PoolsInv /\ Around => PoolsInv'
<1> SUFFICES ASSUME PoolsInv, Around PROVE PoolsInv'
  OBVIOUS
<1>1. CASE Kill
  <2>1. TypeInv'
    <3>1. CountTypes'
      BY <1>1, BoundsAssumption DEF PoolsInv, TypeInv, CountTypes, Kill
    <3> QED
      BY <1>1, <3>1, TypesKept DEF PoolsInv, TypeInv, RestTypes, Kill, daemon_vars
  <2>2. Fresh' /\ Steps'
    BY <1>1 DEF PoolsInv, Fresh, Steps, Kill, daemon_vars
  <2> QED
    BY <2>1, <2>2 DEF PoolsInv
<1>2. CASE Restart
  <2>1. ChangedTypes'
    <3>1. NoChange.pools_data \in Fields /\ NoChange.pools_count = 0
          /\ NoChange = [pools_data |-> NoChange.pools_data, pools_count |-> NoChange.pools_count]
      BY NothingTypes DEF NoChange
    <3>2. changed_pools' = NoChange /\ orders' = orders /\ orders \in Nat
      BY <1>2, ChangedParts DEF Restart, PoolsInv, TypeInv
    <3>3. 0 \in 0 .. 3 * orders'
      BY <3>2
    <3> QED
      BY <3>1, <3>2, <3>3 DEF ChangedTypes
  <2>2. TypeInv'
    BY <1>2, <2>1, NothingTypes, TypesKept DEF PoolsInv, TypeInv, RestTypes, Restart
  <2>3. Fresh' /\ Steps'
    BY <1>2 DEF PoolsInv, Fresh, Steps, Restart
  <2> QED
    BY <2>2, <2>3 DEF PoolsInv
<1>3. ASSUME NEW c \in WebConfs, WebSave(c) PROVE PoolsInv'
  <2>1. conf_file' \in Files /\ conf_file' # <<>>
    <3>1. c \in Confs /\ conf_file' = <<c>>
      BY <1>3, ConfsAssumption DEF WebSave
    <3> QED
      BY <3>1, FileTypes
  <2>2. /\ script' \in [{"daemon", "page"} -> {"none", "kill", "start"}]
        /\ script'["page"] = "kill" /\ script'["daemon"] = script["daemon"]
    BY <1>3 DEF PoolsInv, TypeInv, RestTypes, WebSave
  <2>3. TypeInv'
    <3>1. CountTypes'
      BY <1>3, BoundsAssumption DEF PoolsInv, TypeInv, CountTypes, WebSave
    <3> QED
      BY <1>3, <2>1, <2>2, <3>1, TypesKept DEF PoolsInv, TypeInv, RestTypes, WebSave, daemon_vars
  <2>4. Fresh' /\ Steps'
    BY <1>3, <2>1, <2>2 DEF PoolsInv, Fresh, Steps, WebSave, daemon_vars
  <2> QED
    BY <2>3, <2>4 DEF PoolsInv
<1> QED
  BY <1>1, <1>2, <1>3 DEF Around

\* Every step keeps it.
LEMMA PoolsInvStep == PoolsInv /\ [Next]_vars => PoolsInv'
<1>1. PoolsInv /\ UNCHANGED vars => PoolsInv'
  BY TypesKept DEF PoolsInv, TypeInv, RestTypes, Fresh, Steps, vars, daemon_vars
<1> QED
  BY <1>1, DaemonStep, CgminerStep, AroundStep DEF Next

\* Every variable keeps to its type: rev_pools' counter stays at three for each
\* order, and whatever fields an order leaves empty, what creat_newpools makes of
\* it is a file of three pools.
THEOREM PoolsTypes == Spec => []TypeOK
<1>1. PoolsInv => TypeOK
  <2> SUFFICES ASSUME PoolsInv PROVE TypeOK
    OBVIOUS
  <2>1. changed_pools \in Changes
    <3>1. /\ changed_pools = [pools_data |-> changed_pools.pools_data,
                              pools_count |-> changed_pools.pools_count]
          /\ changed_pools.pools_data \in Fields
          /\ changed_pools.pools_count \in 0 .. 3 * orders /\ orders \in 0 .. MaxOrders
      BY ChangedParts DEF PoolsInv, TypeInv, CountTypes
    <3>2. changed_pools.pools_count \in 0 .. 3 * MaxOrders
      BY <3>1, BoundsAssumption
    <3> QED
      BY <3>1, <3>2 DEF Changes, Fields
  <2> QED
    BY <2>1 DEF PoolsInv, TypeInv, CountTypes, RestTypes, TypeOK
<1> QED
  BY <1>1, PoolsInvInit, PoolsInvStep, PTL DEF Spec

\* "S" is said when cgminer runs with the file as it is, or the page is about to
\* restart it: a save, a restart or monitorcg in the meantime does not change that.
THEOREM SuccessRuns == Spec => SuccessMeansRunning
<1>1. PoolsInv /\ [Next]_vars
        => [pc = "connect" /\ answer' = "S" => running = conf_file \/ script["page"] # "none"]_vars
  <2> SUFFICES ASSUME PoolsInv, Next, pc = "connect", answer' = "S"
               PROVE  running = conf_file \/ script["page"] # "none"
    BY DEF vars
  <2>1. answer = "none" /\ conf_file # <<>> /\ script["daemon"] = "none" /\ i \in Int
    <3>1. -1 \in Int /\ \A n \in -1 .. 6 : n \in Int
      OBVIOUS
    <3> QED
      BY <3>1 DEF PoolsInv, TypeInv, RestTypes, Steps
  <2>2. RestartResult
    BY <2>1 DEF Next, Daemon, Cgminer, Around, WriteConfig, ConfigFaults, create_conf, Restarted,
                RestartUntried, TryAgain, do_stop, do_start, MonitorStarts, CgminerRuns, Kill, Restart, WebSave,
                daemon_vars
  <2>3. cgminer = "up"
    BY <2>1, <2>2 DEF RestartResult
  <2> QED
    BY <2>1, <2>3 DEF PoolsInv, Fresh
<1> QED
  BY <1>1, PoolsInvInit, PoolsInvStep, PTL DEF Spec, SuccessMeansRunning

\* The pools of an order, one by one, come to what it asks for.
LEMMA AskedIsMade ==
  ASSUME NEW o \in PoolOrders, WellFormed(o), NEW change, NEW pools \in Pools,
         \A k \in 1 .. Len(o) : change.pools_data[k] = o[k], change.pools_count = Len(o)
  PROVE  NewPools(change, pools) = Asked(o, pools)
<1>1. Len(o) \in 1 .. 3 /\ o \in Seq([1 .. 4 -> Text])
  BY DEF PoolOrders
<1>2. DOMAIN o = 1 .. Len(o) /\ \A k \in 1 .. Len(o) : o[k] \in [1 .. 4 -> Text]
  BY <1>1
<1> DEFINE At(k) == atoi(o[k][1]) + 1
           Part(k) == SubSeq(o[k], 2, 4)
<1>3. \A k \in 1 .. Len(o) : At(k) \in 1 .. 3 /\ Part(k) \in [1 .. 3 -> Text]
  <2>1. ASSUME NEW k \in 1 .. Len(o) PROVE At(k) \in 1 .. 3 /\ Part(k) \in [1 .. 3 -> Text]
    <3>1. o[k][1] \in {"0", "1", "2"}
      BY <1>2 DEF WellFormed
    <3> QED
      BY <1>2, <3>1, SubSeqOfFields DEF atoi
  <2> QED
    BY <2>1
<1>4. /\ \A k, l \in 1 .. Len(o) : At(k) = At(l) => k = l
      /\ Len(o) = 3 => \A k \in 1 .. 3 : At(k) = k
  <2>1. \A k \in 1 .. Len(o) : o[k][1] \in {"0", "1", "2"}
    BY <1>2 DEF WellFormed
  <2>2. \A k, l \in 1 .. Len(o) : At(k) = At(l) => o[k][1] = o[l][1]
    BY <2>1 DEF atoi
  <2>3. \A k, l \in 1 .. Len(o) : o[k][1] = o[l][1] => k = l
    BY <1>2 DEF WellFormed
  <2>4. Len(o) = 3 => \A k \in 1 .. 3 : atoi(o[k][1]) = k - 1
    BY DEF WellFormed
  <2>5. Len(o) = 3 => \A k \in 1 .. 3 : At(k) = k
    BY <2>4
  <2> HIDE DEF At
  <2> QED
    BY <2>2, <2>3, <2>5
<1>5. /\ Asked(o, pools) = [p \in 1 .. 3 |-> Asked(o, pools)[p]]
      /\ \A p \in 1 .. 3 : \/ \E k \in 1 .. Len(o) : At(k) = p /\ Asked(o, pools)[p] = Part(k)
                           \/ /\ \A k \in 1 .. Len(o) : At(k) # p
                              /\ Asked(o, pools)[p] = pools[p]
  <2>1. Asked(o, pools) = [p \in 1 .. 3 |-> Asked(o, pools)[p]]
    BY DEF Asked
  <2>2. ASSUME NEW p \in 1 .. 3
        PROVE  \/ \E k \in 1 .. Len(o) : At(k) = p /\ Asked(o, pools)[p] = Part(k)
               \/ (\A k \in 1 .. Len(o) : At(k) # p) /\ Asked(o, pools)[p] = pools[p]
    <3> DEFINE is(k) == atoi(o[k][1]) = p - 1
    <3>1. \A k : is(k) <=> At(k) = p
      <4>1. \A k : atoi(o[k][1]) \in Int
        BY DEF atoi
      <4> QED
        BY <4>1
    <3>2. CASE \E k \in DOMAIN o : is(k)
      <4>1. PICK l \in DOMAIN o : is(l) /\ l = CHOOSE k \in DOMAIN o : is(k)
        BY <3>2
      <4>2. Asked(o, pools)[p] = Part(l)
        BY <3>2, <4>1 DEF Asked
      <4>3. At(l) = p /\ l \in 1 .. Len(o)
        BY <1>2, <3>1, <4>1
      <4> HIDE DEF At, Part
      <4> QED
        BY <4>2, <4>3
    <3>3. CASE ~ \E k \in DOMAIN o : is(k)
      <4>1. Asked(o, pools)[p] = pools[p]
        BY <3>3 DEF Asked
      <4> HIDE DEF At, is
      <4> QED
        BY <1>2, <3>1, <3>3, <4>1
    <3> QED
      BY <3>2, <3>3
  <2> HIDE DEF At, Part
  <2> QED
    BY <2>1, <2>2
<1>6. \A q \in Pools : \A k \in 1 .. Len(o) : SetPool(q, o[k]) = [q EXCEPT ![At(k)] = Part(k)]
  BY DEF SetPool, Pools
<1>7. /\ pools = [p \in 1 .. 3 |-> pools[p]]
      /\ \A k \in 1 .. Len(o) : [pools EXCEPT ![At(k)] = Part(k)] \in Pools
  <2> HIDE DEF At, Part
  <2> QED
    BY <1>3 DEF Pools
<1> HIDE DEF At, Part
<1>8. CASE Len(o) = 1
  <2>1. NewPools(change, pools) = SetPool(pools, o[1])
    BY <1>8 DEF NewPools
  <2>2. NewPools(change, pools) = [pools EXCEPT ![At(1)] = Part(1)]
    BY <1>6, <1>8, <2>1
  <2>3. \A p \in 1 .. 3 : [pools EXCEPT ![At(1)] = Part(1)][p] = Asked(o, pools)[p]
    BY <1>3, <1>5, <1>7, <1>8
  <2> QED
    BY <1>5, <1>7, <2>2, <2>3
<1>9. CASE Len(o) = 2
  <2>1. NewPools(change, pools) = SetPool(SetPool(pools, o[1]), o[2])
    BY <1>9 DEF NewPools
  <2>2. NewPools(change, pools) = [[pools EXCEPT ![At(1)] = Part(1)] EXCEPT ![At(2)] = Part(2)]
    <3>1. 1 \in 1 .. Len(o) /\ 2 \in 1 .. Len(o)
      BY <1>9
    <3>2. SetPool(pools, o[1]) = [pools EXCEPT ![At(1)] = Part(1)]
      BY <1>6, <3>1
    <3> DEFINE q == [pools EXCEPT ![At(1)] = Part(1)]
    <3>3. q \in Pools
      BY <1>7, <3>1
    <3>4. NewPools(change, pools) = SetPool(q, o[2])
      BY <2>1, <3>2
    <3> HIDE DEF q
    <3>5. NewPools(change, pools) = [q EXCEPT ![At(2)] = Part(2)]
      BY <1>6, <3>1, <3>3, <3>4
    <3> QED
      BY <3>5 DEF q
  <2>3. At(1) \in 1 .. 3 /\ At(2) \in 1 .. 3 /\ At(1) # At(2)
    BY <1>3, <1>4, <1>9
  <2>4. \A p \in 1 .. 3 :
          Asked(o, pools)[p] = IF p = At(1) THEN Part(1) ELSE IF p = At(2) THEN Part(2) ELSE pools[p]
    <3>1. \A k \in 1 .. Len(o) : k = 1 \/ k = 2
      BY <1>9
    <3>2. 1 \in 1 .. Len(o) /\ 2 \in 1 .. Len(o)
      BY <1>9
    <3> QED
      BY <1>5, <2>3, <3>1, <3>2
  <2>5. \A p \in 1 .. 3 :
          [[pools EXCEPT ![At(1)] = Part(1)] EXCEPT ![At(2)] = Part(2)][p]
            = IF p = At(1) THEN Part(1) ELSE IF p = At(2) THEN Part(2) ELSE pools[p]
    BY <1>7, <2>3
  <2>6. NewPools(change, pools) = [p \in 1 .. 3 |-> NewPools(change, pools)[p]]
    BY <1>7, <2>2
  <2>7. \A p \in 1 .. 3 : NewPools(change, pools)[p] = Asked(o, pools)[p]
    BY <2>2, <2>4, <2>5
  <2> QED
    BY <1>5, <2>6, <2>7
<1>10. CASE Len(o) = 3
  <2>1. NewPools(change, pools) = [k \in 1 .. 3 |-> SubSeq(change.pools_data[k], 2, 4)]
    BY <1>10 DEF NewPools
  <2>2. \A k \in 1 .. 3 : SubSeq(change.pools_data[k], 2, 4) = Part(k)
    BY <1>10 DEF Part
  <2>3. \A p \in 1 .. 3 : Asked(o, pools)[p] = Part(p)
    BY <1>4, <1>5, <1>10
  <2> QED
    BY <1>5, <2>1, <2>2, <2>3
<1> QED
  BY <1>1, <1>8, <1>9, <1>10

\* A daemon's first order that is well formed is applied as it asks: each pool it
\* names is replaced by what it says, and no other is.
THEOREM FirstOrderIsApplied == Spec => FirstOrderApplied
<1>1. PoolsInv /\ [Next]_vars
        => [Writes /\ changed_pools = NoChange /\ WellFormed(order')
            => get_cgminer_conf'.pools = Asked(order', conf_file[1].pools)]_vars
  <2> SUFFICES ASSUME PoolsInv, Next, Writes, changed_pools = NoChange, WellFormed(order')
               PROVE  get_cgminer_conf'.pools = Asked(order', conf_file[1].pools)
    BY DEF vars
  <2>1. PICK o \in Orders : WriteConfig(o)
    BY DEF Next, Daemon, Cgminer, Around, ConfigFaults, create_conf, Restarted,
           RestartUntried, TryAgain, RestartResult, do_stop, do_start, MonitorStarts, CgminerRuns, Kill, Restart, WebSave, Writes
  <2>2. o \in PoolOrders /\ WellFormed(o) /\ order' = o
    BY <2>1, OrdersArePools DEF WriteConfig
  <2>3. conf_file # <<>> /\ conf_file[1] \in Confs
    BY <2>1, FileTypes DEF PoolsInv, TypeInv, RestTypes, WriteConfig, Readable
  <2> DEFINE change == rev_pools(changed_pools, o)
  <2>4. /\ changed_pools.pools_data \in Fields /\ changed_pools.pools_count = 0
        /\ 0 \in Nat
    BY NothingTypes DEF NoChange
  <2>5. change.pools_data \in Fields
    BY <2>2, <2>4, rev_poolsTypes
  <2>6. /\ \A k \in 1 .. Len(o) : change.pools_data[k] = o[k]
        /\ change.pools_count = 0 + Len(o)
    BY <2>2, <2>4, WellFormedFound
  <2>7. change.pools_count = Len(o)
    BY <2>2, <2>6 DEF PoolOrders
  <2>8. get_cgminer_conf' = creat_newpools(change, conf_file[1])
    BY <2>1 DEF WriteConfig, save_old_conf
  <2> HIDE DEF change
  <2>9. get_cgminer_conf'.pools = NewPools(change, conf_file[1].pools)
    BY <2>3, <2>5, <2>8, creat_newpoolsTypes
  <2>10. conf_file[1].pools \in Pools
    BY <2>3 DEF Confs, Pools
  <2> QED
    BY <2>2, <2>6, <2>7, <2>9, <2>10, AskedIsMade
<1> QED
  BY <1>1, PoolsInvInit, PoolsInvStep, PTL DEF Spec, FirstOrderApplied
=============================================================================
