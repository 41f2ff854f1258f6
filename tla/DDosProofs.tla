----------------------------- MODULE DDosProofs -----------------------------
(***************************************************************************)
(* Proofs about d-ddos, for any domains, backups and configurations: the   *)
(* types, among them that cgminer's priorities stay a numbering of its     *)
(* pools through every removal and reordering; that cgminer has one backup *)
(* at most more than were left in its list; and that a new one comes to    *)
(* stand before the pool it stands in for.                                 *)
(***************************************************************************)
EXTENDS DDos, MinTheorems, FiniteSetTheorems, TLAPS

Pool == [url : Domains \cup Backups, Priority : Nat]

\* Pools by number, with the priorities 0 to Len(ps) - 1, each once.
PoolsOK(ps) ==
  /\ ps \in Seq(Pool) /\ Len(ps) \in 1 .. MaxPools
  /\ \A n \in 1 .. Len(ps) : ps[n].Priority < Len(ps)
  /\ \A m, n \in 1 .. Len(ps) : ps[m].Priority = ps[n].Priority => m = n

MemoryTypes ==
  /\ {dead, down, moved, reach} \subseteq SUBSET (Domains \cup Backups)
  /\ pc \in {"idle", "reach", "remove", "reset", "again", "add", "prio", "dead"}
  /\ pool \in -1 .. MaxPools - 1 /\ ip \in Backups \cup {None}
  /\ pool = -1 <=> ip = None
  /\ pc = "remove" => pool >= 0
  /\ next \in Nat

CountTypes ==
  restarts \in 0 .. MaxRestarts /\ toggles \in 0 .. MaxToggles /\ left \in 0 .. MaxPools

TypeInv == PoolsOK(pools) /\ MemoryTypes /\ CountTypes

BackupsIn(ps) == {n \in 1 .. Len(ps) : ps[n].url \in Backups}
NumBackups == Cardinality(BackupsIn(pools))

\* The backup remembered is the last of cgminer's pools.
Remembered == pool + 1 = Len(pools) /\ pool >= 0 /\ pools[Len(pools)].url = ip

\* Beside it there are those that were left.  While it is one of the pools, the
\* list that was read shows it; and a process that adds one remembers none.
BackupsInv ==
  /\ NumBackups <= left + 1
  /\ ~ Remembered => NumBackups <= left
  /\ pool # -1 => pool >= 1
  /\ pc \in {"reset", "again", "add", "dead"} => pool = -1
  /\ Remembered /\ pc \in {"reach", "remove"}
       => Len(c_pools) = Len(pools) /\ c_pools[Len(pools)].url = ip

DDosInv == TypeInv /\ BackupsInv

-----------------------------------------------------------------------------
(* What cgminer makes of its pools *)

\* A sequence given by its members.
LEMMA SeqOfMembers ==
  ASSUME NEW S, NEW n \in Nat, NEW s, s \in [1 .. n -> S]
  PROVE  s \in Seq(S) /\ Len(s) = n /\ DOMAIN s = 1 .. n
OBVIOUS

\* A pool is its two fields.
LEMMA PoolFields ==
  ASSUME NEW p \in Pool
  PROVE  /\ p = [url |-> p.url, Priority |-> p.Priority]
         /\ p.url \in Domains \cup Backups /\ p.Priority \in Nat
         /\ \A k : [p EXCEPT !.Priority = k] = [url |-> p.url, Priority |-> k]
BY DEF Pool

\* A pool made of them.
LEMMA PoolOf ==
  ASSUME NEW url \in Domains \cup Backups, NEW k \in Nat
  PROVE  [url |-> url, Priority |-> k] \in Pool
BY DEF Pool

\* cgminer starts with a well-formed list, without a backup.
LEMMA StartedOK ==
  ASSUME NEW c \in Configs
  PROVE  PoolsOK(Started(c)) /\ BackupsIn(Started(c)) = {}
<1> DEFINE ps == Started(c)
<1>1. c \in Seq(Domains) /\ Len(c) \in 1 .. MaxPools /\ DOMAIN c = 1 .. Len(c)
  BY ConfigAssumption, BoundAssumption
<1>2. \A n \in 1 .. Len(c) : ps[n] = [url |-> c[n], Priority |-> n - 1]
  BY <1>1 DEF Started
<1>3. ASSUME NEW n \in 1 .. Len(c)
      PROVE  ps[n] \in Pool /\ ps[n].Priority = n - 1 /\ ps[n].url \in Domains
  <2>1. c[n] \in Domains /\ n - 1 \in Nat
    BY <1>1
  <2>2. [url |-> c[n], Priority |-> n - 1] \in Pool
    BY <2>1, PoolOf
  <2>3. ps[n] = [url |-> c[n], Priority |-> n - 1]
    BY <1>2
  <2> HIDE DEF ps
  <2> QED
    BY <2>1, <2>2, <2>3
<1>4. DOMAIN ps = 1 .. Len(c) /\ ps = [n \in 1 .. Len(c) |-> ps[n]]
  BY <1>1 DEF Started
<1> HIDE DEF ps
<1>5. ps \in [1 .. Len(c) -> Pool]
  BY <1>3, <1>4
<1>6. ps \in Seq(Pool) /\ Len(ps) = Len(c)
  BY <1>1, <1>5, SeqOfMembers
<1>7. PoolsOK(ps)
  BY <1>1, <1>3, <1>6 DEF PoolsOK
<1>8. BackupsIn(ps) = {}
  BY <1>3, <1>6, ListAssumption DEF BackupsIn
<1> QED
  BY <1>7, <1>8 DEF ps

\* A pool added goes to the end, with the next priority.
LEMMA AddedOK ==
  ASSUME PoolsOK(pools), NEW url \in Domains \cup Backups, Len(pools) < MaxPools
  PROVE  /\ PoolsOK(Added(url)) /\ Len(Added(url)) = Len(pools) + 1
         /\ \A n \in 1 .. Len(pools) : Added(url)[n] = pools[n]
         /\ Added(url)[Len(pools) + 1] = [url |-> url, Priority |-> Len(pools)]
<1> DEFINE new == [url |-> url, Priority |-> Len(pools)]
           ps == Added(url)
<1>1. pools \in Seq(Pool) /\ Len(pools) \in 1 .. MaxPools
  BY DEF PoolsOK
<1>2. new \in Pool /\ new.Priority = Len(pools)
  <2>1. Len(pools) \in Nat
    BY <1>1
  <2>2. new \in Pool
    BY <2>1, PoolOf
  <2> QED
    BY <2>2
<1>3. ps = Append(pools, new)
  BY DEF Added
<1>4. new = [url |-> url, Priority |-> Len(pools)]
  OBVIOUS
<1> HIDE DEF new, ps
<1>5. /\ ps \in Seq(Pool) /\ Len(ps) = Len(pools) + 1
      /\ \A n \in 1 .. Len(pools) : ps[n] = pools[n]
      /\ ps[Len(pools) + 1] = new
  BY <1>1, <1>2, <1>3
<1>6. \A n \in 1 .. Len(ps) : n \in 1 .. Len(pools) \/ n = Len(pools) + 1
  BY <1>1, <1>5
<1>7. \A n \in 1 .. Len(pools) : ps[n].Priority < Len(pools) /\ ps[n].Priority = pools[n].Priority
  BY <1>5 DEF PoolsOK
<1>8. Len(ps) \in 1 .. MaxPools
  BY <1>1, <1>5, BoundAssumption
<1>9. \A n \in 1 .. Len(ps) : ps[n].Priority < Len(ps)
  <2> SUFFICES ASSUME NEW n \in 1 .. Len(ps) PROVE ps[n].Priority < Len(ps)
    OBVIOUS
  <2>1. ps[n].Priority \in Nat
    BY <1>5, PoolFields
  <2>2. CASE n \in 1 .. Len(pools)
    BY <1>1, <1>5, <1>7, <2>1, <2>2
  <2>3. CASE n = Len(pools) + 1
    BY <1>1, <1>2, <1>5, <2>3
  <2> QED
    BY <1>6, <2>2, <2>3
<1>10. \A m, n \in 1 .. Len(ps) : ps[m].Priority = ps[n].Priority => m = n
  <2> SUFFICES ASSUME NEW m \in 1 .. Len(ps), NEW n \in 1 .. Len(ps), ps[m].Priority = ps[n].Priority
               PROVE  m = n
    OBVIOUS
  <2>1. CASE m \in 1 .. Len(pools) /\ n \in 1 .. Len(pools)
    BY <1>7, <2>1 DEF PoolsOK
  <2>2. CASE m \notin 1 .. Len(pools) \/ n \notin 1 .. Len(pools)
    BY <1>1, <1>2, <1>5, <1>6, <1>7, <2>2
  <2> QED
    BY <2>1, <2>2
<1>11. PoolsOK(ps)
  BY <1>5, <1>8, <1>9, <1>10 DEF PoolsOK
<1> QED
  BY <1>4, <1>5, <1>11 DEF ps

\* removepool: the numbers and priorities that are left close the gap.
LEMMA RemovedOK ==
  ASSUME PoolsOK(pools), Len(pools) > 1, NEW n \in 0 .. Len(pools) - 1
  PROVE  /\ PoolsOK(Removed(n)) /\ Len(Removed(n)) = Len(pools) - 1
         /\ \A m \in 1 .. Len(pools) - 1 :
              Removed(n)[m].url = pools[IF m <= n THEN m ELSE m + 1].url
<1> DEFINE L == Len(pools)
           Old(m) == pools[IF m <= n THEN m ELSE m + 1]
           gone == pools[n + 1].Priority
           Prio(m) == IF Old(m).Priority > gone THEN Old(m).Priority - 1 ELSE Old(m).Priority
           ps == Removed(n)
<1>1. pools \in Seq(Pool) /\ L \in Nat /\ L > 1 /\ L <= MaxPools
  BY BoundAssumption DEF PoolsOK
<1>2. \A m \in 1 .. L : pools[m].Priority \in Nat /\ pools[m].Priority < L /\ pools[m] \in Pool
  BY <1>1, PoolFields DEF PoolsOK
<1>3. n + 1 \in 1 .. L /\ gone \in Nat /\ gone < L
  BY <1>1, <1>2
<1>4. ASSUME NEW m \in 1 .. L - 1
      PROVE  /\ Old(m) \in Pool /\ Old(m).Priority \in Nat /\ Old(m).Priority < L
             /\ Old(m).Priority # gone
             /\ Prio(m) \in Nat /\ Prio(m) < L - 1
  <2> DEFINE k == IF m <= n THEN m ELSE m + 1
  <2>1. k \in 1 .. L /\ k # n + 1 /\ Old(m) = pools[k]
    BY <1>1, <1>3
  <2> HIDE DEF k
  <2>2. pools[k].Priority # gone
    BY <1>1, <1>3, <2>1 DEF PoolsOK
  <2>3. pools[k] \in Pool /\ pools[k].Priority \in Nat /\ pools[k].Priority < L
    BY <1>2, <2>1
  <2> DEFINE q == pools[k].Priority
  <2>4. Prio(m) = IF q > gone THEN q - 1 ELSE q
    BY <2>1
  <2>5. Old(m).Priority = q
    BY <2>1
  <2> HIDE DEF q, gone, L, Prio, Old
  <2>6. q \in Nat /\ q < L /\ q # gone
    BY <2>2, <2>3 DEF q
  <2> QED
    BY <1>1, <1>3, <2>1, <2>3, <2>4, <2>5, <2>6
<1>5. ASSUME NEW a \in 1 .. L - 1, NEW b \in 1 .. L - 1, Prio(a) = Prio(b)
      PROVE  a = b
  <2> DEFINE k == IF a <= n THEN a ELSE a + 1
             j == IF b <= n THEN b ELSE b + 1
  <2>1. k \in 1 .. L /\ j \in 1 .. L /\ Old(a) = pools[k] /\ Old(b) = pools[j]
    BY <1>1, <1>3
  <2>2. Old(a).Priority = Old(b).Priority
    <3>1. /\ Old(a).Priority \in Nat /\ Old(b).Priority \in Nat
          /\ Old(a).Priority # gone /\ Old(b).Priority # gone
      BY <1>4
    <3>2. Prio(a) = Prio(b)
      BY <1>5
    <3> DEFINE x == Old(a).Priority
               y == Old(b).Priority
    <3>3. (IF x > gone THEN x - 1 ELSE x) = (IF y > gone THEN y - 1 ELSE y)
      BY <3>2
    <3> HIDE DEF x, y, gone, Prio, Old
    <3>4. x \in Nat /\ y \in Nat /\ x # gone /\ y # gone /\ gone \in Nat
      BY <1>3, <3>1 DEF x, y
    <3>5. x = y
      BY <3>3, <3>4
    <3> QED
      BY <3>5 DEF x, y
  <2>3. k = j
    BY <2>1, <2>2 DEF PoolsOK
  <2> QED
    BY <2>3
<1>6. /\ DOMAIN ps = 1 .. L - 1 /\ ps = [m \in 1 .. L - 1 |-> ps[m]]
      /\ \A m \in 1 .. L - 1 : ps[m] = [Old(m) EXCEPT !.Priority = Prio(m)]
  BY DEF Removed
<1>7. ASSUME NEW m \in 1 .. L - 1
      PROVE  ps[m] \in Pool /\ ps[m].Priority = Prio(m) /\ ps[m].url = Old(m).url
  <2>1. ps[m] = [Old(m) EXCEPT !.Priority = Prio(m)] /\ Old(m) \in Pool /\ Prio(m) \in Nat
    BY <1>4, <1>6
  <2> HIDE DEF ps, Old, Prio
  <2>2. ps[m] = [url |-> Old(m).url, Priority |-> Prio(m)]
    BY <2>1, PoolFields
  <2> QED
    BY <2>1, <2>2, PoolOf, PoolFields
<1> HIDE DEF ps, Old, Prio, gone
<1>8. ps \in [1 .. L - 1 -> Pool] /\ L - 1 \in Nat
  BY <1>1, <1>6, <1>7
<1>9. ps \in Seq(Pool) /\ Len(ps) = L - 1
  BY <1>8, SeqOfMembers
<1>10. PoolsOK(ps)
  <2>1. Len(ps) \in 1 .. MaxPools
    BY <1>1, <1>9, BoundAssumption
  <2>2. \A m \in 1 .. Len(ps) : ps[m].Priority < Len(ps)
    BY <1>4, <1>7, <1>9
  <2>3. \A a, b \in 1 .. Len(ps) : ps[a].Priority = ps[b].Priority => a = b
    BY <1>5, <1>7, <1>9
  <2> QED
    BY <1>9, <2>1, <2>2, <2>3 DEF PoolsOK
<1> QED
  BY <1>7, <1>9, <1>10 DEF ps, Old

\* poolpriority: whatever is asked for, the priorities stay a numbering, and
\* nothing else of the pools changes.
LEMMA OrderedOK ==
  ASSUME PoolsOK(pools), NEW k \in Nat, NEW list \in [1 .. k -> Int]
  PROVE  /\ PoolsOK(Ordered(list)) /\ Len(Ordered(list)) = Len(pools)
         /\ \A n \in 1 .. Len(pools) : Ordered(list)[n].url = pools[n].url
<1> DEFINE L == Len(pools)
           Named == {list[j] : j \in DOMAIN list}
           Place(n) == (CHOOSE j \in DOMAIN list : list[j] = n) - 1
           Before(n) == {m \in DOMAIN pools : m - 1 \notin Named
                                                /\ pools[m].Priority < pools[n + 1].Priority}
           Prio(n) == IF n - 1 \in Named THEN Place(n - 1)
                      ELSE k + Cardinality(Before(n - 1))
           ps == Ordered(list)
<1>1. /\ pools \in Seq(Pool) /\ DOMAIN pools = 1 .. L /\ L \in Nat /\ L \in 1 .. MaxPools
      /\ \A n \in 1 .. L : pools[n] \in Pool /\ pools[n].Priority \in Nat
  BY BoundAssumption, PoolFields DEF PoolsOK
<1>2. Len(list) = k /\ DOMAIN list = 1 .. k
  BY SeqOfMembers
<1>3. CASE ~ (Named \subseteq 0 .. Len(pools) - 1 /\ Cardinality(Named) = Len(list))
  <2>1. ps = pools
    BY <1>3 DEF Ordered
  <2> QED
    BY <2>1
<1>4. CASE Named \subseteq 0 .. Len(pools) - 1 /\ Cardinality(Named) = Len(list)
  <2>1. /\ DOMAIN ps = 1 .. L /\ ps = [n \in 1 .. L |-> ps[n]]
        /\ \A n \in 1 .. L : ps[n] = [pools[n] EXCEPT !.Priority = Prio(n)]
    BY <1>1, <1>2, <1>4 DEF Ordered
  <2>2. ASSUME NEW n \in Named
        PROVE  Place(n) \in 0 .. k - 1 /\ list[Place(n) + 1] = n
    <3>1. \E j \in 1 .. k : list[j] = n
      BY <1>2
    <3>2. (CHOOSE j \in 1 .. k : list[j] = n) \in 1 .. k /\ list[CHOOSE j \in 1 .. k : list[j] = n] = n
      BY <3>1
    <3> QED
      BY <1>2, <3>2
  <2> DEFINE N1 == {m \in 1 .. L : m - 1 \in Named}
             U == {m \in 1 .. L : m - 1 \notin Named}
  <2>3. IsFiniteSet(1 .. L) /\ Cardinality(1 .. L) = L
    BY <1>1, FS_Interval
  <2>4. IsFiniteSet(N1) /\ IsFiniteSet(U)
    BY <2>3, FS_Subset
  <2>5. Cardinality(N1) = k
    <3> DEFINE f == [m \in N1 |-> m - 1]
    <3>1. f \in [N1 -> Named]
      OBVIOUS
    <3>2. \A a, b \in N1 : f[a] = f[b] => a = b
      BY <1>1
    <3>3. ASSUME NEW x \in Named
          PROVE  x + 1 \in N1 /\ f[x + 1] = x
      <4>1. x \in 0 .. L - 1
        BY <1>4
      <4> HIDE DEF Named
      <4>2. x + 1 \in 1 .. L /\ (x + 1) - 1 = x
        BY <1>1, <4>1
      <4>3. x + 1 \in N1
        BY <4>2
      <4> QED
        BY <4>2, <4>3
    <3> HIDE DEF f, N1, Named
    <3>4. f \in Injection(N1, Named)
      BY <3>1, <3>2 DEF Injection, IsInjective
    <3>5. f \in Surjection(N1, Named)
      BY <3>1, <3>3 DEF Surjection
    <3>6. ExistsBijection(N1, Named)
      BY <3>4, <3>5 DEF ExistsBijection, Bijection
    <3> QED
      BY <1>2, <1>4, <2>4, <3>6, FS_Bijection
  <2>6. Cardinality(U) = L - k /\ k <= L
    <3>1. N1 \cup U = 1 .. L /\ N1 \cap U = {}
      OBVIOUS
    <3> HIDE DEF N1, U
    <3>2. Cardinality(1 .. L) = Cardinality(N1) + Cardinality(U) - Cardinality({})
      BY <2>4, <3>1, FS_Union
    <3>3. Cardinality(U) \in Nat /\ Cardinality({}) = 0
      BY <2>4, FS_CardinalityType, FS_EmptySet
    <3>4. L = k + Cardinality(U) /\ L \in Nat
      BY <1>1, <2>3, <2>5, <3>2, <3>3
    <3> HIDE DEF L
    <3> QED
      BY <3>3, <3>4
  <2>7. ASSUME NEW n \in 1 .. L
        PROVE  Before(n - 1) = {m \in U : pools[m].Priority < pools[n].Priority}
    <3>1. n - 1 + 1 = n
      BY <1>1
    <3> QED
      BY <1>1, <3>1
  <2>8. ASSUME NEW n \in 1 .. L
        PROVE  IsFiniteSet(Before(n - 1)) /\ Cardinality(Before(n - 1)) \in Nat
    BY <2>4, <2>7, FS_Subset, FS_CardinalityType
  <2> HIDE DEF Place, Before, ps
  <2>9. ASSUME NEW n \in U
        PROVE  Cardinality(Before(n - 1)) < L - k
    <3>1. n \in 1 .. L /\ Before(n - 1) \in SUBSET (U \ {n})
      BY <1>1, <2>7
    <3>2. IsFiniteSet(U \ {n}) /\ Cardinality(U \ {n}) = L - k - 1
      <4>1. IsFiniteSet(U) /\ n \in U /\ Cardinality(U) = L - k
        BY <2>4, <2>6
      <4> HIDE DEF U
      <4> QED
        BY <4>1, FS_RemoveElement
    <3>3. Cardinality(Before(n - 1)) <= Cardinality(U \ {n})
      BY <3>1, <3>2, FS_Subset
    <3> QED
      BY <1>1, <2>8, <3>1, <3>2, <3>3
  <2>10. ASSUME NEW n \in 1 .. L
         PROVE  Prio(n) \in Nat /\ Prio(n) < L
    <3>1. CASE n - 1 \in Named
      <4>1. Prio(n) = Place(n - 1) /\ Place(n - 1) \in 0 .. k - 1
        BY <2>2, <3>1
      <4> QED
        BY <1>1, <2>6, <4>1
    <3>2. CASE n - 1 \notin Named
      <4>1. n \in U
        BY <3>2
      <4>2. Cardinality(Before(n - 1)) \in Nat /\ Cardinality(Before(n - 1)) < L - k
        BY <2>8, <2>9, <4>1
      <4>3. Prio(n) = k + Cardinality(Before(n - 1))
        BY <3>2
      <4> QED
        BY <1>1, <4>2, <4>3
    <3> QED
      BY <3>1, <3>2
  <2>11. ASSUME NEW a \in U, NEW b \in U, pools[a].Priority < pools[b].Priority
         PROVE  Cardinality(Before(a - 1)) < Cardinality(Before(b - 1))
    <3>1. a \in 1 .. L /\ b \in 1 .. L
      OBVIOUS
    <3>2. pools[a].Priority \in Nat /\ pools[b].Priority \in Nat
      BY <1>1, <3>1
    <3>3. a \notin Before(a - 1) /\ Before(a - 1) \cup {a} \in SUBSET Before(b - 1)
      <4>1. \A m \in U : pools[m].Priority \in Nat
        BY <1>1
      <4>2. /\ Before(a - 1) = {m \in U : pools[m].Priority < pools[a].Priority}
            /\ Before(b - 1) = {m \in U : pools[m].Priority < pools[b].Priority}
        BY <2>7, <3>1
      <4> HIDE DEF U
      <4>3. a \notin Before(a - 1)
        BY <3>2, <4>2
      <4>4. a \in Before(b - 1)
        BY <2>11, <4>2
      <4>5. ASSUME NEW m \in Before(a - 1)
            PROVE  m \in Before(b - 1)
        BY <2>11, <3>2, <4>1, <4>2
      <4> QED
        BY <4>3, <4>4, <4>5
    <3>4. Cardinality(Before(a - 1) \cup {a}) = Cardinality(Before(a - 1)) + 1
      BY <2>8, <3>1, <3>3, FS_AddElement
    <3>5. Cardinality(Before(a - 1) \cup {a}) <= Cardinality(Before(b - 1))
      BY <2>8, <3>1, <3>3, FS_Subset
    <3> QED
      BY <2>8, <3>1, <3>4, <3>5
  <2>12. ASSUME NEW a \in 1 .. L, NEW b \in 1 .. L, Prio(a) = Prio(b)
         PROVE  a = b
    <3>1. CASE a - 1 \in Named /\ b - 1 \in Named
      <4>1. Place(a - 1) = Place(b - 1)
        BY <2>12, <3>1
      <4>2. a - 1 = b - 1
        BY <2>2, <3>1, <4>1
      <4> QED
        BY <1>1, <4>2
    <3>2. CASE a - 1 \notin Named /\ b - 1 \notin Named
      <4>1. a \in U /\ b \in U
        BY <3>2
      <4>2. Cardinality(Before(a - 1)) = Cardinality(Before(b - 1))
        <5>1. k + Cardinality(Before(a - 1)) = k + Cardinality(Before(b - 1))
          BY <2>12, <3>2
        <5> QED
          BY <2>8, <5>1
      <4>3. ~ (pools[a].Priority < pools[b].Priority) /\ ~ (pools[b].Priority < pools[a].Priority)
        <5>1. Cardinality(Before(a - 1)) \in Nat
          BY <2>8
        <5>2. ~ (Cardinality(Before(a - 1)) < Cardinality(Before(b - 1)))
          BY <4>2, <5>1
        <5>3. ~ (Cardinality(Before(b - 1)) < Cardinality(Before(a - 1)))
          BY <4>2, <5>1
        <5> QED
          BY <2>11, <4>1, <5>2, <5>3
      <4>4. pools[a].Priority = pools[b].Priority
        BY <1>1, <4>3
      <4> QED
        BY <4>4 DEF PoolsOK
    <3>3. CASE a - 1 \in Named /\ b - 1 \notin Named
      <4>1. Prio(a) \in 0 .. k - 1 /\ Prio(b) = k + Cardinality(Before(b - 1))
        BY <2>2, <3>3
      <4> QED
        BY <2>8, <2>12, <4>1
    <3>4. CASE a - 1 \notin Named /\ b - 1 \in Named
      <4>1. Prio(b) \in 0 .. k - 1 /\ Prio(a) = k + Cardinality(Before(a - 1))
        BY <2>2, <3>4
      <4> QED
        BY <2>8, <2>12, <4>1
    <3> QED
      BY <3>1, <3>2, <3>3, <3>4
  <2> HIDE DEF Prio, Named, N1, U
  <2>13. ASSUME NEW n \in 1 .. L
         PROVE  /\ ps[n] \in Pool /\ ps[n].Priority = Prio(n)
                /\ ps[n].url = pools[n].url
    <3>1. pools[n] \in Pool /\ Prio(n) \in Nat
      BY <1>1, <2>10
    <3>2. ps[n] = [url |-> pools[n].url, Priority |-> Prio(n)]
      BY <2>1, <3>1, PoolFields
    <3> QED
      BY <3>1, <3>2, PoolOf, PoolFields
  <2>14. ps \in Seq(Pool) /\ Len(ps) = L
    <3>1. ps \in [1 .. L -> Pool]
      BY <2>1, <2>13
    <3> QED
      BY <1>1, <3>1, SeqOfMembers
  <2>15. PoolsOK(ps)
    BY <1>1, <2>10, <2>12, <2>13, <2>14 DEF PoolsOK
  <2> QED
    BY <2>13, <2>14, <2>15 DEF ps
<1> QED
  BY <1>3, <1>4

-----------------------------------------------------------------------------
(* How many backups there are *)

\* They are finitely many, and no more than the pools.
LEMMA BackupsInFinite ==
  ASSUME NEW ps, PoolsOK(ps)
  PROVE  /\ IsFiniteSet(BackupsIn(ps)) /\ Cardinality(BackupsIn(ps)) \in Nat
         /\ Cardinality(BackupsIn(ps)) <= MaxPools
<1>1. Len(ps) \in Nat /\ 1 <= Len(ps) /\ Len(ps) <= MaxPools /\ MaxPools \in Nat
  BY BoundAssumption DEF PoolsOK
<1>2. IsFiniteSet(1 .. Len(ps)) /\ Cardinality(1 .. Len(ps)) = Len(ps)
  <2>1. 1 \in Int /\ Len(ps) \in Int /\ ~ (1 > Len(ps)) /\ Len(ps) - 1 + 1 = Len(ps)
    BY <1>1
  <2> QED
    BY <2>1, FS_Interval
<1>3. BackupsIn(ps) \in SUBSET (1 .. Len(ps))
  BY DEF BackupsIn
<1>4. /\ IsFiniteSet(BackupsIn(ps))
      /\ Cardinality(BackupsIn(ps)) <= Cardinality(1 .. Len(ps))
  BY <1>2, <1>3, FS_Subset
<1> QED
  BY <1>1, <1>2, <1>4, FS_CardinalityType

\* removepool: the backups that are left are no more, and
\* one fewer if it was one.
LEMMA RemovedBackups ==
  ASSUME PoolsOK(pools), Len(pools) > 1, NEW n \in 0 .. Len(pools) - 1
  PROVE  /\ Cardinality(BackupsIn(Removed(n))) <= NumBackups
         /\ n + 1 = Len(pools) /\ pools[Len(pools)].url \in Backups
              => Cardinality(BackupsIn(Removed(n))) + 1 = NumBackups
<1> DEFINE S == BackupsIn(Removed(n))
           T == BackupsIn(pools)
           f == [m \in S |-> IF m <= n THEN m ELSE m + 1]
<1>1. /\ Len(pools) \in Nat /\ Len(Removed(n)) = Len(pools) - 1
      /\ \A m \in 1 .. Len(pools) - 1 : Removed(n)[m].url = pools[IF m <= n THEN m ELSE m + 1].url
  BY RemovedOK DEF PoolsOK
<1>2. IsFiniteSet(T) /\ Cardinality(T) \in Nat
  BY BackupsInFinite
<1>3. Cardinality(S) <= Cardinality(T)
  <2>1. ASSUME NEW m \in S
        PROVE  f[m] \in T
    <3>1. m \in 1 .. Len(pools) - 1 /\ Removed(n)[m].url \in Backups
      BY <1>1 DEF BackupsIn
    <3> DEFINE k == IF m <= n THEN m ELSE m + 1
    <3>2. k \in 1 .. Len(pools) /\ Removed(n)[m].url = pools[k].url /\ f[m] = k
      BY <1>1, <3>1
    <3> HIDE DEF k, f
    <3> QED
      BY <3>1, <3>2 DEF BackupsIn
  <2>2. ASSUME NEW a \in S, NEW b \in S, f[a] = f[b]
        PROVE  a = b
    <3>1. a \in Nat /\ b \in Nat
      BY <1>1 DEF BackupsIn
    <3>2. (IF a <= n THEN a ELSE a + 1) = (IF b <= n THEN b ELSE b + 1)
      BY <2>2
    <3> QED
      BY <3>1, <3>2
  <2>3. f \in [S -> T]
    <3>1. f = [m \in S |-> f[m]]
      OBVIOUS
    <3> HIDE DEF f, S, T
    <3> QED
      BY <2>1, <3>1
  <2> HIDE DEF f, S, T
  <2>4. f \in Injection(S, T)
    BY <2>2, <2>3 DEF Injection, IsInjective
  <2> QED
    BY <1>2, <2>4, FS_Injection
<1>4. ASSUME n + 1 = Len(pools), pools[Len(pools)].url \in Backups
      PROVE  Cardinality(S) + 1 = Cardinality(T)
  <2>1. Len(pools) \in T
    BY <1>1, <1>4 DEF BackupsIn
  <2>2. S = T \ {Len(pools)}
    <3>1. \A m \in 1 .. Len(pools) - 1 : Removed(n)[m].url = pools[m].url
      BY <1>1, <1>4
    <3>2. 1 .. Len(Removed(n)) = (1 .. Len(pools)) \ {Len(pools)}
      BY <1>1
    <3> QED
      BY <1>1, <3>1, <3>2 DEF BackupsIn
  <2> HIDE DEF S, T
  <2>3. Cardinality(S) = Cardinality(T) - 1
    BY <1>2, <2>1, <2>2, FS_RemoveElement
  <2> QED
    BY <1>2, <2>3
<1> QED
  BY <1>3, <1>4 DEF NumBackups

\* addpool of a backup makes one more.
LEMMA AddedBackups ==
  ASSUME PoolsOK(pools), NEW url \in Backups, Len(pools) < MaxPools
  PROVE  Cardinality(BackupsIn(Added(url))) = NumBackups + 1
<1> DEFINE L == Len(pools)
<1>1. /\ L \in Nat /\ Len(Added(url)) = L + 1
      /\ \A n \in 1 .. L : Added(url)[n] = pools[n]
      /\ Added(url)[L + 1] = [url |-> url, Priority |-> L]
  BY AddedOK DEF PoolsOK
<1>2. IsFiniteSet(BackupsIn(pools)) /\ L + 1 \notin BackupsIn(pools)
  BY <1>1, BackupsInFinite DEF BackupsIn
<1>3. BackupsIn(Added(url)) = BackupsIn(pools) \cup {L + 1}
  <2>1. 1 .. L + 1 = (1 .. L) \cup {L + 1} /\ Added(url)[L + 1].url = url
    BY <1>1
  <2> QED
    BY <1>1, <2>1 DEF BackupsIn
<1> QED
  BY <1>2, <1>3, FS_AddElement DEF NumBackups

\* The count of those left takes one more, up to its bound, which is the list's.
LEMMA OneMore ==
  ASSUME TypeInv
  PROVE  /\ OneMoreLeft \in 0 .. MaxPools
         /\ OneMoreLeft = left + 1 \/ OneMoreLeft = MaxPools
<1>1. left \in Nat /\ MaxPools \in Nat /\ left <= MaxPools
  BY BoundAssumption DEF TypeInv, CountTypes
<1>2. {left + 1, MaxPools} \in SUBSET Nat /\ {left + 1, MaxPools} # {}
  BY <1>1
<1>3. OneMoreLeft \in {left + 1, MaxPools} /\ OneMoreLeft <= MaxPools
  BY <1>2, MinExists DEF OneMoreLeft
<1> QED
  BY <1>1, <1>3

\* A process that remembers no backup, with the backups counted as left.
LEMMA NoneRemembered ==
  pool' = -1 /\ NumBackups' \in Nat /\ left' \in Nat /\ NumBackups' <= left' => BackupsInv'
<1>1. pool' = -1 => ~ Remembered'
  BY DEF Remembered
<1>2. NumBackups' \in Nat /\ left' \in Nat /\ NumBackups' <= left' => NumBackups' <= left' + 1
  BY DEF NumBackups
<1> QED
  BY <1>1, <1>2 DEF BackupsInv

\* Nor does it when they are at most as many as before, and one more is left.
LEMMA OneIsLeft ==
  ASSUME DDosInv, PoolsOK(pools'), NumBackups' <= NumBackups, left' = OneMoreLeft, pool' = -1
  PROVE  BackupsInv'
<1>1. /\ NumBackups \in Nat /\ left \in Nat /\ NumBackups <= left + 1
  BY BackupsInFinite DEF DDosInv, TypeInv, CountTypes, BackupsInv, NumBackups
<1>2. NumBackups' \in Nat /\ NumBackups' <= MaxPools
  BY BackupsInFinite DEF NumBackups
<1>3. OneMoreLeft \in 0 .. MaxPools /\ (OneMoreLeft = left + 1 \/ OneMoreLeft = MaxPools)
  BY OneMore DEF DDosInv
<1>4. NumBackups' <= left' /\ left' \in Nat
  BY <1>1, <1>2, <1>3
<1> QED
  BY <1>2, <1>4, NoneRemembered

-----------------------------------------------------------------------------
(* The steps *)

\* The next address of a backup to try is one of the list.
LEMMA RestInNat ==
  ASSUME TypeInv, Rest # {}
  PROVE  /\ Min(Rest) \in Rest /\ Min(Rest) \in Nat /\ Min(Rest) + 1 \in Nat
         /\ BackupAt(Min(Rest)) \in Backups
<1>1. \A m \in Rest : m \in Nat /\ Wanted(m)
  BY DEF Rest, TypeInv, MemoryTypes
<1>2. Rest \in SUBSET Nat
  BY <1>1
<1>3. Min(Rest) \in Rest
  BY <1>2, MinExists
<1>4. Wanted(Min(Rest)) /\ Min(Rest) \in Nat
  BY <1>1, <1>3
<1>5. BackupAt(Min(Rest)) \in Backups
  BY <1>4 DEF Wanted, BackupAt, Backups
<1> QED
  BY <1>3, <1>4, <1>5

\* A pool that cgminer has taken and nobody remembers is left.
LEMMA TakenLeft ==
  ASSUME DDosInv, Takes, left' = OneMoreLeft, pool' = -1
  PROVE  PoolsOK(pools') /\ BackupsInv'
<1> DEFINE url == BackupAt(Min(Rest))
<1>1. PoolsOK(pools) /\ TypeInv /\ BackupsInv /\ Len(pools) < MaxPools /\ Rest # {} /\ pc = "add"
  BY DEF DDosInv, TypeInv, Takes
<1>2. url \in Backups /\ url \in Domains \cup Backups
  BY <1>1, RestInNat
<1>3. pools' = Added(url)
  BY DEF Takes
<1> HIDE DEF url
<1>4. PoolsOK(pools') /\ NumBackups' = NumBackups + 1
  BY <1>1, <1>2, <1>3, AddedOK, AddedBackups DEF NumBackups
<1>5. NumBackups' \in Nat /\ NumBackups' <= MaxPools /\ NumBackups \in Nat /\ left \in Nat
  BY <1>1, <1>4, BackupsInFinite DEF NumBackups, TypeInv, CountTypes
<1>6. NumBackups <= left
  BY <1>1 DEF BackupsInv, Remembered
<1>7. OneMoreLeft \in 0 .. MaxPools /\ (OneMoreLeft = left + 1 \/ OneMoreLeft = MaxPools)
  BY <1>1, OneMore
<1>8. NumBackups' <= left' /\ left' \in Nat
  BY <1>4, <1>5, <1>6, <1>7
<1> QED
  BY <1>4, <1>5, <1>8, NoneRemembered

Toggles == \E h \in Changing, what \in (SUBSET {"dead", "down"}) \ {{}} : Toggle(h, what)

\* Starts of the process and of cgminer, and the network.
LEMMA AroundStep ==
  ASSUME DDosInv,
         Restart \/ (\E c \in Configs : CgminerRestarts(c)) \/ Toggles
  PROVE  DDosInv'
<1>a. PoolsOK(pools) /\ MemoryTypes /\ CountTypes /\ BackupsInv
  BY DEF DDosInv, TypeInv
<1>1. CASE Restart
  <2>1. MemoryTypes' /\ CountTypes' /\ PoolsOK(pools')
    BY <1>a, <1>1 DEF Restart, MemoryTypes, CountTypes, network, memory
  <2>2. BackupsInv'
    BY <1>a, <1>1 DEF Restart, BackupsInv, Remembered, NumBackups, memory
  <2> QED
    BY <2>1, <2>2 DEF DDosInv, TypeInv
<1>2. CASE \E c \in Configs : CgminerRestarts(c)
  <2>1. PICK c \in Configs : CgminerRestarts(c)
    BY <1>2
  <2>2. PoolsOK(pools') /\ BackupsIn(pools') = {} /\ Len(pools') \in 1 .. MaxPools
    BY <2>1, StartedOK DEF CgminerRestarts, PoolsOK
  <2>3. MemoryTypes' /\ CountTypes'
    BY <1>a, <2>1, BoundAssumption DEF CgminerRestarts, MemoryTypes, CountTypes, network, memory
  <2>4. NumBackups' = 0 /\ left' = 0
    BY <2>1, <2>2, FS_EmptySet DEF NumBackups, CgminerRestarts
  <2>5. ~ Remembered'
    <3> SUFFICES ASSUME Remembered' PROVE FALSE
      OBVIOUS
    <3>1. pools'[Len(pools')].url = ip /\ ip \in Backups \cup {None} /\ pool >= 0
      BY <1>a, <2>1 DEF Remembered, CgminerRestarts, memory, MemoryTypes
    <3>2. ip \in Backups
      BY <1>a, <3>1 DEF MemoryTypes
    <3> QED
      BY <2>2, <3>1, <3>2 DEF BackupsIn
  <2>6. pool' = pool /\ pc' = pc
    BY <2>1 DEF CgminerRestarts, memory
  <2>7. BackupsInv'
    BY <1>a, <2>4, <2>5, <2>6 DEF BackupsInv
  <2> QED
    BY <2>2, <2>3, <2>7 DEF DDosInv, TypeInv
<1>3. CASE Toggles
  <2>1. PICK h \in Changing, what \in (SUBSET {"dead", "down"}) \ {{}} : Toggle(h, what)
    BY <1>3 DEF Toggles
  <2>2. /\ pools' = pools /\ pc' = pc /\ pool' = pool /\ ip' = ip /\ c_pools' = c_pools
        /\ reach' = reach /\ next' = next /\ restarts' = restarts /\ left' = left
    BY <2>1 DEF Toggle, memory
  <2>3. h \in Domains \cup Backups
    BY BoundAssumption
  <2>4. {dead', down', moved'} \subseteq SUBSET (Domains \cup Backups)
    <3>1. {dead, down, moved} \subseteq SUBSET (Domains \cup Backups)
      BY <1>a DEF MemoryTypes
    <3>2. \A A \in SUBSET (Domains \cup Backups) : Flip(A, h) \in SUBSET (Domains \cup Backups)
      BY <2>3 DEF Flip
    <3>3. dead' \in {dead, Flip(dead, h)} /\ down' \in {down, Flip(down, h)}
          /\ moved' \in {moved, moved \cup {h}}
      BY <2>1 DEF Toggle
    <3> QED
      BY <2>3, <3>1, <3>2, <3>3
  <2>5. CountTypes'
    BY <1>a, <2>1, <2>2, BoundAssumption DEF Toggle, CountTypes
  <2>6. MemoryTypes'
    BY <1>a, <2>2, <2>4 DEF MemoryTypes
  <2>7. BackupsInv'
    BY <1>a, <2>2 DEF BackupsInv, Remembered, NumBackups
  <2> QED
    BY <1>a, <2>2, <2>5, <2>6, <2>7 DEF DDosInv, TypeInv
<1> QED
  BY <1>1, <1>2, <1>3

\* Whichever call it is, the process ends.
LEMMA CrashEnds == Crashes => Ends /\ (Crash \/ AddPoolTakenCrash)
BY DEF Crashes, GetPoolsCrash, GetBackupsCrash, RemovePoolCrash, ResetPriorityCrash,
       GetPoolsAgainCrash, AddPoolCrash, ChangePriorityCrash, Crash, AddPoolTakenCrash

\* The process ends, and forgets what it added; or what cgminer has just taken.
LEMMA CrashStep ==
  ASSUME DDosInv, Crashes
  PROVE  DDosInv'
<1>a. PoolsOK(pools) /\ MemoryTypes /\ CountTypes /\ BackupsInv
  BY DEF DDosInv, TypeInv
<1>1. Ends /\ (Crash \/ AddPoolTakenCrash)
  BY CrashEnds
<1>2. /\ pc' = "dead" /\ pool' = -1 /\ ip' = None /\ reach' = {} /\ next' = 0
      /\ moved' = {} /\ UNCHANGED <<dead, down, toggles, restarts>>
  BY <1>1 DEF Ends
<1>3. MemoryTypes'
  BY <1>a, <1>2, BoundAssumption DEF MemoryTypes
<1>4. left' = left \/ left' = OneMoreLeft
  BY <1>1 DEF Crash, AddPoolTakenCrash
<1>5. CountTypes'
  BY <1>a, <1>2, <1>4, OneMore DEF CountTypes, DDosInv
<1>6. CASE Crash
  <2>1. pools' = pools /\ left' = IF ip = None THEN left ELSE OneMoreLeft
    BY <1>6 DEF Crash
  <2>2. PoolsOK(pools') /\ NumBackups' = NumBackups /\ NumBackups \in Nat /\ left \in Nat
    BY <1>a, <2>1, BackupsInFinite DEF NumBackups, CountTypes
  <2>3. CASE ip = None
    <3>1. ~ Remembered
      BY <1>a, <2>3 DEF MemoryTypes, Remembered
    <3> QED
      BY <1>a, <1>2, <1>3, <1>5, <2>1, <2>2, <2>3, <3>1, NoneRemembered
      DEF BackupsInv, DDosInv, TypeInv
  <2>4. CASE ip # None
    <3>1. NumBackups' <= NumBackups
      BY <2>2
    <3>2. BackupsInv'
      BY <1>2, <2>1, <2>2, <2>4, <3>1, OneIsLeft
    <3> QED
      BY <1>3, <1>5, <2>2, <3>2 DEF DDosInv, TypeInv
  <2> QED
    BY <2>3, <2>4
<1>7. CASE AddPoolTakenCrash
  <2>1. PoolsOK(pools') /\ BackupsInv'
    BY <1>2, <1>7, TakenLeft DEF AddPoolTakenCrash
  <2> QED
    BY <1>3, <1>5, <2>1 DEF DDosInv, TypeInv
<1> QED
  BY <1>1, <1>6, <1>7

\* The two readings of the pools and that of the backups.
LEMMA ListStep ==
  ASSUME DDosInv, GetPools \/ GetBackups \/ GetPoolsAgain \/ NothingToAdd
  PROVE  DDosInv'
<1>a. PoolsOK(pools) /\ MemoryTypes /\ CountTypes /\ BackupsInv
  BY DEF DDosInv, TypeInv
<1>b. /\ pools' = pools /\ left' = left /\ restarts' = restarts /\ toggles' = toggles
      /\ dead' = dead /\ down' = down /\ moved' \in {moved, {}}
  BY DEF GetPools, GetBackups, GetPoolsAgain, NothingToAdd, network
<1>c. PoolsOK(pools') /\ CountTypes' /\ NumBackups' = NumBackups
  BY <1>a, <1>b DEF CountTypes, NumBackups
<1>d. {dead', down', moved'} \subseteq SUBSET (Domains \cup Backups)
  BY <1>a, <1>b DEF MemoryTypes
<1>e. NumBackups \in Nat /\ left \in Nat
  BY <1>a, BackupsInFinite DEF NumBackups, CountTypes
<1>1. CASE GetPools
  <2>1. MemoryTypes'
    BY <1>a, <1>d, <1>1 DEF GetPools, MemoryTypes
  <2>2. pool' = pool /\ ip' = ip /\ pc' = "reach"
    BY <1>1 DEF GetPools
  <2>3. Len(c_pools') = Len(pools) /\ c_pools'[Len(pools)].url = pools[Len(pools)].url
    <3>1. DOMAIN pools = 1 .. Len(pools) /\ Len(pools) \in Nat /\ Len(pools) \in 1 .. Len(pools)
      BY <1>a DEF PoolsOK
    <3> DEFINE row(k) == [url |-> pools[k].url, dead |-> Dead(pools[k].url),
                          Priority |-> pools[k].Priority]
    <3>2. c_pools' = [k \in 1 .. Len(pools) |-> row(k)]
      BY <1>1, <3>1 DEF GetPools
    <3>3. row(Len(pools)).url = pools[Len(pools)].url
      OBVIOUS
    <3> HIDE DEF row
    <3>4. c_pools' \in [1 .. Len(pools) -> {row(k) : k \in 1 .. Len(pools)}]
      BY <3>2
    <3> QED
      BY <3>1, <3>2, <3>3, <3>4, SeqOfMembers
  <2>4. Remembered' <=> Remembered
    BY <1>b, <2>2 DEF Remembered
  <2>5. BackupsInv'
    BY <1>a, <1>b, <1>c, <2>2, <2>3, <2>4 DEF BackupsInv, Remembered
  <2> QED
    BY <1>c, <2>1, <2>5 DEF DDosInv, TypeInv
<1>2. CASE GetBackups
  <2>1. MemoryTypes'
    <3>1. reach' \subseteq Domains \cup Backups
      BY <1>a, <1>2 DEF GetBackups, MemoryTypes
    <3>2. CASE FoundDead
      <4>1. pc' = "remove" /\ pool' = pool /\ ip' = ip /\ next' = next /\ ip # None
        BY <1>2, <3>2 DEF GetBackups, FoundDead, Found, Settled
      <4>2. pool >= 0
        BY <1>a, <4>1 DEF MemoryTypes
      <4> QED
        BY <1>a, <1>d, <3>1, <4>1, <4>2 DEF MemoryTypes
    <3>3. CASE ~ FoundDead /\ ~ Settled
      BY <1>a, <1>d, <1>2, <3>1, <3>3, BoundAssumption DEF GetBackups, MemoryTypes
    <3>4. CASE Settled
      <4>1. pc' = "idle" /\ pool' = pool /\ ip' = ip /\ next' = 0
        BY <1>2, <3>4 DEF GetBackups, FoundDead, Settled
      <4> QED
        BY <1>a, <1>d, <3>1, <4>1 DEF MemoryTypes
    <3> QED
      BY <3>2, <3>3, <3>4
  <2>2. Remembered => FoundDead \/ Settled
    <3> SUFFICES ASSUME Remembered PROVE FoundDead \/ Settled
      OBVIOUS
    <3> DEFINE n == Len(pools)
    <3>1. /\ n \in Nat /\ n = pool + 1 /\ pool >= 0 /\ ip # None
          /\ Len(c_pools) = n /\ c_pools[n].url = ip
      BY <1>a, <1>2 DEF BackupsInv, Remembered, GetBackups, MemoryTypes, PoolsOK
    <3> HIDE DEF n
    <3>2. Min({pool + 1, Len(c_pools)}) = n
      <4>1. n \in Nat /\ {pool + 1, Len(c_pools)} = {n} /\ n \in {n} /\ \A y \in {n} : n <= y
        BY <3>1
      <4>2. {n} \in SUBSET Nat
        BY <4>1
      <4> QED
        BY <4>1, <4>2, MinIs
    <3>3. Found /\ Len(c_pools) - 1 = pool
      BY <1>a, <3>1, <3>2 DEF Found, ThisPool, MemoryTypes
    <3> QED
      BY <3>3 DEF FoundDead, Settled
  <2>3. CASE FoundDead \/ Settled
    <3>1. pool' = pool /\ ip' = ip /\ (pc' = "idle" \/ (pc' = "remove" /\ c_pools' = c_pools))
      BY <1>2, <2>3 DEF GetBackups
    <3>2. Remembered' <=> Remembered
      BY <1>b, <3>1 DEF Remembered
    <3>3. pc = "reach"
      BY <1>2 DEF GetBackups
    <3>4. BackupsInv'
      BY <1>a, <1>b, <1>c, <3>1, <3>2, <3>3 DEF BackupsInv
    <3> QED
      BY <1>c, <2>1, <3>4 DEF DDosInv, TypeInv
  <2>4. CASE ~ FoundDead /\ ~ Settled
    <3>1. pool' = -1
      BY <1>2, <2>4 DEF GetBackups
    <3>2. NumBackups <= left
      BY <1>a, <2>2, <2>4 DEF BackupsInv
    <3>3. BackupsInv'
      BY <1>b, <1>c, <1>e, <3>1, <3>2, NoneRemembered
    <3> QED
      BY <1>c, <2>1, <3>3 DEF DDosInv, TypeInv
  <2> QED
    BY <2>3, <2>4
<1>3. CASE GetPoolsAgain \/ NothingToAdd
  <2>1. MemoryTypes'
    BY <1>a, <1>d, <1>3 DEF GetPoolsAgain, NothingToAdd, ToEnd, MemoryTypes
  <2>2. pool = -1 /\ pool' = -1
    BY <1>a, <1>3 DEF GetPoolsAgain, NothingToAdd, BackupsInv
  <2>3. NumBackups <= left
    BY <1>a, <2>2 DEF BackupsInv, Remembered
  <2>4. BackupsInv'
    BY <1>b, <1>c, <1>e, <2>2, <2>3, NoneRemembered
  <2> QED
    BY <1>c, <2>1, <2>4 DEF DDosInv, TypeInv
<1> QED
  BY <1>1, <1>2, <1>3

\* What is removed is the backup remembered, if it is still in the list; what is
\* refused is left.
LEMMA RemoveStep ==
  ASSUME DDosInv, RemovePool \/ RemovePoolRefused
  PROVE  DDosInv'
<1>a. PoolsOK(pools) /\ MemoryTypes /\ CountTypes /\ BackupsInv
  BY DEF DDosInv, TypeInv
<1>b. /\ pc = "remove" /\ pc' = "reset" /\ pool' = -1 /\ ip' = None /\ next' = next
      /\ reach' = reach /\ restarts' = restarts
      /\ UNCHANGED network
  BY DEF RemovePool, RemovePoolRefused
<1>1. MemoryTypes'
  BY <1>a, <1>b, BoundAssumption DEF MemoryTypes, network
<1>2. Len(pools) \in Nat /\ Len(pools) >= 1 /\ pool \in Int /\ pool >= 0
  BY <1>a, <1>b, BoundAssumption DEF PoolsOK, MemoryTypes
<1>3. NumBackups \in Nat /\ left \in Nat
  BY <1>a, BackupsInFinite DEF NumBackups, CountTypes
<1>4. CASE RemovePool
  <2>1. /\ pools' = Removed(pool) /\ left' = left
        /\ pool \in 0 .. Len(pools) - 1 /\ Len(pools) > 1
    BY <1>2, <1>4 DEF RemovePool
  <2>2. PoolsOK(pools') /\ NumBackups' \in Nat
    BY <1>a, <2>1, RemovedOK, BackupsInFinite DEF NumBackups
  <2>3. CountTypes'
    BY <1>a, <1>b, <2>1 DEF CountTypes, network
  <2>4. NumBackups' <= left
    <3>1. /\ NumBackups' <= NumBackups
          /\ pool + 1 = Len(pools) /\ pools[Len(pools)].url \in Backups
               => NumBackups' + 1 = NumBackups
      BY <1>a, <2>1, RemovedBackups DEF NumBackups
    <3>2. CASE Remembered
      <4>1. pools[Len(pools)].url \in Backups /\ pool + 1 = Len(pools)
        BY <1>a, <3>2 DEF Remembered, MemoryTypes
      <4>2. NumBackups' + 1 = NumBackups
        BY <3>1, <4>1
      <4>3. NumBackups <= left + 1
        BY <1>a DEF BackupsInv
      <4> QED
        BY <1>3, <2>2, <4>2, <4>3 DEF NumBackups
    <3>3. CASE ~ Remembered
      BY <1>a, <1>3, <2>2, <3>1, <3>3 DEF BackupsInv
    <3> QED
      BY <3>2, <3>3
  <2>5. BackupsInv'
    BY <1>b, <1>3, <2>1, <2>2, <2>4, NoneRemembered
  <2> QED
    BY <1>1, <2>2, <2>3, <2>5 DEF DDosInv, TypeInv
<1>5. CASE RemovePoolRefused
  <2>1. pools' = pools /\ left' = OneMoreLeft
    BY <1>5 DEF RemovePoolRefused
  <2>2. PoolsOK(pools') /\ NumBackups' <= NumBackups
    BY <1>a, <1>3, <2>1 DEF NumBackups
  <2>3. CountTypes'
    BY <1>a, <1>b, <2>1, OneMore DEF CountTypes, network, DDosInv
  <2>4. BackupsInv'
    BY <1>b, <2>1, <2>2, OneIsLeft
  <2> QED
    BY <1>1, <2>2, <2>3, <2>4 DEF DDosInv, TypeInv
<1> QED
  BY <1>4, <1>5

\* The two calls that set priorities.
LEMMA PriorityStep ==
  ASSUME DDosInv, ResetPriority \/ ChangePriority
  PROVE  DDosInv'
<1>a. PoolsOK(pools) /\ MemoryTypes /\ CountTypes /\ BackupsInv
  BY DEF DDosInv, TypeInv
<1>1. PICK k \in Nat : \E list \in [1 .. k -> Int] : pools' = Ordered(list)
  <2>1. CASE ResetPriority
    <3>1. /\ DOMAIN pools = 1 .. Len(pools) /\ Len(pools) \in Nat
          /\ pools' = Ordered([j \in DOMAIN pools |-> Len(pools)])
      BY <1>a, <2>1 DEF PoolsOK, ResetPriority
    <3>2. [j \in DOMAIN pools |-> Len(pools)] \in [1 .. Len(pools) -> Int]
      BY <3>1
    <3> QED
      BY <3>1, <3>2
  <2>2. CASE ChangePriority
    <3>1. pool + 1 \in Nat /\ pool \in Int
      BY <1>a, BoundAssumption DEF MemoryTypes
    <3>2. \A P : PriorityList(pool, P) \in [1 .. pool + 1 -> Int]
      BY <3>1 DEF PriorityList
    <3>3. pools' = Ordered(PriorityList(pool, PoolAt(next).Priority))
      BY <2>2 DEF ChangePriority
    <3> QED
      BY <3>1, <3>2, <3>3
  <2> QED
    BY <2>1, <2>2
<1>2. /\ PoolsOK(pools') /\ Len(pools') = Len(pools) /\ Len(pools) \in 1 .. Len(pools)
      /\ \A n \in 1 .. Len(pools) : pools'[n].url = pools[n].url
  <2>1. Len(pools) \in 1 .. Len(pools)
    BY <1>a DEF PoolsOK
  <2> QED
    BY <1>a, <1>1, <2>1, OrderedOK
<1>3. MemoryTypes' /\ CountTypes'
  BY <1>a DEF ResetPriority, ChangePriority, ToEnd, MemoryTypes, CountTypes, network, memory
<1>4. BackupsIn(pools') = BackupsIn(pools)
  BY <1>2 DEF BackupsIn
<1>5. NumBackups' = NumBackups
  BY <1>4 DEF NumBackups
<1>6. /\ pool' = pool /\ ip' = ip /\ left' = left
      /\ (pc = "reset" /\ pc' = "again") \/ pc' = "idle"
  BY DEF ResetPriority, ChangePriority, ToEnd, memory
<1>7. Remembered' <=> Remembered
  BY <1>2, <1>6 DEF Remembered
<1>8. BackupsInv'
  BY <1>a, <1>5, <1>6, <1>7 DEF BackupsInv
<1> QED
  BY <1>2, <1>3, <1>8 DEF DDosInv, TypeInv

\* A backup is added only when none is remembered.
LEMMA AddStep ==
  ASSUME DDosInv, AddPool \/ AddPoolUnread \/ AddPoolRefused
  PROVE  DDosInv'
<1>a. PoolsOK(pools) /\ MemoryTypes /\ CountTypes /\ BackupsInv
  BY DEF DDosInv, TypeInv
<1>b. /\ Rest # {} /\ pc = "add" /\ reach' = reach /\ restarts' = restarts
      /\ UNCHANGED network
  BY DEF AddPool, AddPoolUnread, AddPoolRefused, Takes
<1> DEFINE url == BackupAt(Min(Rest))
           L == Len(pools)
<1>1. /\ url \in Backups /\ url # None /\ url \in Domains \cup Backups
      /\ Min(Rest) \in Nat /\ Min(Rest) + 1 \in Nat /\ L \in Nat /\ L >= 1
  BY <1>a, <1>b, RestInNat, ListAssumption, BoundAssumption DEF DDosInv, TypeInv, PoolsOK
<1>2. pool = -1 /\ NumBackups <= left /\ NumBackups \in Nat /\ left \in Nat
  BY <1>a, <1>b, BackupsInFinite DEF BackupsInv, Remembered, NumBackups, CountTypes
<1> HIDE DEF url
<1>3. CASE AddPool
  <2>1. /\ L < MaxPools /\ pools' = Added(url) /\ pool' = L /\ ip' = url /\ left' = left
        /\ pc' = "prio" /\ next' = Min(Rest)
    BY <1>3 DEF AddPool, Takes, url
  <2>2. MemoryTypes' /\ CountTypes'
    BY <1>a, <1>b, <1>1, <2>1, BoundAssumption DEF MemoryTypes, CountTypes, network
  <2>3. PoolsOK(pools') /\ Len(pools') = L + 1 /\ pools'[L + 1].url = url
    <3>1. /\ PoolsOK(Added(url)) /\ Len(Added(url)) = L + 1
          /\ Added(url)[L + 1] = [url |-> url, Priority |-> L]
      BY <1>a, <1>1, <2>1, AddedOK
    <3>2. Added(url)[L + 1].url = url
      BY <3>1
    <3> QED
      BY <2>1, <3>1, <3>2
  <2>4. NumBackups' = NumBackups + 1
    BY <1>a, <1>1, <2>1, AddedBackups DEF NumBackups
  <2>5. Remembered'
    BY <1>1, <2>1, <2>3 DEF Remembered
  <2>6. BackupsInv'
    BY <1>1, <1>2, <2>1, <2>4, <2>5 DEF BackupsInv
  <2> QED
    BY <2>2, <2>3, <2>6 DEF DDosInv, TypeInv
<1>4. CASE AddPoolUnread
  <2>1. pc' = pc /\ pool' = pool /\ ip' = ip /\ next' = Min(Rest) + 1 /\ left' = OneMoreLeft
    BY <1>4 DEF AddPoolUnread
  <2>2. MemoryTypes' /\ CountTypes'
    BY <1>a, <1>b, <1>1, <2>1, OneMore DEF MemoryTypes, CountTypes, network, DDosInv
  <2>3. PoolsOK(pools') /\ BackupsInv'
    BY <1>2, <1>4, <2>1, TakenLeft DEF AddPoolUnread
  <2> QED
    BY <2>2, <2>3 DEF DDosInv, TypeInv
<1>5. CASE AddPoolRefused
  <2>1. /\ pc' = pc /\ pool' = pool /\ ip' = ip /\ next' = Min(Rest) + 1
        /\ pools' = pools /\ left' = left
    BY <1>5 DEF AddPoolRefused
  <2>2. MemoryTypes' /\ CountTypes'
    BY <1>a, <1>b, <1>1, <2>1 DEF MemoryTypes, CountTypes, network
  <2>3. BackupsInv'
    BY <1>2, <2>1, NoneRemembered DEF NumBackups
  <2> QED
    BY <1>a, <2>1, <2>2, <2>3 DEF DDosInv, TypeInv
<1> QED
  BY <1>3, <1>4, <1>5

-----------------------------------------------------------------------------
\* The invariant holds at the start.
LEMMA DDosInvInit == Init => DDosInv
<1> SUFFICES ASSUME Init PROVE DDosInv
  OBVIOUS
<1>1. PoolsOK(pools) /\ BackupsIn(pools) = {}
  BY StartedOK DEF Init
<1>2. MemoryTypes /\ CountTypes
  BY BoundAssumption DEF Init, MemoryTypes, CountTypes
<1>3. NumBackups = 0
  BY <1>1, FS_EmptySet DEF NumBackups
<1>4. BackupsInv
  BY <1>3 DEF Init, BackupsInv, Remembered
<1> QED
  BY <1>1, <1>2, <1>4 DEF DDosInv, TypeInv

\* Every step keeps it.
LEMMA DDosInvStep == DDosInv /\ [Next]_vars => DDosInv'
<1> SUFFICES ASSUME DDosInv, [Next]_vars PROVE DDosInv'
  OBVIOUS
<1>1. CASE UNCHANGED vars
  <2>1. UNCHANGED <<pools, left, dead, down, moved, toggles, pc, pool, ip, c_pools, reach, next,
                    restarts>>
    BY <1>1 DEF vars, network, memory
  <2> QED
    BY <2>1 DEF DDosInv, TypeInv, MemoryTypes, CountTypes, BackupsInv, Remembered, NumBackups
<1> QED
  BY <1>1, AroundStep, CrashStep, ListStep, RemoveStep, PriorityStep, AddStep
  DEF Next, Answered, Toggles

\* The types; and that cgminer's priorities number its pools, each once, through
\* every restart, addpool, removepool and poolpriority.
THEOREM DDosTypes == Spec => []TypeOK
<1>1. DDosInv => TypeOK
  <2> SUFFICES ASSUME DDosInv PROVE TypeOK
    OBVIOUS
  <2>1. /\ pools \in Seq(Pool) /\ DOMAIN pools = 1 .. Len(pools) /\ Len(pools) \in Nat
        /\ Len(pools) \in 1 .. MaxPools
    BY BoundAssumption DEF DDosInv, TypeInv, PoolsOK
  <2>2. ASSUME NEW n \in DOMAIN pools
        PROVE  pools[n] \in [url : Domains \cup Backups, Priority : 0 .. Len(pools) - 1]
    <3>1. pools[n] \in Pool /\ pools[n].Priority < Len(pools)
      BY <2>1 DEF DDosInv, TypeInv, PoolsOK
    <3>2. pools[n].Priority \in 0 .. Len(pools) - 1
      BY <2>1, <3>1, PoolFields
    <3> QED
      BY <3>1, <3>2 DEF Pool
  <2>3. \A m, n \in DOMAIN pools : pools[m].Priority = pools[n].Priority => m = n
    BY <2>1 DEF DDosInv, TypeInv, PoolsOK
  <2> QED
    BY <2>1, <2>2, <2>3 DEF DDosInv, TypeInv, MemoryTypes, CountTypes, TypeOK
<1> QED
  BY <1>1, DDosInvInit, DDosInvStep, PTL DEF Spec

\* Over all rounds, removals, reorderings and restarts of cgminer, its list has one
\* backup more at most than processes that ended, answers that were not read and
\* refused removals have left there: what a process adds while it remembers one,
\* or what it takes for its own and is not, would make it two.
THEOREM BackupsAreCounted == Spec => []BackupsCounted
<1>1. DDosInv => BackupsCounted
  <2> SUFFICES ASSUME DDosInv PROVE BackupsCounted
    OBVIOUS
  <2>1. DOMAIN pools = 1 .. Len(pools)
    BY DEF DDosInv, TypeInv, PoolsOK
  <2>2. {n \in DOMAIN pools : pools[n].url \in Backups} = BackupsIn(pools)
    BY <2>1 DEF BackupsIn
  <2> QED
    BY <2>2 DEF DDosInv, BackupsInv, NumBackups, BackupsCounted
<1> QED
  BY <1>1, DDosInvInit, DDosInvStep, PTL DEF Spec

-----------------------------------------------------------------------------
(* The place of the backup *)

\* The place in the loops is one of a pool that was read.
ListInv ==
  /\ DOMAIN c_pools = 1 .. Len(c_pools) /\ Len(c_pools) \in Nat
  /\ pc = "prio" => (next \div Wide) + 1 \in 1 .. Len(c_pools)

\* The row width by which next is taken apart is that of the longest row.
LEMMA WideIsLongest ==
  ASSUME NEW d \in Domains
  PROVE  Wide \in Nat /\ Len(BackupsOf[d]) <= Wide
<1> DEFINE S == {Len(BackupsOf[e]) : e \in Domains}
           f == [e \in Domains |-> Len(BackupsOf[e])]
<1>1. S \in SUBSET Nat /\ S # {}
  <2>1. \A e \in Domains : BackupsOf[e] \in Seq(Backups)
    BY ListAssumption
  <2>2. \A e \in Domains : Len(BackupsOf[e]) \in Nat
    BY <2>1
  <2>3. Len(BackupsOf[d]) \in S
    OBVIOUS
  <2> QED
    BY <2>2, <2>3
<1>2. f \in Surjection(Domains, S)
  BY DEF Surjection
<1>3. IsFiniteSet(S)
  BY <1>2, ListAssumption, FS_Surjection
<1>4. Wide = Max(S)
  BY DEF Wide
<1>5. Len(BackupsOf[d]) \in S
  OBVIOUS
<1> HIDE DEF S
<1> QED
  BY <1>1, <1>3, <1>4, <1>5, MaxExists

\* Which pool a step of the loops is about: row by row.
LEMMA PlaceInList ==
  ASSUME NEW L \in Nat, NEW W \in Nat, W > 0, NEW m \in 0 .. L * W - 1
  PROVE  (m \div W) + 1 \in 1 .. L
<1> DEFINE q == m \div W
           r == m % W
<1>1. m \in Nat /\ m < L * W
  OBVIOUS
<1>2. q \in Nat /\ r \in Nat /\ m = W * q + r
  BY <1>1
<1> HIDE DEF q, r
<1>3. q < L
  <2> SUFFICES ASSUME q >= L PROVE FALSE
    BY <1>2
  <2>1. PICK k \in Nat : q = L + k
    <3>1. q - L \in Nat /\ q = L + (q - L)
      BY <1>2
    <3> QED
      BY <3>1
  <2>2. W * q = L * W + W * k /\ W * k \in Nat
    BY <2>1
  <2> QED
    BY <1>1, <1>2, <2>2
<1> QED
  BY <1>2, <1>3 DEF q

\* The list of the reading stays the list, but for what the process does to it.
LEMMA ListInvStep ==
  ASSUME DDosInv, ListInv, [Next]_vars
  PROVE  ListInv'
<1>e. DOMAIN <<>> = 1 .. Len(<<>>) /\ Len(<<>>) \in Nat
  OBVIOUS
<1>1. CASE c_pools' = <<>> /\ pc' # "prio"
  BY <1>1, <1>e DEF ListInv
<1>2. CASE c_pools' = c_pools /\ (pc' = "prio" => pc = "prio" /\ next' = next)
  BY <1>2 DEF ListInv
<1>3. CASE GetPools
  <2>1. PoolsOK(pools)
    BY DEF DDosInv, TypeInv
  <2>2. DOMAIN pools = 1 .. Len(pools) /\ Len(pools) \in Nat
    BY <2>1 DEF PoolsOK
  <2> DEFINE row(k) == [url |-> pools[k].url, dead |-> Dead(pools[k].url),
                        Priority |-> pools[k].Priority]
  <2>3. c_pools' = [k \in 1 .. Len(pools) |-> row(k)] /\ pc' = "reach"
    BY <1>3, <2>2 DEF GetPools
  <2> HIDE DEF row
  <2>4. c_pools' \in [1 .. Len(pools) -> {row(k) : k \in 1 .. Len(pools)}]
    BY <2>3
  <2>5. Len(c_pools') = Len(pools) /\ DOMAIN c_pools' = 1 .. Len(pools)
    BY <2>2, <2>4, SeqOfMembers
  <2> QED
    BY <2>2, <2>3, <2>5 DEF ListInv
<1>4. CASE AddPool
  <2> DEFINE m == Min(Rest)
  <2>1. c_pools' = c_pools /\ next' = m /\ Rest # {}
    BY <1>4 DEF AddPool, Takes
  <2>2. m \in Rest /\ m \in Nat
    BY <2>1, RestInNat DEF DDosInv
  <2> HIDE DEF m
  <2>3. m \in next .. Len(c_pools) * Wide - 1 /\ Wanted(m)
    BY <2>2 DEF Rest
  <2>4. Wide \in Nat
    BY <2>3, WideIsLongest DEF Wanted
  <2>5. Len(c_pools) \in Nat
    BY DEF ListInv
  <2>6. m \in 0 .. Len(c_pools) * Wide - 1 /\ Wide > 0
    <3>1. Len(c_pools) * Wide \in Nat
      BY <2>4, <2>5
    <3>2. next \in Nat
      BY DEF DDosInv, TypeInv, MemoryTypes
    <3>3. m \in 0 .. Len(c_pools) * Wide - 1
      BY <2>2, <2>3, <3>1, <3>2
    <3>4. Wide # 0
      BY <2>5, <3>3
    <3> QED
      BY <2>4, <3>3, <3>4
  <2>7. (m \div Wide) + 1 \in 1 .. Len(c_pools)
    BY <2>4, <2>5, <2>6, PlaceInList
  <2>8. ListInv' <=> /\ DOMAIN c_pools = 1 .. Len(c_pools) /\ Len(c_pools) \in Nat
                     /\ pc' = "prio" => (m \div Wide) + 1 \in 1 .. Len(c_pools)
    BY <2>1 DEF ListInv, Wide
  <2> QED
    BY <2>7, <2>8 DEF ListInv
<1>5. \/ c_pools' = <<>> /\ pc' # "prio"
      \/ c_pools' = c_pools /\ (pc' = "prio" => pc = "prio" /\ next' = next)
      \/ GetPools \/ AddPool
  <2>1. CASE UNCHANGED vars
    BY <2>1 DEF vars, memory
  <2>2. CASE Restart \/ (\E c \in Configs : CgminerRestarts(c)) \/ Toggles
    BY <2>2 DEF Restart, CgminerRestarts, Toggles, Toggle, memory
  <2>3. CASE Crashes
    BY <2>3, CrashEnds DEF Ends
  <2>4. CASE GetBackups
    BY <2>4 DEF GetBackups
  <2>5. CASE RemovePool \/ RemovePoolRefused \/ ResetPriority \/ GetPoolsAgain
    BY <2>5 DEF RemovePool, RemovePoolRefused, ResetPriority, GetPoolsAgain, memory
  <2>6. CASE NothingToAdd \/ ChangePriority
    BY <2>6 DEF NothingToAdd, ChangePriority, ToEnd
  <2>7. CASE AddPoolUnread \/ AddPoolRefused
    BY <2>7 DEF AddPoolUnread, AddPoolRefused, Takes
  <2> QED
    BY <2>1, <2>2, <2>3, <2>4, <2>5, <2>6, <2>7 DEF Next, Answered, Toggles
<1> QED
  BY <1>1, <1>2, <1>3, <1>4, <1>5

\* No list is read yet at the start.
LEMMA ListInvInit == Init => ListInv
<1>1. DOMAIN <<>> = 1 .. Len(<<>>) /\ Len(<<>>) \in Nat
  OBVIOUS
<1> QED
  BY <1>1 DEF Init, ListInv

\* Where change_priority's list puts each pool: the new one in the place of the
\* dead one, those behind it one further.
LEMMA ListPlaces ==
  ASSUME PoolsOK(pools), NEW p \in Nat, Len(pools) = p + 1, NEW P \in 0 .. p - 1
  PROVE  \A n \in 1 .. p + 1 :
           Ordered(PriorityList(p, P))[n].Priority
             = IF n - 1 = p THEN P ELSE IF n - 1 < P THEN n - 1 ELSE n
<1> DEFINE list == PriorityList(p, P)
           Named == {list[j] : j \in DOMAIN list}
           Place(v) == (CHOOSE j \in DOMAIN list : list[j] = v) - 1
           At(v) == IF v = p THEN P + 1 ELSE IF v < P THEN v + 1 ELSE v + 2
<1>1. /\ DOMAIN list = 1 .. p + 1
      /\ \A j \in 1 .. p + 1 :
           list[j] = IF j - 1 = P THEN p ELSE IF j - 1 < P THEN j - 1 ELSE j - 2
  BY DEF PriorityList
<1>2. \A j \in 1 .. p + 1 : list[j] \in 0 .. p
  <2> SUFFICES ASSUME NEW j \in 1 .. p + 1 PROVE list[j] \in 0 .. p
    OBVIOUS
  <2>1. CASE j - 1 = P
    BY <1>1, <2>1
  <2>2. CASE j - 1 < P
    BY <1>1, <2>2
  <2>3. CASE j - 1 > P
    BY <1>1, <2>3
  <2> QED
    BY <2>1, <2>2, <2>3
<1>3. list \in [1 .. p + 1 -> Int] /\ list = [j \in 1 .. p + 1 |-> list[j]]
  BY DEF PriorityList
<1>4. Len(list) = p + 1
  BY <1>3, SeqOfMembers
<1> HIDE DEF list
<1>5. ASSUME NEW v \in 0 .. p
      PROVE  At(v) \in 1 .. p + 1 /\ list[At(v)] = v /\ \A j \in 1 .. p + 1 : list[j] = v => j = At(v)
  <2>1. CASE v = p
    <3>1. At(v) = P + 1 /\ P + 1 \in 1 .. p + 1 /\ list[P + 1] = p
      BY <1>1, <2>1
    <3>2. \A j \in 1 .. p + 1 : list[j] = p => j = P + 1
      BY <1>1
    <3> QED
      BY <2>1, <3>1, <3>2
  <2>2. CASE v < P
    <3>1. At(v) = v + 1 /\ v + 1 \in 1 .. p + 1 /\ list[v + 1] = v
      BY <1>1, <2>2
    <3>2. \A j \in 1 .. p + 1 : list[j] = v => j = v + 1
      BY <1>1, <2>2
    <3> QED
      BY <3>1, <3>2
  <2>3. CASE v # p /\ ~ (v < P)
    <3>1. At(v) = v + 2 /\ v + 2 \in 1 .. p + 1 /\ list[v + 2] = v
      BY <1>1, <2>3
    <3>2. \A j \in 1 .. p + 1 : list[j] = v => j = v + 2
      BY <1>1, <2>3
    <3> QED
      BY <3>1, <3>2
  <2> QED
    BY <2>1, <2>2, <2>3
<1>6. Named = 0 .. p
  <2>1. \A v \in 0 .. p : At(v) \in DOMAIN list /\ list[At(v)] = v
    BY <1>1, <1>5
  <2>2. \A j \in DOMAIN list : list[j] \in 0 .. p
    BY <1>1, <1>2
  <2> HIDE DEF At
  <2> QED
    BY <2>1, <2>2
<1>7. Cardinality(Named) = p + 1
  <2>1. Cardinality(0 .. p) = p - 0 + 1
    <3>1. 0 \in Int /\ p \in Int /\ ~ (0 > p)
      OBVIOUS
    <3> QED
      BY <3>1, FS_Interval
  <2> HIDE DEF Named
  <2> QED
    BY <1>6, <2>1
<1>8. ASSUME NEW v \in 0 .. p
      PROVE  Place(v) = At(v) - 1
  <2> HIDE DEF At
  <2>1. \E j \in DOMAIN list : list[j] = v
    BY <1>1, <1>5
  <2>2. /\ (CHOOSE j \in DOMAIN list : list[j] = v) \in DOMAIN list
        /\ list[CHOOSE j \in DOMAIN list : list[j] = v] = v
    BY <2>1
  <2>3. (CHOOSE j \in DOMAIN list : list[j] = v) = At(v)
    BY <1>1, <1>5, <2>2
  <2> QED
    BY <2>3
<1>9. DOMAIN pools = 1 .. p + 1 /\ \A n \in 1 .. p + 1 : pools[n] \in Pool
  BY DEF PoolsOK
<1>10. Named \subseteq 0 .. Len(pools) - 1 /\ Cardinality(Named) = Len(list)
  BY <1>4, <1>6, <1>7
<1>11. ASSUME NEW n \in 1 .. p + 1
       PROVE  Ordered(list)[n].Priority = At(n - 1) - 1
  <2>1. n - 1 \in Named /\ n - 1 \in 0 .. p
    <3>1. n - 1 \in 0 .. p
      OBVIOUS
    <3> HIDE DEF Named
    <3> QED
      BY <1>6, <3>1
  <2>2. Ordered(list)[n] = [pools[n] EXCEPT !.Priority = Place(n - 1)]
    BY <1>9, <1>10, <2>1 DEF Ordered
  <2>3. Place(n - 1) = At(n - 1) - 1
    BY <1>8, <2>1
  <2> HIDE DEF Place, At
  <2>4. Ordered(list)[n] = [url |-> pools[n].url, Priority |-> Place(n - 1)]
    BY <1>9, <2>2, PoolFields
  <2> QED
    BY <2>3, <2>4
<1>12. \A n \in 1 .. p + 1 :
         At(n - 1) - 1 = IF n - 1 = p THEN P ELSE IF n - 1 < P THEN n - 1 ELSE n
  OBVIOUS
<1> HIDE DEF At
<1>13. \A n \in 1 .. p + 1 : Ordered(list)[n].Priority
         = IF n - 1 = p THEN P ELSE IF n - 1 < P THEN n - 1 ELSE n
  BY <1>11, <1>12
<1> QED
  BY <1>13 DEF list

\* change_priority puts the backup right before the pool it stands in for, and
\* keeps the order of the others, for any number of pools.
THEOREM BackupStandsIn == Spec => StandsIn
<1> DEFINE Before ==
      /\ pools'[pool + 1].Priority + 1 = pools'[(next \div Wide) + 1].Priority
      /\ \A m, n \in 1 .. pool :
           pools[m].Priority < pools[n].Priority => pools'[m].Priority < pools'[n].Priority
<1>1. ASSUME DDosInv, ListInv, Next, pc = "prio", pc' = "idle", AsRead
      PROVE  Before
  <2>1. ChangePriority
    <3>1. /\ ~ GetPools /\ ~ GetBackups /\ ~ RemovePool /\ ~ RemovePoolRefused
          /\ ~ ResetPriority /\ ~ GetPoolsAgain /\ ~ NothingToAdd
          /\ ~ AddPool /\ ~ AddPoolUnread /\ ~ AddPoolRefused /\ ~ Restart
      BY <1>1 DEF GetPools, GetBackups, RemovePool, RemovePoolRefused, ResetPriority,
                  GetPoolsAgain, NothingToAdd, AddPool, AddPoolUnread, AddPoolRefused, Takes,
                  Restart
    <3>2. ~ Crashes
      BY <1>1, CrashEnds DEF Ends
    <3>3. ~ (\E c \in Configs : CgminerRestarts(c)) /\ ~ Toggles
      BY <1>1 DEF CgminerRestarts, Toggles, Toggle
    <3> QED
      BY <1>1, <3>1, <3>2, <3>3 DEF Next, Answered, Toggles
  <2> DEFINE d == (next \div Wide) + 1
             P == PoolAt(next).Priority
  <2>2. d \in 1 .. Len(c_pools) /\ DOMAIN c_pools = 1 .. Len(c_pools)
    BY <1>1 DEF ListInv
  <2>3. Len(c_pools) = pool /\ pool \in Nat /\ Len(pools) = pool + 1
    BY <1>1 DEF AsRead, ListInv
  <2>4. P = d - 1
    BY <1>1, <2>2 DEF AsRead, PoolAt
  <2>5. pools' = Ordered(PriorityList(pool, P)) /\ PoolsOK(pools)
    BY <1>1, <2>1 DEF ChangePriority, DDosInv, TypeInv
  <2> HIDE DEF d, P
  <2>6. P \in 0 .. pool - 1
    BY <2>2, <2>3, <2>4
  <2>7. \A n \in 1 .. pool + 1 :
          pools'[n].Priority = IF n - 1 = pool THEN P ELSE IF n - 1 < P THEN n - 1 ELSE n
    BY <2>3, <2>5, <2>6, ListPlaces
  <2>8. pools'[pool + 1].Priority = P
    BY <2>3, <2>7
  <2>9. pools'[d].Priority = P + 1
    <3>1. d \in 1 .. pool /\ d - 1 = P /\ P \in Nat
      BY <2>2, <2>3, <2>4, <2>6
    <3>2. d \in 1 .. pool + 1 /\ d - 1 # pool /\ ~ (d - 1 < P) /\ d = P + 1
      BY <2>3, <3>1
    <3> QED
      BY <2>7, <3>2
  <2>10. ASSUME NEW m \in 1 .. pool, NEW n \in 1 .. pool, pools[m].Priority < pools[n].Priority
         PROVE  pools'[m].Priority < pools'[n].Priority
    <3>1. pools[m].Priority = m - 1 /\ pools[n].Priority = n - 1
      BY <1>1, <2>2, <2>3 DEF AsRead
    <3>2. m < n
      BY <2>3, <2>10, <3>1
    <3>3. /\ pools'[m].Priority = IF m - 1 < P THEN m - 1 ELSE m
          /\ pools'[n].Priority = IF n - 1 < P THEN n - 1 ELSE n
      BY <2>3, <2>7
    <3> QED
      BY <2>3, <2>6, <3>2, <3>3
  <2>11. pools'[pool + 1].Priority + 1 = pools'[d].Priority
    BY <2>6, <2>8, <2>9
  <2> QED
    BY <2>10, <2>11 DEF d
<1>2. ASSUME DDosInv, ListInv, [Next]_vars
      PROVE  [(pc = "prio" /\ pc' = "idle") => (AsRead => Before)]_vars
  BY <1>1, <1>2
<1> HIDE DEF Before
<1>3. Init => DDosInv /\ ListInv
  BY DDosInvInit, ListInvInit
<1>4. (DDosInv /\ ListInv) /\ [Next]_vars => (DDosInv /\ ListInv)'
  BY DDosInvStep, ListInvStep
<1> USE DEF Before
<1> QED
  BY <1>2, <1>3, <1>4, PTL DEF Spec, StandsIn
=============================================================================
