---------------------------- MODULE RacInitProofs ----------------------------
(***************************************************************************)
(* The service engine, for any number of units, any dependencies, kinds    *)
(* and policies, any burst limit and window: the start order is exact,     *)
(* units start after what they depend on, no unit has two processes and no *)
(* unit is restarted more often than the limit allows.                     *)
(***************************************************************************)
EXTENDS RacInit, FiniteSetTheorems, SequenceTheorems, WellFoundedInduction, TLAPS

-------------------------------------------------------------------------------
(* Loops over indices *)

\* A set of natural numbers that is not empty has a least element.
LEMMA Least ==
    ASSUME NEW T, T \subseteq Nat, T # {}
    PROVE  \E x \in T : \A y \in T : x <= y
<1> DEFINE R == OpToRel(<, Nat)
<1>1. IsWellFoundedOn(R, Nat)
  BY ZenonT(30), NatLessThanWellFounded
<1>2. \A x, y \in Nat : <<y, x>> \in R <=> y < x
  BY ZenonT(30) DEF OpToRel
<1> HIDE DEF R
<1>3. PICK x \in T : \A y \in T : ~(<<y, x>> \in R)
  BY ZenonT(30), <1>1, WFMin
<1>4. x \in Nat /\ \A y \in T : y \in Nat
  OBVIOUS
<1>5. \A y \in T : ~(y < x)
  BY ZenonT(30), <1>2, <1>3, <1>4
<1>6. \A y \in T : x <= y
  BY <1>4, <1>5
<1> QED
  BY ZenonT(30), <1>6

\* s visits every member of S once, in ascending order.
Visits(s, S) ==
    /\ s \in [1 .. Cardinality(S) -> S]
    /\ \A x \in S : \E i \in 1 .. Cardinality(S) : s[i] = x
    /\ \A i, j \in 1 .. Cardinality(S) : i < j => s[i] < s[j]

\* Every finite set of numbers can be visited in ascending order: the least
\* member first, then the others.  (By the least size for which it could not.)
LEMMA VisitExists ==
    ASSUME NEW S, S \subseteq Nat, IsFiniteSet(S)
    PROVE  \E s : Visits(s, S)
<1> DEFINE Hard(T) == T \subseteq Nat /\ IsFiniteSet(T) /\ ~ \E s : Visits(s, T)
           Bad == {n \in Nat : \E T \in SUBSET Nat : Hard(T) /\ Cardinality(T) = n}
<1> SUFFICES ASSUME Bad # {}
             PROVE  FALSE
  BY ZenonT(30), FS_CardinalityType
<1>1. PICK n \in Bad : \A k \in Bad : n <= k
  BY ZenonT(30), Least
<1>2. PICK T \in SUBSET Nat : Hard(T) /\ Cardinality(T) = n
  BY ZenonT(30), <1>1
<1>3. CASE n = 0
  <2>1. T = {}
    BY ZenonT(30), <1>2, <1>3, FS_EmptySet
  <2>2. Visits([i \in 1 .. 0 |-> 0], T)
    BY <1>2, <1>3, <2>1 DEF Visits
  <2> QED
    BY ZenonT(30), <1>2, <2>2
<1>4. CASE n # 0
  <2>1. T # {}
    BY ZenonT(30), <1>2, <1>4, FS_EmptySet
  <2>2. PICK m \in T : \A y \in T : m <= y
    BY ZenonT(30), <2>1, Least
  <2> DEFINE U == T \ {m}
  <2>3. IsFiniteSet(U) /\ Cardinality(U) = n - 1
    BY ZenonT(30), <1>2, FS_RemoveElement
  <2>4. n - 1 \in Nat /\ n \in Nat
    BY <1>1, <1>4
  <2>5. n - 1 \notin Bad
    BY <1>1, <2>4
  <2>6. PICK t : Visits(t, U)
    <3>1. U \in SUBSET Nat
      OBVIOUS
    <3> HIDE DEF U
    <3> QED
      BY ZenonT(30), <2>3, <2>4, <2>5, <3>1
  <2> DEFINE s == [i \in 1 .. n |-> IF i = 1 THEN m ELSE t[i - 1]]
  <2>7. s[1] = m /\ \A i \in 2 .. n : s[i] = t[i - 1] /\ i - 1 \in 1 .. n - 1 /\ t[i - 1] \in U
    <3>1. t \in [1 .. n - 1 -> U]
      BY ZenonT(30), <2>3, <2>6 DEF Visits
    <3>2. \A i \in 2 .. n : i - 1 \in 1 .. n - 1 /\ i \in 1 .. n /\ i # 1
      BY <2>4
    <3> HIDE DEF U
    <3> QED
      BY <1>4, <2>4, <3>1, <3>2
  <2>8. \A x \in U : x \in Nat /\ m < x
    BY <2>2
  <2>9. s \in [1 .. n -> T]
    <3>1. \A i \in 1 .. n : i = 1 \/ i \in 2 .. n
      BY <2>4
    <3>2. \A i \in 1 .. n : s[i] \in T
      BY ZenonT(30), <2>7, <3>1
    <3>3. s = [i \in 1 .. n |-> s[i]]
      OBVIOUS
    <3> HIDE DEF s
    <3> QED
      BY ZenonT(30), <3>2, <3>3
  <2>10. \A x \in T : \E i \in 1 .. n : s[i] = x
    <3> SUFFICES ASSUME NEW x \in T
                 PROVE  \E i \in 1 .. n : s[i] = x
      OBVIOUS
    <3>1. CASE x = m
      BY <1>4, <2>4, <2>7, <3>1
    <3>2. CASE x # m
      <4>1. PICK i \in 1 .. n - 1 : t[i] = x
        BY ZenonT(30), <2>3, <2>6, <3>2 DEF Visits
      <4>2. i + 1 \in 2 .. n /\ (i + 1) - 1 = i
        BY <2>4
      <4> HIDE DEF s
      <4>3. s[i + 1] = x
        BY ZenonT(30), <2>7, <4>1, <4>2
      <4> QED
        BY <2>4, <4>2, <4>3
    <3> QED
      BY ZenonT(30), <3>1, <3>2
  <2>11. \A i, j \in 1 .. n : i < j => s[i] < s[j]
    <3> SUFFICES ASSUME NEW i \in 1 .. n, NEW j \in 1 .. n, i < j
                 PROVE  s[i] < s[j]
      OBVIOUS
    <3> HIDE DEF s, U
    <3>1. j \in 2 .. n /\ s[j] \in U
      <4>1. j \in 2 .. n
        BY <2>4
      <4> QED
        BY ZenonT(30), <2>7, <4>1
    <3>2. CASE i = 1
      BY ZenonT(30), <2>7, <2>8, <3>1, <3>2
    <3>3. CASE i # 1
      <4>1. i \in 2 .. n /\ i - 1 < j - 1
        BY <2>4, <3>3
      <4> QED
        BY <2>3, <2>6, <2>7, <3>1, <4>1 DEF Visits
    <3> QED
      BY ZenonT(30), <3>2, <3>3
  <2> HIDE DEF s
  <2>12. Visits(s, T)
    BY ZenonT(30), <1>2, <2>9, <2>10, <2>11 DEF Visits
  <2> QED
    BY ZenonT(30), <1>2, <2>12
<1> QED
  BY ZenonT(30), <1>3, <1>4

\* What Ascending returns.
LEMMA AscendingVisits ==
    ASSUME NEW S, S \subseteq Nat, IsFiniteSet(S)
    PROVE  Visits(Ascending(S), S) /\ Cardinality(S) \in Nat
<1>1. PICK s : Visits(s, S)
  BY ZenonT(30), VisitExists
<1> QED
  BY ZenonT(30), <1>1, FS_CardinalityType DEF Visits, Ascending

\* A function on 1 .. n is a sequence of length n.
LEMMA FunctionIsSeq ==
    ASSUME NEW S, NEW n \in Nat, NEW f \in [1 .. n -> S]
    PROVE  f \in Seq(S) /\ Len(f) = n
<1>1. f \in Seq(S)
  BY ZenonT(30), SeqDef
<1>2. DOMAIN f = 1 .. n /\ DOMAIN f = 1 .. Len(f) /\ Len(f) \in Nat
  BY ZenonT(30), <1>1, LenProperties
<1> QED
  BY <1>1, <1>2

-------------------------------------------------------------------------------
(* resolve_start_order *)

\* Kahn's algorithm: in_degree counts the dependencies that are not in the
\* order yet; those with none are in the order or on the stack, once; and the
\* order so far lists dependencies before what depends on them.
ResolveInv ==
    /\ \A i, j \in DOMAIN order : order[i] = order[j] => i = j
    /\ \A i, j \in DOMAIN ready : ready[i] = ready[j] => i = j
    /\ \A i \in DOMAIN order, j \in DOMAIN ready : order[i] # ready[j]
    /\ \A u \in Units : inDegree[u] = Cardinality(DependsOn(u) \ Range(order))
    /\ \A u \in Units : inDegree[u] = 0 => u \in Range(order) \cup Range(ready)
    /\ \A i \in DOMAIN ready : inDegree[ready[i]] = 0
    /\ \A i \in DOMAIN order : \A v \in DependsOn(order[i]) : \E j \in 1 .. i - 1 : order[j] = v
    /\ phase # "resolve" => ready = <<>>

\* The types of what resolve_start_order works on.
ResolveTypes ==
    /\ unit \in Configs
    /\ inDegree \in [Units -> Nat]
    /\ ready \in Seq(Units)
    /\ order \in Seq(Units)

\* An index of a list is the last one or an earlier one (the unit popped off
\* the ready list, and those that stay).
LEMMA LastOrBefore ==
    ASSUME NEW m \in Nat, NEW j \in 1 .. m
    PROVE  j = m \/ j \in 1 .. m - 1
OBVIOUS

\* Dependencies are units, finitely many.
LEMMA DepsFinite ==
    ASSUME unit \in Configs, NEW u \in Units
    PROVE  /\ DependsOn(u) \subseteq Units
           /\ \A S \in SUBSET Units : S \subseteq Nat /\ IsFiniteSet(S) /\ Cardinality(S) \in Nat
<1>1. DependsOn(u) \subseteq Units
  BY ZenonT(30), RacInitAssumption DEF DependsOn
<1>2. IsFiniteSet(Units) /\ Units \subseteq Nat
  BY RacInitAssumption, FS_Interval DEF Units
<1>3. \A S \in SUBSET Units : IsFiniteSet(S) /\ Cardinality(S) \in Nat
  BY ZenonT(30), <1>2, FS_Subset, FS_CardinalityType
<1> QED
  BY ZenonT(30), <1>1, <1>2, <1>3

\* A unit of the order or on the stack waits for nothing.
LEMMA OrderedIsFree ==
    ASSUME ResolveTypes, ResolveInv, NEW i \in DOMAIN order
    PROVE  order[i] \in Units /\ inDegree[order[i]] = 0
<1>1. order[i] \in Units /\ DOMAIN order = 1 .. Len(order) /\ Len(order) \in Nat
  BY DEF ResolveTypes
<1>2. \A v \in DependsOn(order[i]) : v \in Range(order)
  BY <1>1 DEF ResolveInv, Range
<1>3. DependsOn(order[i]) \ Range(order) = {}
  BY ZenonT(30), <1>2
<1> QED
  BY ZenonT(30), <1>1, <1>3, FS_EmptySet DEF ResolveInv

\* One turn of the loop.
LEMMA ResolveStep ==
    ASSUME ResolveTypes, ResolveInv, Resolve
    PROVE  ResolveTypes' /\ ResolveInv'
<1> DEFINE n == Len(ready)
           k == Len(order)
           u == ready[n]
           E == {v \in Units : u \in DependsOn(v)}
           A == {v \in E : inDegree[v] = 1}
           a == Ascending(A)
           c == Cardinality(A)
<1>1. /\ n \in Nat /\ n >= 1 /\ k \in Nat /\ u \in Units
      /\ DOMAIN ready = 1 .. n /\ DOMAIN order = 1 .. k
      /\ \A i \in 1 .. n : ready[i] \in Units
      /\ \A i \in 1 .. k : order[i] \in Units
  BY DEF ResolveTypes, Resolve
<1>2. /\ phase = "resolve" /\ UNCHANGED <<unit, phase>>
      /\ order' = Append(order, u)
      /\ inDegree' = [v \in Units |-> IF v \in E THEN inDegree[v] - 1 ELSE inDegree[v]]
      /\ ready' = SubSeq(ready, 1, n - 1) \o a
  BY ZenonT(30) DEF Resolve
<1>3. A \subseteq Units /\ Visits(a, A) /\ c \in Nat
  BY ZenonT(30), <1>1, DepsFinite, AscendingVisits DEF ResolveTypes
<1>4. a \in Seq(Units) /\ Len(a) = c /\ \A i \in 1 .. c : a[i] \in A
  <2>1. a \in [1 .. c -> A]
    BY ZenonT(30), <1>3 DEF Visits
  <2> HIDE DEF a, A, c
  <2>2. a \in [1 .. c -> Units] /\ \A i \in 1 .. c : a[i] \in A
    BY ZenonT(30), <1>3, <2>1
  <2> QED
    BY ZenonT(30), <1>3, <2>2, FunctionIsSeq
<1>5. unit \in Configs /\ unit' = unit /\ \A v \in Units : (DependsOn(v))' = DependsOn(v)
  BY ZenonT(30), <1>2 DEF ResolveTypes, DependsOn
<1> HIDE DEF a, A, c
<1>6. /\ order' \in Seq(Units) /\ DOMAIN order' = 1 .. k + 1
      /\ order'[k + 1] = u /\ \A i \in 1 .. k : order'[i] = order[i]
  BY <1>1, <1>2 DEF ResolveTypes
<1>7. /\ ready' \in Seq(Units) /\ DOMAIN ready' = 1 .. (n - 1) + c
      /\ \A i \in 1 .. n - 1 : ready'[i] = ready[i]
      /\ \A i \in 1 .. c : ready'[(n - 1) + i] = a[i]
  <2> DEFINE f == SubSeq(ready, 1, n - 1)
  <2>1. f \in Seq(Units) /\ Len(f) = n - 1 /\ \A i \in 1 .. n - 1 : f[i] = ready[i]
    BY <1>1 DEF ResolveTypes
  <2> HIDE DEF f
  <2>2. ready' = f \o a
    BY ZenonT(30), <1>2 DEF f
  <2>3. /\ ready' \in Seq(Units) /\ Len(ready') = (n - 1) + c
        /\ \A i \in 1 .. (n - 1) + c : ready'[i] = IF i <= n - 1 THEN f[i] ELSE a[i - (n - 1)]
    BY <1>4, <2>1, <2>2, ConcatProperties
  <2>4. DOMAIN ready' = 1 .. (n - 1) + c
    BY ZenonT(30), <2>3, LenProperties
  <2>5. ASSUME NEW i \in 1 .. n - 1
        PROVE  ready'[i] = ready[i]
    <3>1. i \in 1 .. (n - 1) + c /\ i <= n - 1
      BY <1>1, <1>3
    <3> QED
      BY ZenonT(30), <2>1, <2>3, <3>1
  <2>6. ASSUME NEW i \in 1 .. c
        PROVE  ready'[(n - 1) + i] = a[i]
    <3>1. (n - 1) + i \in 1 .. (n - 1) + c /\ ~((n - 1) + i <= n - 1) /\ ((n - 1) + i) - (n - 1) = i
      BY <1>1, <1>3
    <3> QED
      BY ZenonT(30), <2>3, <3>1
  <2> QED
    BY ZenonT(30), <2>3, <2>4, <2>5, <2>6
<1>8. Range(order') = Range(order) \cup {u}
  BY <1>1, <1>6 DEF Range
<1>9. u \notin Range(order) /\ inDegree[u] = 0
  BY <1>1 DEF ResolveInv, Range
<1>10. \A v \in Units : /\ inDegree'[v] \in Nat
                        /\ inDegree'[v] = Cardinality(DependsOn(v) \ Range(order'))
                        /\ v \in E => inDegree[v] >= 1
  <2> SUFFICES ASSUME NEW v \in Units
               PROVE  /\ inDegree'[v] \in Nat
                      /\ inDegree'[v] = Cardinality(DependsOn(v) \ Range(order'))
                      /\ v \in E => inDegree[v] >= 1
    BY ZenonT(30)
  <2> DEFINE D == DependsOn(v) \ Range(order)
  <2>1. D \in SUBSET Units /\ IsFiniteSet(D) /\ Cardinality(D) \in Nat /\ inDegree[v] = Cardinality(D)
    BY ZenonT(30), <1>5, DepsFinite DEF ResolveInv
  <2>2. DependsOn(v) \ Range(order') = D \ {u}
    BY ZenonT(30), <1>8
  <2>3. CASE v \in E
    <3>1. u \in D
      BY ZenonT(30), <1>9, <2>3
    <3>2. Cardinality(D \ {u}) = Cardinality(D) - 1 /\ Cardinality(D \ {u}) \in Nat
      BY ZenonT(30), <2>1, <3>1, FS_RemoveElement, FS_CardinalityType
    <3>3. inDegree'[v] = inDegree[v] - 1
      BY ZenonT(30), <1>2, <2>3
    <3>4. inDegree'[v] = Cardinality(D \ {u}) /\ inDegree[v] >= 1
      <4> DEFINE x == Cardinality(D)
                 y == Cardinality(D \ {u})
      <4> HIDE DEF x, y
      <4>1. x \in Nat /\ y \in Nat /\ y = x - 1 /\ inDegree[v] = x /\ inDegree'[v] = inDegree[v] - 1
        BY ZenonT(30), <2>1, <3>2, <3>3 DEF x, y
      <4>2. inDegree'[v] = y /\ inDegree[v] >= 1
        BY <4>1
      <4> QED
        BY ZenonT(30), <4>2 DEF y
    <3> QED
      BY ZenonT(30), <2>2, <3>2, <3>4
  <2>4. CASE v \notin E
    <3>1. D \ {u} = D
      BY ZenonT(30), <2>4
    <3>2. inDegree'[v] = inDegree[v]
      BY ZenonT(30), <1>2, <2>4
    <3> QED
      BY ZenonT(30), <2>1, <2>2, <2>4, <3>1, <3>2
  <2> QED
    BY ZenonT(30), <2>3, <2>4
<1>11. ResolveTypes'
  BY ZenonT(30), <1>2, <1>5, <1>6, <1>7, <1>10 DEF ResolveTypes
<1>12. \A v \in Units : v \notin E => inDegree'[v] = inDegree[v]
  BY ZenonT(30), <1>2
<1>13. \A v \in A : v \in Units /\ v \in E /\ inDegree[v] = 1 /\ inDegree'[v] = 0
  BY <1>2 DEF A
<1>busy. \A v \in Units : v \in E => inDegree[v] # 0
  <2> SUFFICES ASSUME NEW v \in Units, v \in E
               PROVE  inDegree[v] # 0
    OBVIOUS
  <2>1. inDegree[v] \in Nat /\ inDegree[v] >= 1
    BY ZenonT(30), <1>10 DEF ResolveTypes
  <2> QED
    BY <2>1
<1> HIDE DEF u, E
<1>14. \A i, j \in DOMAIN order' : order'[i] = order'[j] => i = j
  BY <1>1, <1>6, <1>9 DEF ResolveInv, Range
<1>15. \A i \in DOMAIN ready' : \/ i \in 1 .. n - 1 /\ ready'[i] = ready[i] /\ inDegree[ready[i]] = 0
                                \/ i - (n - 1) \in 1 .. c /\ ready'[i] = a[i - (n - 1)] /\ ready'[i] \in A
  <2> SUFFICES ASSUME NEW i \in 1 .. (n - 1) + c, i \notin 1 .. n - 1
               PROVE  i - (n - 1) \in 1 .. c /\ ready'[i] = a[i - (n - 1)] /\ ready'[i] \in A
    BY <1>1, <1>7 DEF ResolveInv
  <2>1. i - (n - 1) \in 1 .. c /\ (n - 1) + (i - (n - 1)) = i
    BY <1>1, <1>3
  <2> QED
    BY ZenonT(30), <1>4, <1>7, <2>1
<1>16. \A i, j \in DOMAIN ready' : ready'[i] = ready'[j] => i = j
  <2> SUFFICES ASSUME NEW i \in DOMAIN ready', NEW j \in DOMAIN ready', ready'[i] = ready'[j]
               PROVE  i = j
    OBVIOUS
  <2>1. CASE i \in 1 .. n - 1 /\ j \in 1 .. n - 1
    BY <1>1, <1>7, <2>1 DEF ResolveInv
  <2>2. CASE i \notin 1 .. n - 1 /\ j \notin 1 .. n - 1
    <3> DEFINE x == i - (n - 1)
               y == j - (n - 1)
    <3>1. x \in 1 .. c /\ y \in 1 .. c /\ a[x] = a[y] /\ a[x] \in Nat
      BY <1>13, <1>15, <2>2, RacInitAssumption DEF Units
    <3>2. ~(x < y) /\ ~(y < x)
      BY <1>3, <3>1 DEF Visits, c
    <3>3. x = y
      BY <1>3, <3>1, <3>2
    <3> QED
      BY <1>1, <1>3, <1>7, <3>3
  <2>3. CASE ~(i \in 1 .. n - 1 <=> j \in 1 .. n - 1)
    BY <1>13, <1>15, <2>3
  <2> QED
    BY ZenonT(30), <2>1, <2>2, <2>3
<1>17. \A i \in DOMAIN ready' : inDegree'[ready'[i]] = 0
  <2> SUFFICES ASSUME NEW i \in DOMAIN ready'
               PROVE  inDegree'[ready'[i]] = 0
    OBVIOUS
  <2>1. CASE i \in 1 .. n - 1 /\ ready'[i] = ready[i] /\ inDegree[ready[i]] = 0
    <3>1. ready[i] \in Units
      BY <1>1, <2>1
    <3>2. ready[i] \notin E
      BY ZenonT(30), <1>busy, <2>1, <3>1
    <3> QED
      BY <1>12, <2>1, <3>1, <3>2
  <2>2. CASE ready'[i] \in A
    BY ZenonT(30), <1>13, <2>2
  <2> QED
    BY ZenonT(30), <1>15, <2>1, <2>2
<1>18. \A i \in DOMAIN order', j \in DOMAIN ready' : order'[i] # ready'[j]
  <2>1. \A i \in DOMAIN order' : inDegree[order'[i]] = 0
    BY <1>1, <1>6, <1>9, OrderedIsFree
  <2> SUFFICES ASSUME NEW i \in DOMAIN order', NEW j \in 1 .. n - 1
               PROVE  order'[i] # ready[j]
    BY <1>13, <1>15, <2>1
  <2>2. CASE i = k + 1
    BY <1>1, <1>6, <2>2 DEF ResolveInv, u
  <2>3. CASE i \in 1 .. k
    BY <1>1, <1>6, <2>3 DEF ResolveInv
  <2> QED
    BY <1>1, <1>6, <2>2, <2>3
<1>19. \A v \in Units : inDegree'[v] = 0 => v \in Range(order') \cup Range(ready')
  <2> SUFFICES ASSUME NEW v \in Units, inDegree'[v] = 0
               PROVE  v \in Range(order') \cup Range(ready')
    OBVIOUS
  <2>1. CASE inDegree[v] = 0
    <3>1. CASE v \in Range(order)
      BY ZenonT(30), <1>8, <3>1
    <3>2. CASE v \notin Range(order)
      <4>1. PICK i \in 1 .. n : v = ready[i]
        BY <1>1, <2>1, <3>2 DEF ResolveInv, Range
      <4>2. CASE i = n
        BY ZenonT(30), <1>8, <4>1, <4>2 DEF u
      <4>3. CASE i \in 1 .. n - 1
        <5>1. i \in DOMAIN ready' /\ ready'[i] = v
          BY <1>1, <1>3, <1>7, <4>1, <4>3
        <5> QED
          BY ZenonT(30), <5>1 DEF Range
      <4>4. i = n \/ i \in 1 .. n - 1
        BY ZenonT(30), <1>1, <4>1, LastOrBefore
      <4> QED
        BY ZenonT(30), <4>2, <4>3, <4>4
    <3> QED
      BY ZenonT(30), <3>1, <3>2
  <2>2. CASE inDegree[v] # 0
    <3>1. v \in E /\ inDegree[v] = 1
      BY <1>2, <1>12, <2>2 DEF ResolveTypes
    <3>2. v \in A
      BY ZenonT(30), <3>1 DEF A
    <3>3. PICK i \in 1 .. c : a[i] = v
      BY ZenonT(30), <1>3, <3>2 DEF Visits, c
    <3>4. (n - 1) + i \in DOMAIN ready' /\ ready'[(n - 1) + i] = v
      BY <1>1, <1>3, <1>7, <3>3
    <3> QED
      BY ZenonT(30), <3>4 DEF Range
  <2> QED
    BY ZenonT(30), <2>1, <2>2
<1>20. \A i \in DOMAIN order' : \A v \in DependsOn(order'[i]) : \E j \in 1 .. i - 1 : order'[j] = v
  <2> SUFFICES ASSUME NEW i \in 1 .. k + 1, NEW v \in DependsOn(order'[i])
               PROVE  \E j \in 1 .. i - 1 : order'[j] = v
    BY ZenonT(30), <1>6
  <2>1. CASE i \in 1 .. k
    <3>1. PICK j \in 1 .. i - 1 : order[j] = v
      BY <1>1, <1>6, <2>1 DEF ResolveInv
    <3>2. j \in 1 .. k /\ order'[j] = v
      BY <1>1, <1>6, <2>1, <3>1
    <3> QED
      BY ZenonT(30), <3>2
  <2>2. CASE i = k + 1
    <3> DEFINE D == DependsOn(u) \ Range(order)
    <3>1. IsFiniteSet(D) /\ Cardinality(D) = 0
      BY <1>1, <1>5, <1>9, DepsFinite DEF ResolveInv, u
    <3>2. D = {}
      BY ZenonT(30), <3>1, FS_EmptySet
    <3>3. v \in Range(order)
      BY ZenonT(30), <1>6, <2>2, <3>2
    <3>4. PICK j \in 1 .. k : order[j] = v
      BY ZenonT(30), <1>1, <3>3 DEF Range
    <3> QED
      BY <1>1, <1>6, <2>2, <3>4
  <2> QED
    BY <1>1, <2>1, <2>2
<1>21. \A v \in Units : inDegree'[v] = Cardinality((DependsOn(v))' \ Range(order'))
  BY ZenonT(30), <1>5, <1>10
<1>22. \A i \in DOMAIN order' : \A v \in (DependsOn(order[i]))' : \E j \in 1 .. i - 1 : order'[j] = v
  <2>1. \A i \in DOMAIN order' : order'[i] \in Units
    BY <1>1, <1>6
  <2>2. \A i \in DOMAIN order' : (DependsOn(order[i]))' = DependsOn(order'[i])
    BY ZenonT(30), <1>5 DEF DependsOn
  <2> QED
    BY ZenonT(30), <1>20, <2>2
<1>23. (phase # "resolve")' => ready' = <<>>
  BY ZenonT(30), <1>2
<1>24. ResolveInv'
  BY ZenonT(30), <1>14, <1>16, <1>17, <1>18, <1>19, <1>21, <1>22, <1>23 DEF ResolveInv
<1> QED
  BY ZenonT(30), <1>11, <1>24

-------------------------------------------------------------------------------
(* The other invariants *)

\* start_all: the units before next in the order have been started, and until
\* it is done no others, nor has anything been restarted.
StartInv ==
    /\ phase = "resolve" => next = 1
    /\ phase # "supervise" =>
         /\ \A u \in Units : state[u] # "Loaded" => \E i \in 1 .. next - 1 : order[i] = u
         /\ \A p \in Pids : owner[p] # 0 => state[owner[p]] # "Loaded"
         /\ \A u \in Units : tracker[u] = <<>> /\ restarts[u] = <<>>
    /\ phase = "supervise" => next = Len(order) + 1
    /\ oneshot # 0 => state[oneshot] # "Loaded"
    /\ \A i \in 1 .. next - 1 : state[order[i]] # "Loaded"

\* Running or not reaped yet.
InPlay(p) == proc[p] \in {"running", "ok", "fail"}

\* A unit has at most one process that is not reaped, and the list of pids
\* names processes that were started for the unit.
ProcInv ==
    /\ \A p \in Pids : p >= nextPid => proc[p] = "unborn" /\ owner[p] = 0
    /\ \A e \in pids : owner[e[2]] = e[1]
    /\ \A p, q \in Pids : InPlay(p) /\ InPlay(q) /\ owner[p] = owner[q] /\ owner[p] # 0 => p = q

\* The list still holds a process of u that is not reaped.
Watched(u) == \E p \in Pids : <<u, p>> \in pids /\ InPlay(p)

\* Restart times grow.
Sorted(r) == \A i, j \in DOMAIN r : i <= j => r[i] <= r[j]

\* t holds the last entries of r, and those it leaves out are too old at time m.
Tracks(t, r, m) ==
    /\ Len(t) <= Len(r)
    /\ \A i \in DOMAIN t : t[i] = r[Len(r) - Len(t) + i]
    /\ \A i \in 1 .. Len(r) - Len(t) : m - r[i] > BurstWindow

\* No more than BurstLimit of r within the window.
Spread(r) == \A i \in DOMAIN r : i + BurstLimit \in DOMAIN r => r[i + BurstLimit] - r[i] > BurstWindow

\* While a restart is possible the tracker tells the recent ones.
BurstInv ==
    \A u \in Units :
        /\ Sorted(restarts[u])
        /\ \A i \in DOMAIN restarts[u] : restarts[u][i] <= now
        /\ Watched(u) => Tracks(tracker[u], restarts[u], now)
        /\ Spread(restarts[u])

IInv == TypeOK /\ ResolveInv /\ StartInv /\ ProcInv /\ BurstInv

\* What resolve_start_order uses is typed.
LEMMA TypesOfResolve == TypeOK => ResolveTypes
  BY ZenonT(30) DEF TypeOK, ResolveTypes

\* The invariant holds when the engine starts.
LEMMA EngineInitial == Init => IInv
<1> SUFFICES ASSUME Init
             PROVE  IInv
  OBVIOUS
<1> DEFINE Z == {u \in Units : DependsOn(u) = {}}
<1>1. Z \subseteq Units /\ Z \subseteq Nat /\ IsFiniteSet(Z)
  BY DepsFinite, RacInitAssumption, FS_Interval, FS_Subset DEF Init, Units
<1>2. Visits(ready, Z) /\ Cardinality(Z) \in Nat
  BY ZenonT(30), <1>1, AscendingVisits DEF Init
<1>3. \A u \in Units : Cardinality(DependsOn(u)) \in Nat /\ IsFiniteSet(DependsOn(u))
  BY ZenonT(30), DepsFinite DEF Init
<1>z. \A u \in Units : Cardinality(DependsOn(u)) = 0 <=> u \in Z
  BY ZenonT(30), <1>3, FS_EmptySet
<1>4. ready \in Seq(Units) /\ DOMAIN ready = 1 .. Cardinality(Z)
  <2> HIDE DEF Z
  <2>1. ready \in [1 .. Cardinality(Z) -> Units]
    BY ZenonT(30), <1>1, <1>2 DEF Visits
  <2> QED
    BY ZenonT(30), <1>2, <2>1, FunctionIsSeq
<1>5. order = <<>> /\ order \in Seq(Units) /\ Len(order) = 0 /\ DOMAIN order = {} /\ Range(order) = {}
  BY DEF Init, Range
<1>6. TypeOK
  <2>1. <<>> \in Seq(0 .. MaxTime)
    BY ZenonT(30), EmptySeq
  <2>2. tracker \in [Units -> Seq(0 .. MaxTime)] /\ restarts \in [Units -> Seq(0 .. MaxTime)]
    BY ZenonT(30), <2>1 DEF Init
  <2>3. inDegree \in [Units -> Nat]
    BY ZenonT(30), <1>3 DEF Init
  <2>4. now \in 0 .. MaxTime /\ nextPid \in 1 .. MaxPid + 1 /\ next \in 1 .. Len(order) + 1
    BY <1>5, RacInitAssumption DEF Init
  <2> QED
    BY ZenonT(30), <1>4, <1>5, <2>2, <2>3, <2>4 DEF Init, TypeOK
<1>7. ResolveInv
  <2>1. \A u \in Units : inDegree[u] = Cardinality(DependsOn(u) \ Range(order))
    <3>1. \A u \in Units : DependsOn(u) \ Range(order) = DependsOn(u)
      BY ZenonT(30), <1>5
    <3> QED
      BY ZenonT(30), <3>1 DEF Init
  <2>2. \A u \in Units : inDegree[u] = 0 <=> u \in Z
    BY ZenonT(30), <1>z DEF Init
  <2> HIDE DEF Z
  <2>3. \A u \in Z : u \in Range(ready)
    BY ZenonT(30), <1>2, <1>4 DEF Visits, Range
  <2>4. \A i \in DOMAIN ready : ready[i] \in Z
    BY ZenonT(30), <1>2, <1>4 DEF Visits
  <2>5. \A i, j \in DOMAIN ready : ready[i] = ready[j] => i = j
    <3> SUFFICES ASSUME NEW i \in DOMAIN ready, NEW j \in DOMAIN ready, ready[i] = ready[j]
                 PROVE  i = j
      OBVIOUS
    <3>n. ready[i] \in Z /\ i \in 1 .. Cardinality(Z) /\ j \in 1 .. Cardinality(Z)
      BY ZenonT(30), <1>4, <2>4
    <3>m. ready[i] \in Nat
      BY ZenonT(30), <1>1, <3>n
    <3>1. i \in Nat /\ j \in Nat /\ ready[i] \in Nat
      BY <1>2, <3>n, <3>m
    <3>2. ~(i < j) /\ ~(j < i)
      BY <1>2, <1>4, <3>1 DEF Visits
    <3> QED
      BY <3>1, <3>2
  <2>6. phase = "resolve"
    BY ZenonT(30) DEF Init
  <2> QED
    BY ZenonT(30), <1>1, <1>5, <2>1, <2>2, <2>3, <2>4, <2>5, <2>6 DEF ResolveInv
<1>8. StartInv
  BY DEF Init, StartInv
<1>9. ProcInv
  BY ZenonT(30) DEF Init, ProcInv, InPlay
<1>10. BurstInv
  <2> SUFFICES ASSUME NEW u \in Units
               PROVE  /\ Sorted(restarts[u])
                      /\ \A i \in DOMAIN restarts[u] : restarts[u][i] <= now
                      /\ Watched(u) => Tracks(tracker[u], restarts[u], now)
                      /\ Spread(restarts[u])
    BY ZenonT(30) DEF BurstInv
  <2>1. restarts[u] = <<>> /\ ~Watched(u)
    BY ZenonT(30) DEF Init, Watched
  <2> QED
    BY <2>1 DEF Sorted, Spread
<1> QED
  BY ZenonT(30), <1>6, <1>7, <1>8, <1>9, <1>10 DEF IInv
-------------------------------------------------------------------------------
(* Processes *)

\* The types of what describes the processes.
ProcTypes ==
    /\ pids \subseteq Units \X Pids
    /\ proc \in [Pids -> {"unborn", "running", "ok", "fail", "reaped"}]
    /\ owner \in [Pids -> Units \cup {0}]
    /\ nextPid \in 1 .. MaxPid + 1

\* Processes exit, are reaped and leave the list.
ProcsEnd ==
    /\ pids' \subseteq pids
    /\ proc' \in [Pids -> {"unborn", "running", "ok", "fail", "reaped"}]
    /\ \A p \in Pids : InPlay(p)' => InPlay(p)
    /\ \A p \in Pids : proc[p] = "unborn" => proc'[p] = "unborn"
    /\ UNCHANGED <<owner, nextPid>>

\* That starts nothing.
LEMMA EndStep ==
    ASSUME ProcTypes, ProcInv, ProcsEnd
    PROVE  ProcTypes' /\ ProcInv' /\ \A u \in Units : Watched(u)' => Watched(u)
<1>1. ProcTypes'
  BY ZenonT(30) DEF ProcTypes, ProcsEnd
<1>2. ProcInv'
  <2>1. \A p \in Pids : p >= nextPid => proc'[p] = "unborn" /\ owner[p] = 0
    BY ZenonT(30) DEF ProcInv, ProcsEnd
  <2>2. \A e \in pids' : owner[e[2]] = e[1]
    BY ZenonT(30) DEF ProcInv, ProcsEnd
  <2>3. \A p, q \in Pids : InPlay(p)' /\ InPlay(q)' /\ owner[p] = owner[q] /\ owner[p] # 0 => p = q
    BY ZenonT(30) DEF ProcInv, ProcsEnd
  <2>4. owner' = owner /\ nextPid' = nextPid
    BY ZenonT(30) DEF ProcsEnd
  <2> QED
    BY ZenonT(30), <2>1, <2>2, <2>3, <2>4 DEF ProcInv
<1>3. \A u \in Units : Watched(u)' => Watched(u)
  BY ZenonT(30) DEF Watched, ProcsEnd
<1> QED
  BY ZenonT(30), <1>1, <1>2, <1>3

\* A process is started for u, after ps and pr.
Born(u, ps, pr) ==
    /\ nextPid <= MaxPid
    /\ pids' = ps \cup {<<u, nextPid>>}
    /\ proc' = [pr EXCEPT ![nextPid] = "running"]
    /\ owner' = [owner EXCEPT ![nextPid] = u]
    /\ nextPid' = nextPid + 1

\* None is started.
Unborn(ps, pr) == pids' = ps /\ proc' = pr /\ UNCHANGED <<owner, nextPid>>

\* What a call of start_unit may do.
LEMMA StartUnitDoes ==
    ASSUME NEW u \in Units, NEW ps, NEW pr, StartUnit(u, ps, pr),
           state \in [Units -> {"Loaded", "Active", "Stopped", "Failed"}]
    PROVE  /\ Born(u, ps, pr) \/ Unborn(ps, pr)
           /\ state' \in [Units -> {"Loaded", "Active", "Stopped", "Failed"}]
           /\ state'[u] # "Loaded"
           /\ \A v \in Units : v # u => state'[v] = state[v]
           /\ oneshot' \in {oneshot, u, 0}
<1>1. Born(u, ps, pr) \/ Unborn(ps, pr)
  BY ZenonT(30) DEF StartUnit, Spawned, SpawnFailed, Born, Unborn
<1>2. \E x \in {"Active", "Failed"} : state' = [state EXCEPT ![u] = x]
  BY ZenonT(30) DEF StartUnit, Spawned, SpawnFailed
<1>3. oneshot' \in {oneshot, u, 0}
  BY ZenonT(30) DEF StartUnit, Spawned, SpawnFailed
<1> QED
  BY ZenonT(30), <1>1, <1>2, <1>3

\* One process is started for a unit that has none left.
LEMMA BornStep ==
    ASSUME ProcTypes, ProcInv, NEW u \in Units, NEW ps, ps \subseteq pids,
           NEW pr \in [Pids -> {"unborn", "running", "ok", "fail", "reaped"}],
           \A p \in Pids : pr[p] \in {"running", "ok", "fail"} => InPlay(p) /\ owner[p] # u,
           \A p \in Pids : proc[p] = "unborn" => pr[p] = "unborn",
           Born(u, ps, pr)
    PROVE  /\ ProcTypes' /\ ProcInv'
           /\ \A v \in Units : v # u /\ Watched(v)' => Watched(v)
           /\ \A p \in Pids : owner'[p] \in {owner[p], u}
<1> DEFINE n == nextPid
<1>1. n \in Pids /\ n \in Nat /\ nextPid' = n + 1 /\ nextPid' \in 1 .. MaxPid + 1 /\ Pids \subseteq Nat
  BY RacInitAssumption DEF Born, ProcTypes, Pids
<1>2. \A p \in Pids : /\ owner'[p] = IF p = n THEN u ELSE owner[p]
                      /\ proc'[p] = IF p = n THEN "running" ELSE pr[p]
  BY ZenonT(30), <1>1 DEF Born, ProcTypes
<1>3. ProcTypes'
  BY <1>1 DEF Born, ProcTypes
<1>4. \A p \in Pids : p # n /\ InPlay(p)' => InPlay(p) /\ owner[p] # u
  BY ZenonT(30), <1>2 DEF InPlay
<1>5. owner[n] = 0 /\ proc[n] = "unborn"
  BY <1>1 DEF ProcInv
<1>6. \A e \in ps : e \in pids /\ owner[e[2]] = e[1] /\ e[2] \in Pids /\ e[1] \in Units /\ e[1] # 0
  BY RacInitAssumption DEF ProcInv, ProcTypes, Units
<1>7. \A e \in ps : e[2] # n
  BY ZenonT(30), <1>5, <1>6
<1>8. \A e \in pids' : owner'[e[2]] = e[1]
  BY <1>1, <1>2, <1>6, <1>7 DEF Born
<1>9. \A p \in Pids : p >= n + 1 => proc'[p] = "unborn" /\ owner'[p] = 0
  <2> SUFFICES ASSUME NEW p \in Pids, p >= n + 1
               PROVE  proc'[p] = "unborn" /\ owner'[p] = 0
    OBVIOUS
  <2>1. p # n /\ p >= nextPid
    BY <1>1
  <2>2. proc[p] = "unborn" /\ owner[p] = 0
    BY ZenonT(30), <2>1 DEF ProcInv
  <2> QED
    BY ZenonT(30), <1>2, <2>1, <2>2
<1>10. \A p, q \in Pids : InPlay(p)' /\ InPlay(q)' /\ owner'[p] = owner'[q] /\ owner'[p] # 0 => p = q
  <2> SUFFICES ASSUME NEW p \in Pids, NEW q \in Pids,
                      InPlay(p)', InPlay(q)', owner'[p] = owner'[q], owner'[p] # 0
               PROVE  p = q
    OBVIOUS
  <2>1. CASE p # n /\ q # n
    BY <1>2, <1>4, <2>1 DEF ProcInv
  <2>2. CASE p = n \/ q = n
    BY ZenonT(30), <1>2, <1>4, <2>2
  <2> QED
    BY ZenonT(30), <2>1, <2>2
<1>11. ProcInv'
  BY ZenonT(30), <1>1, <1>8, <1>9, <1>10 DEF ProcInv
<1>12. \A v \in Units : v # u /\ Watched(v)' => Watched(v)
  <2> SUFFICES ASSUME NEW v \in Units, v # u, NEW p \in Pids, <<v, p>> \in pids', InPlay(p)'
               PROVE  Watched(v)
    BY ZenonT(30) DEF Watched
  <2>1. <<v, p>> \in ps
    BY ZenonT(30) DEF Born
  <2>2. p # n
    BY ZenonT(30), <1>7, <2>1
  <2> QED
    BY ZenonT(30), <1>4, <2>1, <2>2 DEF Watched
<1> QED
  BY ZenonT(30), <1>2, <1>3, <1>11, <1>12

-------------------------------------------------------------------------------
(* record_and_check *)

\* A stretch of indices is visited from its first one on.
LEMMA AscendingInterval ==
    ASSUME NEW m \in Nat, NEW n \in Nat, m <= n
    PROVE  /\ Cardinality(m + 1 .. n) = n - m
           /\ \A i \in 1 .. n - m : Ascending(m + 1 .. n)[i] = m + i
<1> DEFINE S == m + 1 .. n
           s == Ascending(S)
           Bad == {i \in 1 .. n - m : s[i] # m + i}
<1>1. IsFiniteSet(S) /\ Cardinality(S) = n - m
  <2> DEFINE a == m + 1
             c == Cardinality(a .. n)
  <2>1. a \in Int /\ n \in Int /\ a > m
    OBVIOUS
  <2> HIDE DEF a
  <2>2. IsFiniteSet(a .. n) /\ c = IF a > n THEN 0 ELSE n - a + 1
    BY ZenonT(30), <2>1, FS_Interval
  <2> HIDE DEF c
  <2>3. c = n - m
    BY <2>2 DEF a
  <2> QED
    BY ZenonT(30), <2>2, <2>3 DEF a, c
<1>2. Visits(s, S)
  <2>1. S \subseteq Nat
    OBVIOUS
  <2> HIDE DEF S
  <2> QED
    BY ZenonT(30), <1>1, <2>1, AscendingVisits
<1>3. \A i \in 1 .. n - m : s[i] \in m + 1 .. n
  BY ZenonT(30), <1>1, <1>2 DEF Visits
<1>4. \A i, j \in 1 .. n - m : i < j => s[i] < s[j]
  BY ZenonT(30), <1>1, <1>2 DEF Visits
<1>5. \A x \in m + 1 .. n : \E i \in 1 .. n - m : s[i] = x
  BY ZenonT(30), <1>1, <1>2 DEF Visits
<1> HIDE DEF s
<1>6. CASE Bad = {}
  BY ZenonT(30), <1>1, <1>6 DEF s
<1>7. CASE Bad # {}
  <2>1. Bad \subseteq Nat
    OBVIOUS
  <2>2. PICK i \in Bad : \A j \in Bad : i <= j
    <3> HIDE DEF Bad
    <3> QED
      BY ZenonT(30), <1>7, <2>1, Least
  <2>3. i \in 1 .. n - m /\ s[i] # m + i /\ s[i] \in m + 1 .. n /\ m + i \in m + 1 .. n
    BY <1>3, <2>2
  <2>4. \A j \in 1 .. n - m : j < i => s[j] = m + j
    BY <2>2, <2>3
  <2>5. s[i] > m + i
    <3>1. CASE i = 1
      BY <2>3, <3>1
    <3>2. CASE i # 1
      <4>1. i - 1 \in 1 .. n - m /\ i - 1 < i
        BY <2>3, <3>2
      <4>2. s[i - 1] = m + (i - 1) /\ s[i - 1] < s[i]
        BY ZenonT(30), <1>4, <2>3, <2>4, <4>1
      <4> QED
        BY <2>3, <4>2
    <3> QED
      BY ZenonT(30), <3>1, <3>2
  <2>6. PICK j \in 1 .. n - m : s[j] = m + i
    BY ZenonT(30), <1>5, <2>3
  <2>7. j < i \/ j = i \/ i < j
    BY <2>3
  <2>8. ~(j < i)
    BY <2>3, <2>4, <2>6
  <2>9. ~(i < j)
    <3> SUFFICES ASSUME i < j PROVE FALSE
      OBVIOUS
    <3>1. s[i] < s[j]
      BY ZenonT(30), <1>4, <2>3
    <3> QED
      BY <2>3, <2>5, <2>6, <3>1
  <2> QED
    BY ZenonT(30), <2>3, <2>6, <2>7, <2>8, <2>9
<1> QED
  BY ZenonT(30), <1>6, <1>7

\* retain keeps entries of s, one for each position of K.
LEMMA RetainedSeq ==
    ASSUME NEW S, NEW s \in Seq(S), NEW K, K \subseteq DOMAIN s
    PROVE  Retained(s, K) \in Seq(S) /\ Len(Retained(s, K)) = Cardinality(K)
<1>1. DOMAIN s = 1 .. Len(s) /\ Len(s) \in Nat /\ \A i \in DOMAIN s : s[i] \in S
  OBVIOUS
<1>2. K \subseteq Nat /\ IsFiniteSet(K)
  <2>1. 1 \in Int /\ Len(s) \in Int
    OBVIOUS
  <2>2. IsFiniteSet(1 .. Len(s))
    BY ZenonT(30), <2>1, FS_Interval
  <2>3. IsFiniteSet(K)
    BY ZenonT(30), <1>1, <2>2, FS_Subset
  <2> QED
    BY <1>1, <2>3
<1>3. Visits(Ascending(K), K) /\ Cardinality(K) \in Nat
  BY ZenonT(30), <1>2, AscendingVisits
<1>4. \A i \in 1 .. Cardinality(K) : s[Ascending(K)[i]] \in S
  BY ZenonT(30), <1>1, <1>3 DEF Visits
<1>5. Retained(s, K) \in [1 .. Cardinality(K) -> S]
  BY ZenonT(30), <1>4 DEF Retained
<1> QED
  BY ZenonT(30), <1>3, <1>5, FunctionIsSeq

\* The entries of a tracker that are inside the window at time w.
Fresh(t, w) == Retained(t, {k \in DOMAIN t : w - t[k] <= BurstWindow})

\* Since times only grow, retain drops the first entries and keeps the others.
LEMMA FreshIsSuffix ==
    ASSUME NEW t \in Seq(0 .. MaxTime), NEW w \in 0 .. MaxTime, Sorted(t)
    PROVE  \E m \in 0 .. Len(t) :
             /\ Fresh(t, w) \in Seq(0 .. MaxTime)
             /\ Len(Fresh(t, w)) = Len(t) - m
             /\ \A i \in 1 .. Len(t) - m : Fresh(t, w)[i] = t[m + i]
             /\ \A i \in 1 .. m : w - t[i] > BurstWindow
<1> DEFINE n == Len(t)
           K == {k \in DOMAIN t : w - t[k] <= BurstWindow}
<1>1. /\ n \in Nat /\ DOMAIN t = 1 .. n /\ \A i \in 1 .. n : t[i] \in Nat
      /\ MaxTime \in Nat /\ BurstWindow \in Nat /\ w \in Nat
  BY RacInitAssumption
<1>2. PICK m \in 0 .. n : K = m + 1 .. n
  <2>1. CASE K = {}
    <3>1. n \in 0 .. n /\ n + 1 .. n = {}
      BY <1>1
    <3> QED
      BY ZenonT(30), <2>1, <3>1
  <2>2. CASE K # {}
    <3>1. K \subseteq Nat
      BY <1>1
    <3>2. PICK l \in K : \A k \in K : l <= k
      <4> HIDE DEF K
      <4> QED
        BY ZenonT(30), <2>2, <3>1, Least
    <3>3. l \in 1 .. n /\ l - 1 \in 0 .. n /\ (l - 1) + 1 = l
      BY <1>1
    <3>4. ASSUME NEW k \in l .. n
          PROVE  k \in K
      <4>1. k \in 1 .. n /\ l <= k
        BY <1>1, <3>3
      <4>2. t[l] <= t[k]
        BY ZenonT(30), <1>1, <3>3, <4>1 DEF Sorted
      <4>3. t[l] \in Nat /\ t[k] \in Nat /\ w - t[l] <= BurstWindow
        BY ZenonT(30), <1>1, <3>2, <3>3, <4>1
      <4>4. w - t[k] <= BurstWindow
        BY SMTT(60), <1>1, <4>2, <4>3
      <4> QED
        BY ZenonT(30), <1>1, <4>1, <4>4
    <3>5. ASSUME NEW k \in K
          PROVE  k \in l .. n
      BY <1>1, <3>2
    <3>6. K = (l - 1) + 1 .. n
      BY ZenonT(30), <3>3, <3>4, <3>5
    <3> QED
      BY ZenonT(30), <3>3, <3>6
  <2> QED
    BY ZenonT(30), <2>1, <2>2
<1>3. K \subseteq DOMAIN t /\ m \in Nat /\ m <= n
  BY <1>1
<1>4. \A i \in 1 .. m : i \in 1 .. n /\ i \notin K
  BY SMTT(60), <1>1, <1>2
<1>5. \A i \in 1 .. m : w - t[i] > BurstWindow
  <2> SUFFICES ASSUME NEW i \in 1 .. m
               PROVE  w - t[i] > BurstWindow
    OBVIOUS
  <2>1. i \in 1 .. n /\ ~(w - t[i] <= BurstWindow) /\ t[i] \in Nat
    BY ZenonT(30), <1>1, <1>4
  <2> QED
    BY <1>1, <2>1
<1>6. Cardinality(K) = n - m /\ \A i \in 1 .. n - m : Ascending(K)[i] = m + i
  <2> HIDE DEF K, n
  <2> QED
    BY <1>1, <1>2, <1>3, AscendingInterval
<1>7. Fresh(t, w) = Retained(t, K)
  BY ZenonT(30) DEF Fresh
<1> HIDE DEF K
<1>8. Retained(t, K) \in Seq(0 .. MaxTime) /\ Len(Retained(t, K)) = n - m
  BY ZenonT(30), <1>3, <1>6, RetainedSeq
<1>9. \A i \in 1 .. n - m : Retained(t, K)[i] = t[m + i]
  BY ZenonT(30), <1>6 DEF Retained
<1> QED
  BY ZenonT(30), <1>5, <1>7, <1>8, <1>9

\* A restart at time w: the tracker still tells the recent ones, and when it
\* is within the limit the restarts are too.
LEMMA TrackStep ==
    ASSUME NEW t \in Seq(0 .. MaxTime), NEW r \in Seq(0 .. MaxTime), NEW w \in 0 .. MaxTime,
           Sorted(r), \A i \in DOMAIN r : r[i] <= w, Tracks(t, r, w), Spread(r)
    PROVE  LET k == Append(Fresh(t, w), w)
               q == Append(r, w)
           IN  /\ Sorted(q)
               /\ \A i \in DOMAIN q : q[i] <= w
               /\ Tracks(k, q, w)
               /\ Len(k) <= BurstLimit => Spread(q)
<1> DEFINE f == Fresh(t, w)
           k == Append(f, w)
           q == Append(r, w)
           n == Len(r)
           l == Len(t)
<1>1. /\ n \in Nat /\ DOMAIN r = 1 .. n /\ \A i \in 1 .. n : r[i] \in Nat
      /\ l \in Nat /\ DOMAIN t = 1 .. l /\ \A i \in 1 .. l : t[i] \in Nat
      /\ MaxTime \in Nat /\ BurstWindow \in Nat /\ BurstLimit \in Nat /\ w \in Nat
  BY SMTT(60), RacInitAssumption
<1>2. /\ l <= n
      /\ \A i \in 1 .. l : t[i] = r[(n - l) + i]
      /\ \A i \in 1 .. n - l : w - r[i] > BurstWindow
  BY ZenonT(30), <1>1 DEF Tracks
<1>3. Sorted(t)
  <2> SUFFICES ASSUME NEW i \in 1 .. l, NEW j \in 1 .. l, i <= j
               PROVE  t[i] <= t[j]
    BY ZenonT(30), <1>1 DEF Sorted
  <2>1. (n - l) + i \in 1 .. n /\ (n - l) + j \in 1 .. n /\ (n - l) + i <= (n - l) + j
    BY <1>1, <1>2
  <2>2. r[(n - l) + i] <= r[(n - l) + j]
    BY ZenonT(30), <1>1, <2>1 DEF Sorted
  <2> QED
    BY ZenonT(30), <1>2, <2>2
<1>4. PICK m \in 0 .. l :
             /\ f \in Seq(0 .. MaxTime)
             /\ Len(f) = l - m
             /\ \A i \in 1 .. l - m : f[i] = t[m + i]
             /\ \A i \in 1 .. m : w - t[i] > BurstWindow
  BY ZenonT(30), <1>3, FreshIsSuffix
<1> HIDE DEF f
<1>5. /\ k \in Seq(0 .. MaxTime) /\ Len(k) = (l - m) + 1 /\ DOMAIN k = 1 .. (l - m) + 1
      /\ k[(l - m) + 1] = w /\ \A i \in 1 .. l - m : k[i] = f[i]
  BY <1>1, <1>4
<1>6. /\ q \in Seq(0 .. MaxTime) /\ Len(q) = n + 1 /\ DOMAIN q = 1 .. n + 1
      /\ q[n + 1] = w /\ \A i \in 1 .. n : q[i] = r[i]
  BY <1>1
<1> HIDE DEF k, q, n, l
<1>7. \A i \in 1 .. n + 1 : q[i] \in Nat /\ q[i] <= w
  <2> SUFFICES ASSUME NEW i \in 1 .. n + 1
               PROVE  q[i] \in Nat /\ q[i] <= w
    OBVIOUS
  <2>1. CASE i = n + 1
    BY <1>1, <1>6, <2>1
  <2>2. CASE i \in 1 .. n
    <3>1. r[i] \in Nat /\ r[i] <= w
      BY ZenonT(30), <1>1, <2>2
    <3> QED
      BY ZenonT(30), <1>6, <2>2, <3>1
  <2> QED
    BY <1>1, <2>1, <2>2
<1>8. Sorted(q)
  <2> SUFFICES ASSUME NEW i \in 1 .. n + 1, NEW j \in 1 .. n + 1, i <= j
               PROVE  q[i] <= q[j]
    BY ZenonT(30), <1>6 DEF Sorted
  <2>1. CASE j = n + 1
    BY ZenonT(30), <1>6, <1>7, <2>1
  <2>2. CASE j # n + 1
    <3>1. i \in 1 .. n /\ j \in 1 .. n
      BY <1>1, <2>2
    <3>2. r[i] <= r[j]
      BY ZenonT(30), <1>1, <3>1 DEF Sorted
    <3> QED
      BY ZenonT(30), <1>6, <3>1, <3>2
  <2> QED
    BY ZenonT(30), <2>1, <2>2
<1>old. \A i \in 1 .. (n - l) + m : i \in 1 .. n /\ w - r[i] > BurstWindow
  <2> SUFFICES ASSUME NEW i \in 1 .. (n - l) + m
               PROVE  i \in 1 .. n /\ w - r[i] > BurstWindow
    OBVIOUS
  <2>1. i \in 1 .. n
    BY <1>1, <1>2
  <2>2. CASE i <= n - l
    <3>1. i \in 1 .. n - l
      BY <1>1, <1>2, <2>2
    <3> QED
      BY ZenonT(30), <1>2, <2>1, <3>1
  <2>3. CASE ~(i <= n - l)
    <3> DEFINE j == i - (n - l)
    <3>1. j \in 1 .. m /\ j \in 1 .. l /\ (n - l) + j = i
      BY <1>1, <1>2, <2>3
    <3> HIDE DEF j
    <3>2. w - t[j] > BurstWindow /\ t[j] = r[i]
      BY ZenonT(30), <1>2, <1>4, <3>1
    <3> QED
      BY ZenonT(30), <2>1, <3>2
  <2> QED
    BY ZenonT(30), <2>2, <2>3
<1>9. Tracks(k, q, w)
  <2>1. Len(k) <= Len(q) /\ Len(q) - Len(k) = (n - l) + m
    BY <1>1, <1>2, <1>5, <1>6
  <2>2. \A i \in 1 .. (n - l) + m : w - q[i] > BurstWindow
    BY ZenonT(30), <1>6, <1>old
  <2>3. ASSUME NEW i \in 1 .. (l - m) + 1
        PROVE  k[i] = q[((n - l) + m) + i]
    <3>1. CASE i = (l - m) + 1
      <4>1. ((n - l) + m) + i = n + 1
        BY <1>1, <3>1
      <4> QED
        BY ZenonT(30), <1>5, <1>6, <3>1, <4>1
    <3>2. CASE i # (l - m) + 1
      <4>1. /\ i \in 1 .. l - m /\ m + i \in 1 .. l
            /\ ((n - l) + m) + i \in 1 .. n /\ (n - l) + (m + i) = ((n - l) + m) + i
        BY <1>1, <1>2, <3>2
      <4>2. k[i] = t[m + i]
        BY ZenonT(30), <1>4, <1>5, <4>1
      <4>3. t[m + i] = r[((n - l) + m) + i]
        BY ZenonT(30), <1>2, <4>1
      <4> QED
        BY ZenonT(30), <1>6, <4>1, <4>2, <4>3
    <3> QED
      BY ZenonT(30), <3>1, <3>2
  <2> QED
    BY ZenonT(30), <1>5, <2>1, <2>2, <2>3 DEF Tracks
<1>10. ASSUME Len(k) <= BurstLimit
       PROVE  Spread(q)
  <2> SUFFICES ASSUME NEW i \in 1 .. n + 1, i + BurstLimit \in 1 .. n + 1
               PROVE  q[i + BurstLimit] - q[i] > BurstWindow
    BY ZenonT(30), <1>6 DEF Spread
  <2>1. (l - m) + 1 <= BurstLimit /\ BurstLimit >= 1
    BY <1>1, <1>5, <1>10
  <2>2. CASE i + BurstLimit = n + 1
    <3>1. i \in 1 .. (n - l) + m
      BY <1>1, <1>2, <2>1, <2>2
    <3>2. i \in 1 .. n /\ w - r[i] > BurstWindow
      BY ZenonT(30), <1>old, <3>1
    <3> QED
      BY ZenonT(30), <1>6, <2>2, <3>2
  <2>3. CASE i + BurstLimit # n + 1
    <3>1. i \in 1 .. n /\ i + BurstLimit \in 1 .. n
      BY <1>1, <2>1, <2>3
    <3>2. r[i + BurstLimit] - r[i] > BurstWindow
      BY ZenonT(30), <1>1, <3>1 DEF Spread
    <3> QED
      BY ZenonT(30), <1>6, <3>1, <3>2
  <2> QED
    BY ZenonT(30), <2>2, <2>3
<1> QED
  BY ZenonT(30), <1>6, <1>7, <1>8, <1>9, <1>10 DEF k, q, f

-------------------------------------------------------------------------------
(* The invariant from step to step *)

\* The types split into those of the parts.
LEMMA TypeParts ==
    /\ TypeOK <=> /\ ResolveTypes /\ ProcTypes
                  /\ phase \in {"resolve", "start", "supervise"}
                  /\ next \in 1 .. Len(order) + 1
                  /\ state \in [Units -> {"Loaded", "Active", "Stopped", "Failed"}]
                  /\ oneshot \in Units \cup {0}
                  /\ tracker \in [Units -> Seq(0 .. MaxTime)]
                  /\ now \in 0 .. MaxTime
                  /\ restarts \in [Units -> Seq(0 .. MaxTime)]
  BY ZenonT(30) DEF TypeOK, ResolveTypes, ProcTypes

\* Steps that leave the order alone keep what is known of it.
LEMMA OrderKept ==
    ASSUME ResolveTypes, ResolveInv, UNCHANGED <<unit, resolveVars>>,
           phase' # "resolve" => ready = <<>>
    PROVE  ResolveTypes' /\ ResolveInv'
<1>1. unit' = unit /\ inDegree' = inDegree /\ ready' = ready /\ order' = order
  BY ZenonT(30) DEF resolveVars
<1> QED
  BY <1>1 DEF ResolveTypes, ResolveInv, DependsOn

\* Steps that restart nothing keep what is known of the restarts.
LEMMA BurstKept ==
    ASSUME BurstInv, UNCHANGED trackVars, now \in 0 .. MaxTime, now' \in 0 .. MaxTime, now <= now',
           tracker \in [Units -> Seq(0 .. MaxTime)], restarts \in [Units -> Seq(0 .. MaxTime)],
           \A u \in Units : Watched(u)' => Watched(u)
    PROVE  BurstInv'
<1> SUFFICES ASSUME NEW u \in Units
             PROVE  /\ Sorted(restarts[u])
                    /\ \A i \in DOMAIN restarts[u] : restarts[u][i] <= now'
                    /\ Watched(u)' => Tracks(tracker[u], restarts[u], now')
                    /\ Spread(restarts[u])
  BY ZenonT(30) DEF BurstInv, trackVars
<1> DEFINE r == restarts[u]
           t == tracker[u]
<1>1. r \in Seq(0 .. MaxTime) /\ t \in Seq(0 .. MaxTime)
  OBVIOUS
<1>2. Sorted(r) /\ Spread(r) /\ (\A i \in DOMAIN r : r[i] <= now) /\ (Watched(u) => Tracks(t, r, now))
  BY ZenonT(30) DEF BurstInv
<1> HIDE DEF r, t
<1>3. /\ Len(r) \in Nat /\ Len(t) \in Nat /\ DOMAIN r = 1 .. Len(r)
      /\ \A i \in DOMAIN r : r[i] \in Nat
      /\ MaxTime \in Nat /\ BurstWindow \in Nat
  BY <1>1, RacInitAssumption
<1>4. \A i \in DOMAIN r : r[i] <= now'
  BY <1>2, <1>3
<1>5. ASSUME Tracks(t, r, now)
      PROVE  Tracks(t, r, now')
  <2>1. \A i \in 1 .. Len(r) - Len(t) : now' - r[i] > BurstWindow
    <3> SUFFICES ASSUME NEW i \in 1 .. Len(r) - Len(t)
                 PROVE  now' - r[i] > BurstWindow
      OBVIOUS
    <3>1. i \in DOMAIN r
      BY <1>3
    <3>2. r[i] \in Nat /\ now - r[i] > BurstWindow
      BY ZenonT(30), <1>3, <1>5, <3>1 DEF Tracks
    <3> QED
      BY SMTT(60), <1>3, <3>2
  <2> QED
    BY ZenonT(30), <1>5, <2>1 DEF Tracks
<1> QED
  BY ZenonT(30), <1>2, <1>4, <1>5 DEF r, t

\* resolve_start_order goes on.
LEMMA InvResolve ==
    ASSUME IInv, Resolve
    PROVE  IInv'
<1>1. ResolveTypes /\ ResolveInv /\ TypeOK /\ StartInv /\ ProcInv /\ BurstInv
  BY ZenonT(30), TypesOfResolve DEF IInv
<1>2. ResolveTypes' /\ ResolveInv'
  BY ZenonT(30), <1>1, ResolveStep
<1>3. /\ phase = "resolve" /\ order' = Append(order, ready[Len(ready)])
      /\ UNCHANGED <<unit, phase, next, state, oneshot, pids, now, tracker, restarts, proc, owner, nextPid>>
  BY ZenonT(30) DEF Resolve, trackVars, procVars
<1>4. next = 1 /\ next' = 1
  BY ZenonT(30), <1>1, <1>3 DEF StartInv
<1>5. Len(order') \in Nat
  BY <1>2 DEF ResolveTypes
<1>6. TypeOK'
  <2>1. next' \in 1 .. Len(order') + 1
    BY <1>4, <1>5
  <2>2. ResolveTypes'
    BY ZenonT(30), <1>2
  <2>3. UNCHANGED <<phase, state, oneshot, pids, tracker, now, proc, owner, nextPid, restarts>>
    BY ZenonT(30), <1>3
  <2> QED
    BY ZenonT(30), <1>1, <2>1, <2>2, <2>3 DEF TypeOK, ResolveTypes
<1>7. StartInv'
  BY <1>1, <1>3, <1>4 DEF StartInv
<1>8. ProcInv'
  BY ZenonT(30), <1>1, <1>3 DEF ProcInv, InPlay
<1>9. BurstInv'
  <2>1. \A u \in Units : Watched(u)' => Watched(u)
    BY ZenonT(30), <1>3 DEF Watched, InPlay
  <2>2. now \in 0 .. MaxTime /\ now' \in 0 .. MaxTime /\ now <= now'
    BY <1>1, <1>3, RacInitAssumption DEF TypeOK
  <2> QED
    BY ZenonT(30), <1>1, <1>3, <2>1, <2>2, BurstKept DEF TypeOK, trackVars
<1> QED
  BY ZenonT(30), <1>2, <1>6, <1>7, <1>8, <1>9 DEF IInv

\* It is done.
LEMMA InvResolved ==
    ASSUME IInv, Resolved
    PROVE  IInv'
<1>1. ResolveTypes /\ ResolveInv /\ TypeOK /\ StartInv /\ ProcInv /\ BurstInv
  BY ZenonT(30), TypesOfResolve DEF IInv
<1>2. /\ phase = "resolve" /\ ready = <<>> /\ phase' = "start"
      /\ UNCHANGED <<unit, resolveVars, next, state, oneshot, pids, now, tracker, restarts, proc, owner, nextPid>>
  BY ZenonT(30) DEF Resolved, trackVars, procVars
<1>3. ResolveTypes' /\ ResolveInv'
  BY ZenonT(30), <1>1, <1>2, OrderKept
<1>4. TypeOK'
  BY ZenonT(30), <1>1, <1>2, <1>3 DEF TypeOK, ResolveTypes, resolveVars
<1>5. StartInv'
  BY ZenonT(30), <1>1, <1>2 DEF StartInv, resolveVars
<1>6. ProcInv'
  BY ZenonT(30), <1>1, <1>2 DEF ProcInv, InPlay
<1>7. BurstInv'
  <2>1. \A u \in Units : Watched(u)' => Watched(u)
    BY ZenonT(30), <1>2 DEF Watched, InPlay
  <2>2. now \in 0 .. MaxTime /\ now' \in 0 .. MaxTime /\ now <= now'
    BY <1>1, <1>2, RacInitAssumption DEF TypeOK
  <2> QED
    BY ZenonT(30), <1>1, <1>2, <2>1, <2>2, BurstKept DEF TypeOK, trackVars
<1> QED
  BY ZenonT(30), <1>3, <1>4, <1>5, <1>6, <1>7 DEF IInv

\* The state of u becomes x.
LEMMA StateOf ==
    ASSUME TypeOK, NEW u \in Units, NEW x \in {"Active", "Stopped", "Failed"},
           state' = [state EXCEPT ![u] = x]
    PROVE  /\ state' \in [Units -> {"Loaded", "Active", "Stopped", "Failed"}]
           /\ \A v \in Units : state[v] # "Loaded" => state'[v] # "Loaded"
           /\ \A v \in Units : state'[v] # "Loaded" => v = u \/ state[v] # "Loaded"
  BY ZenonT(30) DEF TypeOK

\* p is reaped.
LEMMA ReapedEnds ==
    ASSUME TypeOK, NEW p \in Pids, proc' = Reaped(p), Zombie(p), pids' \subseteq pids,
           UNCHANGED <<owner, nextPid>>
    PROVE  ProcsEnd /\ ~InPlay(p)'
  BY ZenonT(30) DEF TypeOK, ProcsEnd, InPlay, Reaped, Zombie

\* Steps that restart and start nothing.
LEMMA QuietStep ==
    ASSUME IInv, UNCHANGED <<unit, resolveVars, trackVars>>, ProcsEnd,
           now' \in 0 .. MaxTime, now <= now',
           phase' \in {"resolve", "start", "supervise"}, phase' # "resolve" => ready = <<>>,
           next' \in 1 .. Len(order) + 1,
           state' \in [Units -> {"Loaded", "Active", "Stopped", "Failed"}],
           oneshot' \in Units \cup {0}, StartInv'
    PROVE  IInv'
<1>1. ResolveTypes /\ ResolveInv /\ TypeOK /\ ProcTypes /\ ProcInv /\ BurstInv
  BY ZenonT(30), TypeParts DEF IInv
<1>2. ResolveTypes' /\ ResolveInv'
  BY ZenonT(30), <1>1, OrderKept
<1>3. ProcTypes' /\ ProcInv' /\ \A u \in Units : Watched(u)' => Watched(u)
  BY ZenonT(30), <1>1, EndStep
<1>4. order' = order /\ tracker' = tracker /\ restarts' = restarts /\ unit' = unit
  BY ZenonT(30) DEF resolveVars, trackVars
<1>5. TypeOK'
  BY ZenonT(30), <1>1, <1>2, <1>3, <1>4 DEF TypeOK, ResolveTypes, ProcTypes
<1>6. BurstInv'
  BY ZenonT(30), <1>1, <1>3, BurstKept DEF TypeOK
<1> QED
  BY ZenonT(30), <1>2, <1>3, <1>5, <1>6 DEF IInv

\* Steps in which a unit that was started changes state.
LEMMA StartKept ==
    ASSUME IInv, UNCHANGED <<phase, next, order>>,
           phase # "supervise" => UNCHANGED <<owner, trackVars>>,
           oneshot' \in {oneshot, 0},
           \A v \in Units : state'[v] # "Loaded" <=> state[v] # "Loaded"
    PROVE  StartInv'
<1>1. TypeOK /\ StartInv
  BY ZenonT(30) DEF IInv
<1>2. \A i \in 1 .. next - 1 : order[i] \in Units
  BY <1>1 DEF TypeOK
<1>3. \A i \in 1 .. next - 1 : state'[order[i]] # "Loaded"
  BY ZenonT(30), <1>1, <1>2 DEF StartInv
<1>4. oneshot' # 0 => state'[oneshot'] # "Loaded"
  BY ZenonT(30), <1>1 DEF StartInv, TypeOK
<1>5. phase # "supervise" =>
         /\ \A u \in Units : state'[u] # "Loaded" => \E i \in 1 .. next - 1 : order[i] = u
         /\ \A p \in Pids : owner'[p] # 0 => state'[owner'[p]] # "Loaded"
         /\ \A u \in Units : tracker'[u] = <<>> /\ restarts'[u] = <<>>
  BY SMTT(60), <1>1 DEF StartInv, TypeOK, trackVars
<1> QED
  BY ZenonT(30), <1>1, <1>3, <1>4, <1>5 DEF StartInv

\* Time stands still.
LEMMA SameTime ==
    ASSUME TypeOK, now' = now
    PROVE  now' \in 0 .. MaxTime /\ now <= now'
  BY RacInitAssumption DEF TypeOK

\* A oneshot's wait returns.
LEMMA InvOneshotDone ==
    ASSUME IInv, OneshotDone
    PROVE  IInv'
<1>1. TypeOK /\ StartInv /\ ResolveInv
  BY ZenonT(30) DEF IInv
<1>2. PICK p \in Pids :
         /\ Zombie(p) /\ proc' = Reaped(p)
         /\ state' = [state EXCEPT ![oneshot] = IF proc[p] = "ok" THEN "Active" ELSE "Failed"]
  BY ZenonT(30) DEF OneshotDone
<1>3. /\ oneshot # 0 /\ oneshot' = 0 /\ pids' = {e \in pids : e[1] # oneshot}
      /\ UNCHANGED <<unit, phase, resolveVars, next, now, trackVars, owner, nextPid>>
  BY ZenonT(30) DEF OneshotDone
<1>4. oneshot \in Units /\ state[oneshot] # "Loaded"
  BY ZenonT(30), <1>1, <1>3 DEF TypeOK, StartInv
<1> DEFINE x == IF proc[p] = "ok" THEN "Active" ELSE "Failed"
<1>5. x \in {"Active", "Stopped", "Failed"} /\ state' = [state EXCEPT ![oneshot] = x]
  BY ZenonT(30), <1>2
<1> HIDE DEF x
<1>6. /\ state' \in [Units -> {"Loaded", "Active", "Stopped", "Failed"}]
      /\ \A v \in Units : state'[v] # "Loaded" <=> state[v] # "Loaded"
  BY ZenonT(30), <1>1, <1>4, <1>5, StateOf
<1>7. ProcsEnd
  BY ZenonT(30), <1>1, <1>2, <1>3, ReapedEnds
<1>8. StartInv'
  BY ZenonT(30), <1>3, <1>6, StartKept DEF resolveVars
<1>9. now' \in 0 .. MaxTime /\ now <= now'
  BY ZenonT(30), <1>1, <1>3, SameTime
<1>10. /\ phase' \in {"resolve", "start", "supervise"} /\ (phase' # "resolve" => ready = <<>>)
       /\ next' \in 1 .. Len(order) + 1 /\ oneshot' \in Units \cup {0}
  BY ZenonT(30), <1>1, <1>3 DEF TypeOK, ResolveInv
<1> QED
  BY ZenonT(30), <1>3, <1>6, <1>7, <1>8, <1>9, <1>10, QuietStep

\* start_all is done: the units in a cycle fail.
LEMMA InvStartDone ==
    ASSUME IInv, StartDone
    PROVE  IInv'
<1>1. TypeOK /\ StartInv /\ ResolveInv
  BY ZenonT(30) DEF IInv
<1>2. /\ phase = "start" /\ oneshot = 0 /\ next > Len(order) /\ phase' = "supervise"
      /\ state' = [u \in Units |-> IF u \in Cycle THEN "Failed" ELSE state[u]]
      /\ UNCHANGED <<unit, resolveVars, next, oneshot, pids, now, trackVars, owner, nextPid, proc>>
  BY ZenonT(30) DEF StartDone, procVars
<1>3. next = Len(order) + 1 /\ \A i \in 1 .. next - 1 : order[i] \in Units
  BY <1>1, <1>2 DEF TypeOK
<1>4. /\ state' \in [Units -> {"Loaded", "Active", "Stopped", "Failed"}]
      /\ \A u \in Units : state[u] # "Loaded" => state'[u] # "Loaded"
  BY ZenonT(30), <1>1, <1>2 DEF TypeOK
<1>5. StartInv'
  BY ZenonT(30), <1>1, <1>2, <1>3, <1>4 DEF StartInv, resolveVars
<1>6. ProcsEnd
  BY ZenonT(30), <1>1, <1>2 DEF TypeOK, ProcsEnd, InPlay
<1>7. now' \in 0 .. MaxTime /\ now <= now'
  BY ZenonT(30), <1>1, <1>2, SameTime
<1>8. /\ phase' \in {"resolve", "start", "supervise"} /\ (phase' # "resolve" => ready = <<>>)
      /\ next' \in 1 .. Len(order) + 1 /\ oneshot' \in Units \cup {0}
  BY ZenonT(30), <1>1, <1>2 DEF TypeOK, ResolveInv
<1> QED
  BY ZenonT(30), <1>2, <1>4, <1>5, <1>6, <1>7, <1>8, QuietStep

\* A child exits.
LEMMA InvChildExits ==
    ASSUME IInv, NEW p \in Pids, NEW status \in {"ok", "fail"}, ChildExits(p, status)
    PROVE  IInv'
<1>1. TypeOK /\ ResolveInv
  BY ZenonT(30) DEF IInv
<1>2. /\ proc[p] = "running" /\ proc' = [proc EXCEPT ![p] = status]
      /\ UNCHANGED <<unit, phase, resolveVars, next, state, oneshot, pids, now, trackVars, owner, nextPid>>
  BY ZenonT(30) DEF ChildExits
<1>3. ProcsEnd
  BY ZenonT(30), <1>1, <1>2 DEF TypeOK, ProcsEnd, InPlay
<1>4. StartInv'
  BY ZenonT(30), <1>2, StartKept DEF resolveVars
<1>5. now' \in 0 .. MaxTime /\ now <= now'
  BY ZenonT(30), <1>1, <1>2, SameTime
<1>6. /\ phase' \in {"resolve", "start", "supervise"} /\ (phase' # "resolve" => ready = <<>>)
      /\ next' \in 1 .. Len(order) + 1 /\ oneshot' \in Units \cup {0}
      /\ state' \in [Units -> {"Loaded", "Active", "Stopped", "Failed"}]
  BY ZenonT(30), <1>1, <1>2 DEF TypeOK, ResolveInv
<1> QED
  BY ZenonT(30), <1>2, <1>3, <1>4, <1>5, <1>6, QuietStep

\* Time passes.
LEMMA InvTick ==
    ASSUME IInv, Tick
    PROVE  IInv'
<1>1. TypeOK /\ ResolveInv
  BY ZenonT(30) DEF IInv
<1>2. /\ now < MaxTime /\ now' = now + 1
      /\ UNCHANGED <<unit, phase, resolveVars, next, state, oneshot, pids, trackVars, owner, nextPid, proc>>
  BY ZenonT(30) DEF Tick, procVars
<1>3. ProcsEnd
  BY ZenonT(30), <1>1, <1>2 DEF TypeOK, ProcsEnd, InPlay
<1>4. StartInv'
  BY ZenonT(30), <1>2, StartKept DEF resolveVars
<1>5. now' \in 0 .. MaxTime /\ now <= now'
  BY <1>1, <1>2, RacInitAssumption DEF TypeOK
<1>6. /\ phase' \in {"resolve", "start", "supervise"} /\ (phase' # "resolve" => ready = <<>>)
      /\ next' \in 1 .. Len(order) + 1 /\ oneshot' \in Units \cup {0}
      /\ state' \in [Units -> {"Loaded", "Active", "Stopped", "Failed"}]
  BY ZenonT(30), <1>1, <1>2 DEF TypeOK, ResolveInv
<1> QED
  BY ZenonT(30), <1>2, <1>3, <1>4, <1>5, <1>6, QuietStep

\* The kernel hands init an orphan.
LEMMA InvAdopt ==
    ASSUME IInv, Adopt
    PROVE  IInv'
<1>1. ResolveTypes /\ ResolveInv /\ TypeOK /\ StartInv /\ ProcInv /\ BurstInv
  BY ZenonT(30), TypesOfResolve DEF IInv
<1> DEFINE n == nextPid
<1>2. /\ n <= MaxPid /\ proc' = [proc EXCEPT ![n] = "running"] /\ nextPid' = n + 1
      /\ UNCHANGED <<unit, phase, resolveVars, next, state, oneshot, pids, now, trackVars, owner>>
  BY ZenonT(30) DEF Adopt
<1>3. n \in Pids /\ n \in Nat /\ nextPid' \in 1 .. MaxPid + 1 /\ Pids \subseteq Nat
  BY SMTT(60), <1>1, <1>2, RacInitAssumption DEF TypeOK, Pids
<1>4. owner[n] = 0
  BY <1>1, <1>3 DEF ProcInv
<1>5. \A p \in Pids : proc'[p] = IF p = n THEN "running" ELSE proc[p]
  BY ZenonT(30), <1>1, <1>2 DEF TypeOK
<1>6. \A e \in pids : owner[e[2]] = e[1] /\ e[1] # 0 /\ e[2] # n
  <2>1. \A e \in pids : e[1] \in Units /\ e[1] # 0 /\ owner[e[2]] = e[1]
    BY SMTT(60), <1>1, RacInitAssumption DEF TypeOK, ProcInv, Units
  <2> QED
    BY ZenonT(30), <1>4, <2>1
<1> HIDE DEF n
<1>7. ResolveTypes' /\ ResolveInv'
  BY ZenonT(30), <1>1, <1>2, OrderKept DEF ResolveInv
<1>8. TypeOK'
  BY ZenonT(30), <1>1, <1>2, <1>3, <1>7 DEF TypeOK, ResolveTypes, resolveVars, trackVars
<1>9. StartInv'
  BY ZenonT(30), <1>2, StartKept DEF resolveVars
<1>10. ProcInv'
  <2>1. \A p \in Pids : p >= n + 1 => proc'[p] = "unborn" /\ owner[p] = 0
    <3> SUFFICES ASSUME NEW p \in Pids, p >= n + 1
                 PROVE  proc'[p] = "unborn" /\ owner[p] = 0
      OBVIOUS
    <3>1. p # n /\ p >= nextPid
      BY <1>3 DEF n
    <3> QED
      BY ZenonT(30), <1>1, <1>5, <3>1 DEF ProcInv
  <2>2. \A p, q \in Pids : InPlay(p)' /\ InPlay(q)' /\ owner[p] = owner[q] /\ owner[p] # 0 => p = q
    BY ZenonT(30), <1>1, <1>4, <1>5 DEF ProcInv, InPlay
  <2> QED
    BY ZenonT(30), <1>2, <1>6, <2>1, <2>2 DEF ProcInv
<1>11. BurstInv'
  <2>1. \A u \in Units : Watched(u)' => Watched(u)
    BY ZenonT(30), <1>2, <1>5, <1>6 DEF Watched, InPlay
  <2>2. now' \in 0 .. MaxTime /\ now <= now'
    BY ZenonT(30), <1>1, <1>2, SameTime
  <2> QED
    BY ZenonT(30), <1>1, <1>2, <2>1, <2>2, BurstKept DEF TypeOK
<1> QED
  BY ZenonT(30), <1>7, <1>8, <1>9, <1>10, <1>11 DEF IInv

\* start_all starts the next unit of the order, which had no process.
LEMMA InvStartNext ==
    ASSUME IInv, StartNext
    PROVE  IInv'
<1>1. ResolveTypes /\ ResolveInv /\ TypeOK /\ StartInv /\ ProcTypes /\ ProcInv /\ BurstInv
  BY ZenonT(30), TypeParts DEF IInv
<1> DEFINE u == order[next]
<1>2. /\ phase = "start" /\ oneshot = 0 /\ next <= Len(order) /\ StartUnit(u, pids, proc)
      /\ next' = next + 1 /\ UNCHANGED <<unit, phase, resolveVars, now, trackVars>>
  BY ZenonT(30) DEF StartNext
<1>3. /\ next \in Nat /\ next \in 1 .. Len(order) /\ next' \in 1 .. Len(order) + 1 /\ u \in Units
      /\ Len(order) \in Nat /\ DOMAIN order = 1 .. Len(order) /\ 1 .. next' - 1 = 1 .. next
      /\ order' = order
  BY SMTT(60), <1>1, <1>2 DEF TypeOK, resolveVars
<1>4. state[u] = "Loaded"
  <2> SUFFICES ASSUME state[u] # "Loaded"
               PROVE  FALSE
    OBVIOUS
  <2>1. PICK i \in 1 .. next - 1 : order[i] = order[next]
    BY ZenonT(30), <1>1, <1>2, <1>3 DEF StartInv
  <2>2. i \in 1 .. Len(order) /\ i # next
    BY <1>3
  <2> QED
    BY ZenonT(30), <1>1, <1>3, <2>1, <2>2 DEF ResolveInv
<1>5. u # 0 /\ \A p \in Pids : owner[p] # u
  <2>1. u # 0
    BY <1>3, RacInitAssumption DEF Units
  <2> QED
    BY ZenonT(30), <1>1, <1>2, <1>4, <2>1 DEF StartInv
<1>a. /\ \A i \in 1 .. next : i = next \/ i \in 1 .. next - 1
      /\ \A i \in 1 .. next - 1 : i \in 1 .. next /\ order[i] \in Units
      /\ next \in 1 .. next
  <2>1. \A i \in 1 .. Len(order) : order[i] \in Units
    BY <1>1 DEF TypeOK
  <2>2. /\ \A i \in 1 .. next : i = next \/ i \in 1 .. next - 1
        /\ \A i \in 1 .. next - 1 : i \in 1 .. next /\ i \in 1 .. Len(order)
        /\ next \in 1 .. next
    BY <1>3
  <2> QED
    BY ZenonT(30), <2>1, <2>2
<1>b. order[next] = u
  OBVIOUS
<1> HIDE DEF u
<1>6. /\ Born(u, pids, proc) \/ Unborn(pids, proc)
      /\ state' \in [Units -> {"Loaded", "Active", "Stopped", "Failed"}]
      /\ state'[u] # "Loaded"
      /\ \A v \in Units : v # u => state'[v] = state[v]
      /\ oneshot' \in {oneshot, u, 0}
  BY ZenonT(30), <1>1, <1>2, <1>3, StartUnitDoes DEF TypeOK
<1>7. /\ ProcTypes' /\ ProcInv' /\ \A v \in Units : v # u /\ Watched(v)' => Watched(v)
      /\ \A p \in Pids : owner'[p] \in {owner[p], u}
  <2>1. CASE Born(u, pids, proc)
    <3>1. \A p \in Pids : proc[p] \in {"running", "ok", "fail"} => InPlay(p) /\ owner[p] # u
      BY ZenonT(30), <1>5 DEF InPlay
    <3>2. proc \in [Pids -> {"unborn", "running", "ok", "fail", "reaped"}]
      BY ZenonT(30), <1>1 DEF TypeOK
    <3> QED
      BY ZenonT(30), <1>1, <1>3, <2>1, <3>1, <3>2, BornStep
  <2>2. CASE Unborn(pids, proc)
    <3>1. ProcsEnd /\ owner' = owner
      BY ZenonT(30), <1>1, <2>2 DEF Unborn, ProcsEnd, InPlay, TypeOK
    <3> QED
      BY ZenonT(30), <1>1, <3>1, EndStep
  <2> QED
    BY ZenonT(30), <1>6, <2>1, <2>2
<1>8. ResolveTypes' /\ ResolveInv'
  BY ZenonT(30), <1>1, <1>2, OrderKept DEF ResolveInv
<1>9. TypeOK'
  BY ZenonT(30), <1>1, <1>2, <1>3, <1>6, <1>7, <1>8 DEF TypeOK, ProcTypes, ResolveTypes, trackVars
<1>10. StartInv'
  <2>1. \A v \in Units : state'[v] # "Loaded" => \E i \in 1 .. next : order[i] = v
    BY ZenonT(30), <1>1, <1>2, <1>6, <1>a, <1>b DEF StartInv
  <2>2. \A p \in Pids : owner'[p] # 0 => state'[owner'[p]] # "Loaded"
    <3> SUFFICES ASSUME NEW p \in Pids, owner'[p] # 0
                 PROVE  state'[owner'[p]] # "Loaded"
      OBVIOUS
    <3>1. CASE owner'[p] = u
      BY ZenonT(30), <1>6, <3>1
    <3>2. CASE owner'[p] = owner[p] /\ owner[p] # u
      <4>1. owner[p] \in Units /\ state[owner[p]] # "Loaded"
        BY ZenonT(30), <1>1, <1>2, <3>2 DEF TypeOK, StartInv
      <4> QED
        BY ZenonT(30), <1>6, <3>2, <4>1
    <3> QED
      BY ZenonT(30), <1>7, <3>1, <3>2
  <2>3. \A i \in 1 .. next : state'[order[i]] # "Loaded"
    <3> SUFFICES ASSUME NEW i \in 1 .. next - 1, order[i] # u
                 PROVE  state'[order[i]] # "Loaded"
      BY ZenonT(30), <1>6, <1>a, <1>b
    <3> QED
      BY ZenonT(30), <1>1, <1>6, <1>a DEF StartInv
  <2>4. oneshot' # 0 => state'[oneshot'] # "Loaded"
    BY ZenonT(30), <1>2, <1>6
  <2>5. \A v \in Units : tracker'[v] = <<>> /\ restarts'[v] = <<>>
    BY ZenonT(30), <1>1, <1>2 DEF StartInv, trackVars
  <2> QED
    BY ZenonT(30), <1>2, <1>3, <2>1, <2>2, <2>3, <2>4, <2>5 DEF StartInv
<1>11. BurstInv'
  <2> SUFFICES ASSUME NEW v \in Units
               PROVE  /\ Sorted(restarts'[v])
                      /\ \A i \in DOMAIN restarts'[v] : restarts'[v][i] <= now'
                      /\ Watched(v)' => Tracks(tracker'[v], restarts'[v], now')
                      /\ Spread(restarts'[v])
    BY ZenonT(30) DEF BurstInv
  <2>1. restarts'[v] = <<>> /\ tracker'[v] = <<>>
    BY ZenonT(30), <1>1, <1>2 DEF StartInv, trackVars
  <2> QED
    BY <2>1 DEF Sorted, Spread, Tracks
<1> QED
  BY ZenonT(30), <1>7, <1>8, <1>9, <1>10, <1>11 DEF IInv

\* on_child_exit: an orphan was reaped, or the unit stays down.
LEMMA InvNoRestart ==
    ASSUME IInv, phase = "supervise", NEW p \in Pids, Zombie(p),
           UNCHANGED <<unit, phase, resolveVars, next, now>>,
           ReapOrphan(p) \/ \E u \in Units : StaysDown(u, p)
    PROVE  IInv'
<1>1. TypeOK /\ StartInv /\ ResolveInv
  BY ZenonT(30) DEF IInv
<1>2. /\ proc' = Reaped(p) /\ pids' \subseteq pids
      /\ UNCHANGED <<oneshot, tracker, restarts, owner, nextPid>>
  BY ZenonT(30) DEF ReapOrphan, StaysDown, trackVars
<1>3. /\ state' \in [Units -> {"Loaded", "Active", "Stopped", "Failed"}]
      /\ \A v \in Units : state[v] # "Loaded" => state'[v] # "Loaded"
  <2>1. CASE ReapOrphan(p)
    BY ZenonT(30), <1>1, <2>1 DEF ReapOrphan, TypeOK
  <2>2. ASSUME NEW u \in Units, StaysDown(u, p)
        PROVE  /\ state' \in [Units -> {"Loaded", "Active", "Stopped", "Failed"}]
               /\ \A v \in Units : state[v] # "Loaded" => state'[v] # "Loaded"
    <3> DEFINE x == IF proc[p] = "ok" THEN "Stopped" ELSE "Failed"
    <3>1. x \in {"Active", "Stopped", "Failed"} /\ state' = [state EXCEPT ![u] = x]
      BY ZenonT(30), <2>2 DEF StaysDown
    <3> HIDE DEF x
    <3> QED
      BY ZenonT(30), <1>1, <3>1, StateOf
  <2> QED
    BY ZenonT(30), <2>1, <2>2
<1>4. ProcsEnd
  BY ZenonT(30), <1>1, <1>2, ReapedEnds
<1>5. StartInv'
  <2>1. \A i \in 1 .. next - 1 : order[i] \in Units
    BY <1>1 DEF TypeOK
  <2>2. order' = order
    BY ZenonT(30) DEF resolveVars
  <2> QED
    BY ZenonT(30), <1>1, <1>2, <1>3, <2>1, <2>2 DEF StartInv, TypeOK
<1>6. now' \in 0 .. MaxTime /\ now <= now'
  BY ZenonT(30), <1>1, SameTime
<1>7. /\ phase' \in {"resolve", "start", "supervise"} /\ (phase' # "resolve" => ready = <<>>)
      /\ next' \in 1 .. Len(order) + 1 /\ oneshot' \in Units \cup {0}
  BY ZenonT(30), <1>1, <1>2 DEF TypeOK, ResolveInv
<1> QED
  BY ZenonT(30), <1>2, <1>3, <1>4, <1>5, <1>6, <1>7, QuietStep DEF trackVars

\* A unit's process was reaped: the unit has no other in play.
LEMMA NoneLeft ==
    ASSUME IInv, NEW u \in Units, NEW p \in Pids, Zombie(p), Owns(u, p)
    PROVE  /\ Watched(u)
           /\ Reaped(p) \in [Pids -> {"unborn", "running", "ok", "fail", "reaped"}]
           /\ \A q \in Pids : Reaped(p)[q] \in {"running", "ok", "fail"} => InPlay(q) /\ owner[q] # u
           /\ \A q \in Pids : proc[q] = "unborn" => Reaped(p)[q] = "unborn"
<1>1. TypeOK /\ ProcInv
  BY ZenonT(30) DEF IInv
<1>2. InPlay(p) /\ <<u, p>> \in pids /\ owner[p] = u /\ u # 0
  BY <1>1, RacInitAssumption DEF Zombie, InPlay, Owns, ProcInv, Units
<1>3. \A q \in Pids : Reaped(p)[q] = IF q = p THEN "reaped" ELSE proc[q]
  BY ZenonT(30), <1>1 DEF Reaped, TypeOK
<1>4. Reaped(p) \in [Pids -> {"unborn", "running", "ok", "fail", "reaped"}]
  BY ZenonT(30), <1>1 DEF Reaped, TypeOK
<1>5. \A q \in Pids : q # p /\ InPlay(q) => owner[q] # u
  BY ZenonT(30), <1>1, <1>2 DEF ProcInv
<1>6. \A q \in Pids : Reaped(p)[q] \in {"running", "ok", "fail"} => q # p /\ InPlay(q)
  BY ZenonT(30), <1>3 DEF InPlay
<1>7. proc[p] # "unborn"
  BY ZenonT(30) DEF Zombie
<1> QED
  BY ZenonT(30), <1>2, <1>3, <1>4, <1>5, <1>6, <1>7 DEF Watched

\* The tracker after record_and_check is typed.
LEMMA RecordTyped ==
    ASSUME TypeOK, NEW u \in Units
    PROVE  /\ Append(Recent(u), now) \in Seq(0 .. MaxTime)
           /\ Recent(u) = Fresh(tracker[u], now)
           /\ tracker[u] \in Seq(0 .. MaxTime) /\ restarts[u] \in Seq(0 .. MaxTime)
           /\ now \in 0 .. MaxTime
<1>1. /\ tracker[u] \in Seq(0 .. MaxTime) /\ restarts[u] \in Seq(0 .. MaxTime)
      /\ now \in 0 .. MaxTime
  BY ZenonT(30) DEF TypeOK
<1>2. Recent(u) = Fresh(tracker[u], now)
  BY ZenonT(30) DEF Recent, Fresh
<1> DEFINE K == {k \in DOMAIN tracker[u] : now - tracker[u][k] <= BurstWindow}
<1>3. K \subseteq DOMAIN tracker[u] /\ Recent(u) = Retained(tracker[u], K)
  BY ZenonT(30) DEF Recent
<1> HIDE DEF K
<1>4. Recent(u) \in Seq(0 .. MaxTime)
  BY ZenonT(30), <1>1, <1>3, RetainedSeq
<1> QED
  BY <1>1, <1>2, <1>4

\* on_child_exit gives u up, after which u is not started again.
LEMMA InvQuarantine ==
    ASSUME IInv, phase = "supervise", NEW p \in Pids, Zombie(p), NEW u \in Units, Owns(u, p),
           UNCHANGED <<unit, phase, resolveVars, next, now>>, Quarantine(u, p)
    PROVE  IInv'
<1>1. ResolveTypes /\ ResolveInv /\ TypeOK /\ StartInv /\ ProcTypes /\ ProcInv /\ BurstInv
  BY ZenonT(30), TypeParts DEF IInv
<1> DEFINE k == Append(Recent(u), now)
<1>2. /\ tracker' = [tracker EXCEPT ![u] = k]
      /\ state' = [state EXCEPT ![u] = "Failed"]
      /\ pids' = pids \ {<<u, p>>} /\ proc' = Reaped(p)
      /\ UNCHANGED <<oneshot, restarts, owner, nextPid>>
  BY ZenonT(30) DEF Quarantine
<1>3. k \in Seq(0 .. MaxTime)
  BY ZenonT(30), <1>1, RecordTyped
<1> HIDE DEF k
<1>4. /\ state' \in [Units -> {"Loaded", "Active", "Stopped", "Failed"}]
      /\ \A v \in Units : state[v] # "Loaded" => state'[v] # "Loaded"
  BY ZenonT(30), <1>1, <1>2, StateOf
<1>5. ProcsEnd
  BY ZenonT(30), <1>1, <1>2, ReapedEnds
<1>6. ProcTypes' /\ ProcInv' /\ \A v \in Units : Watched(v)' => Watched(v)
  BY ZenonT(30), <1>1, <1>5, EndStep
<1>7. ResolveTypes' /\ ResolveInv'
  BY ZenonT(30), <1>1, OrderKept DEF ResolveInv
<1>8. order' = order
  BY ZenonT(30) DEF resolveVars
<1>9. tracker' \in [Units -> Seq(0 .. MaxTime)]
  BY ZenonT(30), <1>1, <1>2, <1>3 DEF TypeOK
<1>10. TypeOK'
  BY ZenonT(30), <1>1, <1>2, <1>4, <1>6, <1>7, <1>8, <1>9 DEF TypeOK, ProcTypes, ResolveTypes
<1>11. StartInv'
  <2>1. \A i \in 1 .. next - 1 : order[i] \in Units
    BY SMTT(60), <1>1 DEF TypeOK
  <2> QED
    BY ZenonT(30), <1>1, <1>2, <1>4, <1>8, <2>1 DEF StartInv, TypeOK
<1>12. ~Watched(u)'
  <2> SUFFICES ASSUME NEW q \in Pids, <<u, q>> \in pids', InPlay(q)'
               PROVE  FALSE
    BY ZenonT(30) DEF Watched
  <2>1. InPlay(q) /\ owner[q] # u
    BY ZenonT(30), <1>2, NoneLeft DEF InPlay
  <2>2. <<u, q>> \in pids
    BY ZenonT(30), <1>2
  <2> QED
    BY ZenonT(30), <1>1, <2>1, <2>2 DEF ProcInv
<1>13. BurstInv'
  <2>1. \A v \in Units : v # u => tracker'[v] = tracker[v]
    BY ZenonT(30), <1>1, <1>2 DEF TypeOK
  <2>2. restarts' = restarts /\ now' = now
    BY ZenonT(30), <1>2
  <2> QED
    BY ZenonT(30), <1>1, <1>6, <1>12, <2>1, <2>2 DEF BurstInv
<1> QED
  BY ZenonT(30), <1>6, <1>7, <1>10, <1>11, <1>13 DEF IInv

\* on_child_exit starts u again, within the limit.
LEMMA InvRestart ==
    ASSUME IInv, phase = "supervise", NEW p \in Pids, Zombie(p), NEW u \in Units, Owns(u, p),
           UNCHANGED <<unit, phase, resolveVars, next, now>>, Restart(u, p)
    PROVE  IInv'
<1>1. ResolveTypes /\ ResolveInv /\ TypeOK /\ StartInv /\ ProcTypes /\ ProcInv /\ BurstInv
  BY ZenonT(30), TypeParts DEF IInv
<1> DEFINE k == Append(Recent(u), now)
           q == Append(restarts[u], now)
           ps == pids \ {<<u, p>>}
           pr == Reaped(p)
<1>2. /\ tracker' = [tracker EXCEPT ![u] = k] /\ Len(tracker'[u]) <= BurstLimit
      /\ restarts' = [restarts EXCEPT ![u] = q]
      /\ StartUnit(u, ps, pr)
  BY ZenonT(30) DEF Restart
<1>3. /\ k \in Seq(0 .. MaxTime) /\ k = Append(Fresh(tracker[u], now), now)
      /\ tracker[u] \in Seq(0 .. MaxTime) /\ restarts[u] \in Seq(0 .. MaxTime)
      /\ now \in 0 .. MaxTime
  BY ZenonT(30), <1>1, RecordTyped
<1>4. q \in Seq(0 .. MaxTime)
  BY SMTT(60), <1>3
<1>5. Watched(u) /\ ps \subseteq pids
  BY ZenonT(30), NoneLeft
<1>6. /\ Sorted(restarts[u]) /\ \A i \in DOMAIN restarts[u] : restarts[u][i] <= now
      /\ Tracks(tracker[u], restarts[u], now) /\ Spread(restarts[u])
  BY ZenonT(30), <1>1, <1>5 DEF BurstInv
<1>7. /\ Sorted(q) /\ \A i \in DOMAIN q : q[i] <= now
      /\ Tracks(k, q, now) /\ (Len(k) <= BurstLimit => Spread(q))
  BY ZenonT(30), <1>3, <1>6, TrackStep
<1>8. /\ pr \in [Pids -> {"unborn", "running", "ok", "fail", "reaped"}]
      /\ \A r \in Pids : pr[r] \in {"running", "ok", "fail"} => InPlay(r) /\ owner[r] # u
      /\ \A r \in Pids : proc[r] = "unborn" => pr[r] = "unborn"
  BY ZenonT(30), NoneLeft
<1> HIDE DEF k, q, ps, pr
<1>9. /\ Born(u, ps, pr) \/ Unborn(ps, pr)
      /\ state' \in [Units -> {"Loaded", "Active", "Stopped", "Failed"}]
      /\ state'[u] # "Loaded"
      /\ \A v \in Units : v # u => state'[v] = state[v]
      /\ oneshot' \in {oneshot, u, 0}
  BY ZenonT(30), <1>1, <1>2, StartUnitDoes DEF TypeOK
<1>10. ProcTypes' /\ ProcInv' /\ \A v \in Units : v # u /\ Watched(v)' => Watched(v)
  <2>1. CASE Born(u, ps, pr)
    BY ZenonT(30), <1>1, <1>5, <1>8, <2>1, BornStep
  <2>2. CASE Unborn(ps, pr)
    <3>1. ProcsEnd
      BY ZenonT(30), <1>5, <1>8, <2>2 DEF Unborn, ProcsEnd, InPlay
    <3> QED
      BY ZenonT(30), <1>1, <3>1, EndStep
  <2> QED
    BY ZenonT(30), <1>9, <2>1, <2>2
<1>11. ResolveTypes' /\ ResolveInv'
  BY ZenonT(30), <1>1, OrderKept DEF ResolveInv
<1>12. order' = order
  BY ZenonT(30) DEF resolveVars
<1>13. /\ tracker' \in [Units -> Seq(0 .. MaxTime)] /\ restarts' \in [Units -> Seq(0 .. MaxTime)]
       /\ tracker'[u] = k /\ restarts'[u] = q /\ Len(k) <= BurstLimit
       /\ \A v \in Units : v # u => tracker'[v] = tracker[v] /\ restarts'[v] = restarts[v]
  BY ZenonT(30), <1>1, <1>2, <1>3, <1>4 DEF TypeOK
<1>14. TypeOK'
  BY ZenonT(30), <1>1, <1>9, <1>10, <1>11, <1>12, <1>13 DEF TypeOK, ProcTypes, ResolveTypes
<1>15. StartInv'
  <2>1. \A i \in 1 .. next - 1 : order[i] \in Units
    BY <1>1 DEF TypeOK
  <2>2. \A v \in Units : state[v] # "Loaded" => state'[v] # "Loaded"
    BY ZenonT(30), <1>9
  <2>3. oneshot' # 0 => state'[oneshot'] # "Loaded"
    BY ZenonT(30), <1>1, <1>9, <2>2 DEF StartInv, TypeOK
  <2> QED
    BY ZenonT(30), <1>1, <1>12, <2>1, <2>2, <2>3 DEF StartInv
<1>16. BurstInv'
  <2> SUFFICES ASSUME NEW v \in Units
               PROVE  /\ Sorted(restarts'[v])
                      /\ \A i \in DOMAIN restarts'[v] : restarts'[v][i] <= now
                      /\ Watched(v)' => Tracks(tracker'[v], restarts'[v], now)
                      /\ Spread(restarts'[v])
    BY ZenonT(30) DEF BurstInv
  <2>1. CASE v = u
    BY ZenonT(30), <1>7, <1>13, <2>1
  <2>2. CASE v # u
    BY ZenonT(30), <1>1, <1>10, <1>13, <2>2 DEF BurstInv
  <2> QED
    BY ZenonT(30), <2>1, <2>2
<1> QED
  BY ZenonT(30), <1>10, <1>11, <1>14, <1>15, <1>16 DEF IInv

\* Every step keeps the invariant.
LEMMA EngineStep == IInv /\ [Next]_vars => IInv'
<1> SUFFICES ASSUME IInv, [Next]_vars
             PROVE  IInv'
  OBVIOUS
<1>1. CASE Engine
  <2>1. CASE Supervise
    <3>1. PICK p \in Pids :
            /\ Zombie(p)
            /\ \/ ReapOrphan(p)
               \/ \E u \in Units : Owns(u, p) /\ (StaysDown(u, p) \/ Quarantine(u, p) \/ Restart(u, p))
      BY ZenonT(30), <2>1 DEF Supervise
    <3>2. phase = "supervise" /\ UNCHANGED <<unit, phase, resolveVars, next, now>>
      BY ZenonT(30), <2>1 DEF Supervise
    <3> QED
      BY ZenonT(30), <3>1, <3>2, InvNoRestart, InvQuarantine, InvRestart
  <2> QED
    BY ZenonT(30), <1>1, <2>1, InvResolve, InvResolved, InvOneshotDone, InvStartNext, InvStartDone DEF Engine
<1>2. CASE \E p \in Pids, status \in {"ok", "fail"} : ChildExits(p, status)
  BY ZenonT(30), <1>2, InvChildExits
<1>3. CASE UNCHANGED vars
  <2>1. TypeOK /\ ResolveInv
    BY ZenonT(30) DEF IInv
  <2>2. UNCHANGED <<unit, phase, resolveVars, next, state, oneshot, pids, now, trackVars, proc, owner, nextPid>>
    BY ZenonT(30), <1>3 DEF vars, procVars
  <2>3. ProcsEnd
    BY ZenonT(30), <2>1, <2>2 DEF TypeOK, ProcsEnd, InPlay
  <2>4. StartInv'
    BY ZenonT(30), <2>2, StartKept DEF resolveVars
  <2>5. now' \in 0 .. MaxTime /\ now <= now'
    BY ZenonT(30), <2>1, <2>2, SameTime
  <2>6. /\ phase' \in {"resolve", "start", "supervise"} /\ (phase' # "resolve" => ready = <<>>)
        /\ next' \in 1 .. Len(order) + 1 /\ oneshot' \in Units \cup {0}
        /\ state' \in [Units -> {"Loaded", "Active", "Stopped", "Failed"}]
    BY ZenonT(30), <2>1, <2>2 DEF TypeOK, ResolveInv
  <2> QED
    BY ZenonT(30), <2>2, <2>3, <2>4, <2>5, <2>6, QuietStep
<1> QED
  BY ZenonT(30), <1>1, <1>2, <1>3, InvAdopt, InvTick DEF Next

\* The engine keeps to its invariant.
THEOREM EngineInvariant == Spec => []IInv
  BY EngineInitial, EngineStep, PTL DEF Spec

-------------------------------------------------------------------------------
(* What follows *)

\* A set in which everyone depends on a member holds no unit of the order: the
\* first one in it would depend on one before.
LEMMA OrderAvoidsCircles ==
    ASSUME ResolveTypes, ResolveInv, NEW S \in SUBSET Units,
           \A u \in S : DependsOn(u) \cap S # {}
    PROVE  S \cap Range(order) = {}
<1> DEFINE T == {i \in DOMAIN order : order[i] \in S}
<1>1. DOMAIN order = 1 .. Len(order) /\ Len(order) \in Nat
  BY DEF ResolveTypes
<1>2. T \subseteq Nat
  BY <1>1
<1>3. CASE T = {}
  BY ZenonT(30), <1>3 DEF Range
<1>4. CASE T # {}
  <2>1. PICK i \in T : \A j \in T : i <= j
    <3> HIDE DEF T
    <3> QED
      BY ZenonT(30), <1>2, <1>4, Least
  <2>2. PICK v \in DependsOn(order[i]) : v \in S
    BY ZenonT(30), <2>1
  <2>3. PICK j \in 1 .. i - 1 : order[j] = v
    BY ZenonT(30), <2>1, <2>2 DEF ResolveInv
  <2>4. j \in T /\ j < i /\ i \in Nat
    BY <1>1, <2>1, <2>2, <2>3
  <2>5. i <= j
    BY ZenonT(30), <2>1, <2>4
  <2> QED
    BY <2>4, <2>5
<1> QED
  BY ZenonT(30), <1>3, <1>4

\* Once the stack is empty, what the order leaves out is such a set.
LEMMA LeftOutIsCircular ==
    ASSUME TypeOK, ResolveInv, phase # "resolve"
    PROVE  /\ Cycle = Units \ Range(order)
           /\ Circular = Units \ Range(order)
<1>1. ResolveTypes /\ ready = <<>> /\ Range(ready) = {}
  BY SMTT(60), TypesOfResolve DEF ResolveInv, Range
<1>2. \A u \in Units : inDegree[u] \in Nat /\ (inDegree[u] = 0 => u \in Range(order))
  BY ZenonT(30), <1>1 DEF ResolveInv, ResolveTypes
<1>3. \A u \in Range(order) : u \in Units /\ inDegree[u] = 0
  BY ZenonT(30), <1>1, OrderedIsFree DEF Range
<1>4. Cycle = Units \ Range(order)
  BY <1>2, <1>3 DEF Cycle
<1> DEFINE L == Units \ Range(order)
<1>5. \A u \in L : DependsOn(u) \cap L # {}
  <2> SUFFICES ASSUME NEW u \in L, DependsOn(u) \cap L = {}
               PROVE  FALSE
    OBVIOUS
  <2>1. DependsOn(u) \ Range(order) = {}
    BY ZenonT(30), <1>1, DepsFinite DEF ResolveTypes
  <2>2. inDegree[u] = 0
    BY SMTT(60), <1>1, <2>1, FS_EmptySet DEF ResolveInv
  <2> QED
    BY ZenonT(30), <1>2, <2>2
<1>6. \A S \in SUBSET Units : (\A u \in S : DependsOn(u) \cap S # {}) => S \subseteq L
  BY ZenonT(30), <1>1, OrderAvoidsCircles DEF ResolveInv
<1>7. L \in SUBSET Units
  OBVIOUS
<1> HIDE DEF L
<1>8. Circular = L
  BY ZenonT(30), <1>5, <1>6, <1>7 DEF Circular
<1> QED
  BY ZenonT(30), <1>4, <1>8 DEF L

\* resolve_start_order leaves out exactly the units that are in a cycle or
\* behind one, for any dependencies.
THEOREM StartOrderExact == Spec => []CycleExact
<1>1. IInv => CycleExact
  <2> SUFFICES ASSUME IInv, phase # "resolve"
               PROVE  Cycle = Circular /\ Range(order) = Units \ Circular /\ IsInjective(order)
    BY ZenonT(30) DEF CycleExact
  <2>1. TypeOK /\ ResolveInv /\ ResolveTypes
    BY ZenonT(30), TypesOfResolve DEF IInv
  <2>2. Range(order) \subseteq Units
    BY ZenonT(30), <2>1, OrderedIsFree DEF Range
  <2>3. IsInjective(order)
    BY ZenonT(30), <2>1 DEF ResolveInv, IsInjective
  <2> QED
    BY ZenonT(30), <2>1, <2>2, <2>3, LeftOutIsCircular
<1> QED
  BY <1>1, EngineInvariant, PTL

\* start_all starts a unit only after everything it depends on.
THEOREM DependenciesStartFirst == Spec => []DependenciesFirst
<1>1. IInv => DependenciesFirst
  <2> SUFFICES ASSUME IInv, NEW u \in Units \ Circular, state[u] # "Loaded", NEW v \in DependsOn(u)
               PROVE  state[v] # "Loaded"
    BY ZenonT(30) DEF DependenciesFirst
  <2>1. TypeOK /\ ResolveInv /\ StartInv
    BY ZenonT(30) DEF IInv
  <2>2. /\ DOMAIN order = 1 .. Len(order) /\ Len(order) \in Nat /\ next \in 1 .. Len(order) + 1
    BY <2>1 DEF TypeOK
  <2>3. PICK i \in 1 .. next - 1 : order[i] = u
    <3>1. CASE phase # "supervise"
      BY ZenonT(30), <2>1, <3>1 DEF StartInv
    <3>2. CASE phase = "supervise"
      <4>1. u \in Range(order)
        BY ZenonT(30), <2>1, <3>2, LeftOutIsCircular
      <4>2. PICK i \in 1 .. Len(order) : order[i] = u
        BY ZenonT(30), <2>2, <4>1 DEF Range
      <4>3. next - 1 = Len(order)
        BY SMTT(60), <2>1, <2>2, <3>2 DEF StartInv
      <4> QED
        BY ZenonT(30), <4>2, <4>3
    <3> QED
      BY ZenonT(30), <3>1, <3>2
  <2>4. i \in DOMAIN order
    BY <2>2, <2>3
  <2>5. PICK j \in 1 .. i - 1 : order[j] = v
    BY ZenonT(30), <2>1, <2>3, <2>4 DEF ResolveInv
  <2>6. j \in 1 .. next - 1
    BY <2>2, <2>3, <2>5
  <2> QED
    BY ZenonT(30), <2>1, <2>5, <2>6 DEF StartInv
<1> QED
  BY <1>1, EngineInvariant, PTL

\* A unit never has two processes, however children exit and are reaped.
THEOREM NeverTwoProcesses == Spec => []OneProcess
<1>1. IInv => OneProcess
  BY ZenonT(30) DEF IInv, ProcInv, InPlay, OneProcess
<1> QED
  BY <1>1, EngineInvariant, PTL

\* The burst limit holds over every stretch of time, for any limit and window.
THEOREM RestartsBounded == Spec => []BurstBounded
<1>1. IInv => BurstBounded
  BY ZenonT(30) DEF IInv, BurstInv, Spread, BurstBounded
<1> QED
  BY <1>1, EngineInvariant, PTL

===============================================================================
