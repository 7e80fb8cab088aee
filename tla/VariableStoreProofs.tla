-------------------------- MODULE VariableStoreProofs --------------------------
(***************************************************************************)
(* Proofs about VariableStore for every set of variables and of contents   *)
(* and every size of the store.                                            *)
(***************************************************************************)
EXTENDS VariableStore, FiniteSetTheorems, FunctionTheorems, SequenceTheorems, WellFoundedInduction, TLAPS

(***************************************************************************)
(* Sets of numbers.                                                        *)
(***************************************************************************)
LEMMA Least ==
    ASSUME NEW S \in SUBSET Nat, S # {}
    PROVE  Lowest(S) \in S /\ \A j \in S : Lowest(S) <= j
  <1>1. IsWellFoundedOn(OpToRel(<, Nat), Nat)
    BY NatLessThanWellFounded
  <1>2. PICK i \in S : \A j \in S : ~(<<j, i>> \in OpToRel(<, Nat))
    BY <1>1, WFMin
  <1>3. \A j \in S : ~(j < i)
    BY <1>2 DEF OpToRel
  <1>4. \A j \in S : i <= j
    BY <1>3
  <1> QED
    BY <1>4 DEF Lowest

LEMMA Greatest ==
    ASSUME NEW m \in Nat, NEW S \in SUBSET (1 .. m), S # {}
    PROVE  Highest(S) \in S /\ \A j \in S : Highest(S) >= j
  <1>1. PICK T : T = {m - i : i \in S}
    OBVIOUS
  <1>2. T \in SUBSET Nat /\ T # {}
    <2>1. \A i \in S : i \in Nat /\ i <= m
      OBVIOUS
    <2>2. \A i \in S : m - i \in Nat
      BY <2>1
    <2>3. PICK i \in S : TRUE
      OBVIOUS
    <2>4. m - i \in T
      BY <1>1
    <2> QED
      BY <1>1, <2>2, <2>4
  <1>3. PICK t \in T : \A u \in T : t <= u
    BY <1>2, Least
  <1>4. PICK i \in S : t = m - i
    BY <1>1, <1>3
  <1>5. \A j \in S : m - i <= m - j
    BY <1>1, <1>3, <1>4
  <1>6. \A j \in S : i >= j
    BY <1>5
  <1> QED
    BY <1>6 DEF Highest

\* The elements of a finite set of numbers in ascending order.
LEMMA AscendingIs ==
    ASSUME NEW m \in Nat, NEW S \in SUBSET (1 .. m)
    PROVE  /\ IsFiniteSet(S) /\ Cardinality(S) \in Nat
           /\ Ascending(S) \in [1 .. Cardinality(S) -> S]
           /\ \A k, l \in 1 .. Cardinality(S) : Ascending(S)[k] = Ascending(S)[l] => k = l
           /\ \A i \in S : \E k \in 1 .. Cardinality(S) : Ascending(S)[k] = i
  <1>1. IsFiniteSet(S) /\ S \in SUBSET Nat
    <2>1. IsFiniteSet(1 .. m)
      BY FS_Interval
    <2>2. IsFiniteSet(S)
      BY <2>1, FS_Subset
    <2>3. S \in SUBSET Nat
      OBVIOUS
    <2> QED
      BY <2>2, <2>3
  <1>2. PICK n \in Nat : n = Cardinality(S)
    BY <1>1, FS_CardinalityType
  <1>3. IsFiniteSet(1 .. n) /\ Cardinality(1 .. n) = n
    BY <1>2, FS_Interval
  <1> DEFINE below(i) == {j \in S : j <= i}
             rank == [i \in S |-> Cardinality(below(i))]
  <1>4. \A i \in S : IsFiniteSet(below(i)) /\ Cardinality(below(i)) \in Nat /\ Cardinality(below(i)) <= n
    BY <1>1, <1>2, FS_Subset, FS_CardinalityType
  <1>5. \A i \in S : Cardinality(below(i)) # 0
    <2> SUFFICES ASSUME NEW i \in S
                 PROVE  Cardinality(below(i)) # 0
      OBVIOUS
    <2>1. i \in Nat
      BY <1>1
    <2>2. i <= i
      BY <2>1
    <2>3. i \in below(i)
      BY <2>2
    <2> QED
      BY <2>3, <1>4, FS_EmptySet
  <1>6. ASSUME NEW i \in S, NEW j \in S, i < j
        PROVE  Cardinality(below(i)) < Cardinality(below(j))
    <2>1. \A k \in S : k \in Nat
      BY <1>1
    <2>2. i \in Nat /\ j \in Nat
      BY <2>1
    <2>3. j <= j /\ ~(j <= i)
      BY <2>2, <1>6
    <2>4. \A k \in S : k <= i => k <= j
      BY <2>1, <2>2, <1>6
    <2>5. PICK T, U : T = below(i) /\ U = below(j)
      OBVIOUS
    <2>6. T \in SUBSET U
      BY <2>4, <2>5
    <2>7. j \in U /\ j \notin T
      BY <2>3, <2>5
    <2>8. T # U
      BY <2>7
    <2>9. Cardinality(T) <= Cardinality(U) /\ Cardinality(U) # Cardinality(T)
      BY <1>4, <2>5, <2>6, <2>8, FS_Subset
    <2>10. Cardinality(T) \in Nat /\ Cardinality(U) \in Nat
      BY <1>4, <2>5
    <2>11. Cardinality(T) < Cardinality(U)
      BY <2>9, <2>10
    <2> QED
      BY <2>5, <2>11
  <1>7. rank \in [S -> 1 .. n]
    BY <1>4, <1>5
  <1>8. \A i, j \in S : rank[i] = rank[j] => i = j
    <2>1. \A i, j \in S : i < j => rank[i] < rank[j]
      BY <1>6
    <2>2. \A i, j \in S : i < j \/ i = j \/ j < i
      OBVIOUS
    <2>3. \A i \in S : rank[i] \in Nat
      BY <1>7
    <2> QED
      BY <2>1, <2>2, <2>3
  <1>9. rank \in Surjection(S, 1 .. n)
    <2>1. rank \in Injection(S, 1 .. n)
      BY <1>7, <1>8, Fun_IsInj
    <2> QED
      BY <1>2, <1>3, <2>1, FS_Injection
  <1>10. \A k \in 1 .. n : \E i \in S : rank[i] = k
    BY <1>9 DEF Surjection
  <1> DEFINE f == [k \in 1 .. n |-> CHOOSE i \in S : rank[i] = k]
  <1>11. f \in [1 .. n -> S] /\ \A k \in 1 .. n : rank[f[k]] = k
    BY <1>10
  <1> HIDE DEF f, rank
  <1>12. \A k, l \in DOMAIN f : k < l => f[k] < f[l]
    <2> SUFFICES ASSUME NEW k \in 1 .. n, NEW l \in 1 .. n, k < l
                 PROVE  f[k] < f[l]
      BY <1>11
    <2>1. PICK i \in S, j \in S : i = f[k] /\ j = f[l] /\ rank[i] = k /\ rank[j] = l
      BY <1>11
    <2>2. ~(j < i)
      <3>1. j < i => rank[j] < rank[i]
        BY <1>6 DEF rank
      <3> QED
        BY <2>1, <3>1
    <2>3. i # j
      BY <2>1
    <2>4. i \in Nat /\ j \in Nat
      BY <1>1
    <2> QED
      BY <2>1, <2>2, <2>3, <2>4
  <1>13. PICK g : g = Ascending(S)
    OBVIOUS
  <1>14. g \in [1 .. n -> S] /\ \A k, l \in DOMAIN g : k < l => g[k] < g[l]
    BY <1>2, <1>11, <1>12, <1>13 DEF Ascending
  <1>15. \A k, l \in 1 .. n : g[k] = g[l] => k = l
    <2> SUFFICES ASSUME NEW k \in 1 .. n, NEW l \in 1 .. n, g[k] = g[l]
                 PROVE  k = l
      OBVIOUS
    <2>1. PICK i \in S : i = g[k] /\ i = g[l]
      BY <1>14
    <2>2. i \in Nat
      BY <1>1
    <2>3. ~(k < l) /\ ~(l < k)
      BY <1>14, <2>1, <2>2
    <2> QED
      BY <2>3
  <1>16. g \in Surjection(1 .. n, S)
    <2>1. g \in Injection(1 .. n, S)
      BY <1>14, <1>15, Fun_IsInj
    <2> QED
      BY <1>1, <1>2, <1>3, <2>1, FS_Injection
  <1>17. \A i \in S : \E k \in 1 .. n : g[k] = i
    BY <1>16 DEF Surjection
  <1> QED
    BY <1>1, <1>2, <1>13, <1>14, <1>15, <1>17

(***************************************************************************)
(* The units the entries of a store take.                                  *)
(***************************************************************************)
Units(s) == {u \in (DOMAIN s) \X (1 .. MaxSize) : u[2] <= EntrySize(s[u[1]])}

LEMMA SizeIs ==
    ASSUME NEW e \in Entry
    PROVE  EntrySize(e) \in 1 .. MaxSize /\ MaxSize \in Nat
  BY VariableAssumption DEF Entry, EntrySize, States

LEMMA UsedIs ==
    ASSUME NEW s \in Seq(Entry)
    PROVE  Used(s) = Cardinality(Units(s)) /\ IsFiniteSet(Units(s)) /\ Used(s) \in Nat
  <1>1. MaxSize \in Nat /\ Len(s) \in Nat /\ DOMAIN s = 1 .. Len(s)
    BY VariableAssumption, LenProperties
  <1>2. IsFiniteSet(1 .. Len(s)) /\ IsFiniteSet(1 .. MaxSize)
    BY <1>1, FS_Interval
  <1>3. IsFiniteSet((1 .. Len(s)) \X (1 .. MaxSize))
    BY <1>2, FS_Product
  <1>4. Units(s) \in SUBSET ((1 .. Len(s)) \X (1 .. MaxSize))
    BY <1>1 DEF Units
  <1>5. IsFiniteSet(Units(s))
    BY <1>3, <1>4, FS_Subset
  <1>6. Used(s) = Cardinality(Units(s))
    BY DEF Used, Units
  <1> QED
    BY <1>5, <1>6, FS_CardinalityType

\* An empty store takes no unit.
LEMMA UsedEmpty ==
    /\ <<>> \in Seq(Entry)
    /\ Used(<<>>) = 0
  <1>1. <<>> \in Seq(Entry)
    BY EmptySeq
  <1>2. Units(<<>>) = {}
    BY DEF Units
  <1> QED
    BY <1>1, <1>2, UsedIs, FS_EmptySet

LEMMA ColumnSize ==
    ASSUME NEW n, NEW k \in Nat
    PROVE  IsFiniteSet({n} \X (1 .. k)) /\ Cardinality({n} \X (1 .. k)) = k
  <1>1. IsFiniteSet({n}) /\ Cardinality({n}) = 1
    BY FS_Singleton
  <1>2. IsFiniteSet(1 .. k) /\ Cardinality(1 .. k) = k
    BY FS_Interval
  <1>3. PICK A, B : A = {n} /\ B = 1 .. k
    OBVIOUS
  <1>4. IsFiniteSet(A) /\ Cardinality(A) = 1 /\ IsFiniteSet(B) /\ Cardinality(B) = k
    BY <1>1, <1>2, <1>3
  <1>5. IsFiniteSet(A \X B) /\ Cardinality(A \X B) = Cardinality(A) * Cardinality(B)
    BY <1>4, FS_Product, Zenon
  <1>6. Cardinality(A \X B) = 1 * k
    BY <1>4, <1>5
  <1> QED
    BY <1>3, <1>5, <1>6

\* An entry appended takes its units behind the others.
LEMMA UsedAppend ==
    ASSUME NEW s \in Seq(Entry), NEW e \in Entry
    PROVE  Used(Append(s, e)) = Used(s) + EntrySize(e) /\ Append(s, e) \in Seq(Entry)
  <1> DEFINE n == Len(s) + 1
             t == Append(s, e)
             k == EntrySize(e)
             new == {n} \X (1 .. k)
  <1>1. /\ t \in Seq(Entry) /\ Len(s) \in Nat
        /\ DOMAIN s = 1 .. Len(s) /\ DOMAIN t = 1 .. n
        /\ \A i \in 1 .. Len(s) : t[i] = s[i]
        /\ t[n] = e
    BY AppendProperties, LenProperties
  <1>2. k \in Nat /\ k <= MaxSize /\ MaxSize \in Nat
    BY SizeIs
  <1>3. IsFiniteSet(new) /\ Cardinality(new) = k
    BY <1>2, ColumnSize
  <1>4. /\ IsFiniteSet(Units(s)) /\ Used(s) = Cardinality(Units(s)) /\ Used(s) \in Nat
        /\ Used(t) = Cardinality(Units(t))
    BY <1>1, UsedIs
  <1> HIDE DEF t, k
  <1>5. Units(t) = Units(s) \cup new
    <2>1. \A i \in 1 .. n, l \in 1 .. MaxSize :
              <<i, l>> \in Units(t) <=> <<i, l>> \in Units(s) \/ <<i, l>> \in new
      <3> SUFFICES ASSUME NEW i \in 1 .. n, NEW l \in 1 .. MaxSize
                   PROVE  <<i, l>> \in Units(t) <=> <<i, l>> \in Units(s) \/ <<i, l>> \in new
        OBVIOUS
      <3>1. <<i, l>> \in Units(t) <=> l <= EntrySize(t[i])
        BY <1>1 DEF Units
      <3>2. <<i, l>> \in Units(s) <=> i \in 1 .. Len(s) /\ l <= EntrySize(s[i])
        BY <1>1 DEF Units
      <3>3. <<i, l>> \in new <=> i = n /\ l <= k
        BY <1>1, <1>2
      <3>4. i = n \/ i \in 1 .. Len(s)
        BY <1>1
      <3>5. n \notin 1 .. Len(s)
        BY <1>1
      <3>6. CASE i = n
        BY <1>1, <3>1, <3>2, <3>3, <3>5, <3>6 DEF k
      <3>7. CASE i \in 1 .. Len(s)
        BY <1>1, <3>1, <3>2, <3>3, <3>5, <3>7
      <3> QED
        BY <3>4, <3>6, <3>7
    <2>2. Units(t) \subseteq (1 .. n) \X (1 .. MaxSize)
      BY <1>1 DEF Units
    <2>3. Units(s) \subseteq (1 .. n) \X (1 .. MaxSize)
      BY <1>1 DEF Units
    <2>4. new \subseteq (1 .. n) \X (1 .. MaxSize)
      BY <1>1, <1>2
    <2> QED
      BY <2>1, <2>2, <2>3, <2>4
  <1>6. Units(s) \cap new = {}
    <2>1. \A u \in Units(s) : u[1] \in 1 .. Len(s)
      BY <1>1 DEF Units
    <2>2. \A u \in new : u[1] = n
      OBVIOUS
    <2>3. n \notin 1 .. Len(s)
      BY <1>1
    <2> QED
      BY <2>1, <2>2, <2>3
  <1>7. /\ Cardinality(Units(s) \cup new)
             = Cardinality(Units(s)) + Cardinality(new) - Cardinality(Units(s) \cap new)
    BY <1>3, <1>4, FS_Union
  <1>8. Used(t) = Used(s) + k
    <2>1. PICK a, b, c : /\ a = Cardinality(Units(t)) /\ b = Cardinality(Units(s))
                         /\ c = Cardinality(Units(s) \cap new)
      OBVIOUS
    <2>2. c = 0
      BY <1>6, <2>1, FS_EmptySet
    <2>3. a = b + k - c /\ b \in Nat
      BY <1>3, <1>4, <1>5, <1>7, <2>1
    <2>4. a = b + k
      BY <1>2, <2>2, <2>3
    <2> QED
      BY <1>4, <2>1, <2>4
  <1> QED
    BY <1>1, <1>8 DEF t, k

\* Entries of the same sizes take the same units.
LEMMA UsedSame ==
    ASSUME NEW s \in Seq(Entry), NEW t \in Seq(Entry), Len(s) = Len(t),
           \A i \in 1 .. Len(s) : EntrySize(s[i]) = EntrySize(t[i])
    PROVE  Used(s) = Used(t)
  <1>1. DOMAIN s = 1 .. Len(s) /\ DOMAIN t = 1 .. Len(s)
    BY LenProperties
  <1>2. \A u \in (1 .. Len(s)) \X (1 .. MaxSize) : EntrySize(s[u[1]]) = EntrySize(t[u[1]])
    OBVIOUS
  <1>3. Units(s) = Units(t)
    <2>1. \A u \in (1 .. Len(s)) \X (1 .. MaxSize) : u \in Units(s) <=> u \in Units(t)
      BY <1>1, <1>2 DEF Units
    <2>2. Units(s) \subseteq (1 .. Len(s)) \X (1 .. MaxSize)
      BY <1>1 DEF Units
    <2>3. Units(t) \subseteq (1 .. Len(s)) \X (1 .. MaxSize)
      BY <1>1 DEF Units
    <2> QED
      BY <2>1, <2>2, <2>3
  <1> QED
    BY <1>3, UsedIs

(***************************************************************************)
(* What a reclaim keeps.                                                   *)
(***************************************************************************)
\* The copies that go into the buffer, each of them once.
LEMMA OrderIs ==
    ASSUME NEW s \in Seq(Entry), NEW c, NEW d
    PROVE  /\ Order(s, c, d) \in Seq(DOMAIN s)
           /\ \A k \in 1 .. Len(Order(s, c, d)) :
                  Order(s, c, d)[k] \in Added(s, c) \cup Promoted(s, c, d)
           /\ \A k, l \in 1 .. Len(Order(s, c, d)) :
                  Order(s, c, d)[k] = Order(s, c, d)[l] => k = l
           /\ \A i \in Added(s, c) \cup Promoted(s, c, d) :
                  \E k \in 1 .. Len(Order(s, c, d)) : Order(s, c, d)[k] = i
  <1>1. PICK A, P : A = Added(s, c) /\ P = Promoted(s, c, d)
    OBVIOUS
  <1>2. Len(s) \in Nat /\ DOMAIN s = 1 .. Len(s)
    BY LenProperties
  <1>3. A \in SUBSET (1 .. Len(s)) /\ P \in SUBSET (1 .. Len(s)) /\ A \cap P = {}
    BY <1>1, <1>2 DEF Added, Promoted, Moving
  <1>4. PICK f, g : f = Ascending(A) /\ g = Ascending(P)
    OBVIOUS
  <1>5. PICK n \in Nat, m \in Nat : n = Cardinality(A) /\ m = Cardinality(P)
    BY <1>2, <1>3, AscendingIs
  <1>6. /\ f \in [1 .. n -> A]
        /\ \A k, l \in 1 .. n : f[k] = f[l] => k = l
        /\ \A i \in A : \E k \in 1 .. n : f[k] = i
    BY <1>5, <1>2, <1>3, <1>4, AscendingIs
  <1>7. /\ g \in [1 .. m -> P]
        /\ \A k, l \in 1 .. m : g[k] = g[l] => k = l
        /\ \A i \in P : \E k \in 1 .. m : g[k] = i
    BY <1>5, <1>2, <1>3, <1>4, AscendingIs
  <1>8. f \in Seq(1 .. Len(s)) /\ Len(f) = n
    <2>1. f \in [1 .. n -> 1 .. Len(s)]
      BY <1>3, <1>6
    <2> QED
      BY <2>1
  <1>9. g \in Seq(1 .. Len(s)) /\ Len(g) = m
    <2>1. g \in [1 .. m -> 1 .. Len(s)]
      BY <1>3, <1>7
    <2> QED
      BY <2>1
  <1>10. PICK o : o = f \o g
    OBVIOUS
  <1>11. /\ o \in Seq(1 .. Len(s)) /\ Len(o) = n + m
         /\ \A k \in 1 .. n + m : o[k] = IF k <= n THEN f[k] ELSE g[k - n]
    BY <1>8, <1>9, <1>10, ConcatProperties
  <1>12. o = Order(s, c, d)
    BY <1>1, <1>4, <1>10 DEF Order
  <1>13. \A k \in 1 .. n : o[k] = f[k] /\ o[k] \in A
    BY <1>6, <1>11
  <1>14. \A k \in 1 .. n + m : k \in 1 .. n \/ (k - n \in 1 .. m /\ o[k] = g[k - n] /\ o[k] \in P)
    BY <1>6, <1>7, <1>11
  <1>15. \A k \in 1 .. n + m : o[k] \in A \cup P
    BY <1>13, <1>14
  <1>16. \A k, l \in 1 .. n + m : o[k] = o[l] => k = l
    <2> SUFFICES ASSUME NEW k \in 1 .. n + m, NEW l \in 1 .. n + m, o[k] = o[l]
                 PROVE  k = l
      OBVIOUS
    <2>1. CASE k \in 1 .. n /\ l \in 1 .. n
      BY <1>6, <1>13, <2>1
    <2>2. CASE k \in 1 .. n /\ l \notin 1 .. n
      BY <1>3, <1>13, <1>14, <2>2
    <2>3. CASE k \notin 1 .. n /\ l \in 1 .. n
      BY <1>3, <1>13, <1>14, <2>3
    <2>4. CASE k \notin 1 .. n /\ l \notin 1 .. n
      <3>1. k - n \in 1 .. m /\ l - n \in 1 .. m /\ g[k - n] = g[l - n]
        BY <1>14, <2>4
      <3>2. k - n = l - n
        BY <1>7, <3>1
      <3> QED
        BY <3>2
    <2> QED
      BY <2>1, <2>2, <2>3, <2>4
  <1>17. ASSUME NEW i \in A \cup P
         PROVE  \E k \in 1 .. n + m : o[k] = i
    <2>1. CASE i \in A
      <3>1. PICK k \in 1 .. n : f[k] = i
        BY <1>6, <2>1
      <3>2. k \in 1 .. n + m
        OBVIOUS
      <3> QED
        BY <1>13, <3>1, <3>2
    <2>2. CASE i \in P
      <3>1. PICK k \in 1 .. m : g[k] = i
        BY <1>7, <2>2
      <3>2. k + n \in 1 .. n + m /\ ~(k + n <= n) /\ (k + n) - n = k
        OBVIOUS
      <3>3. o[k + n] = g[(k + n) - n]
        BY <1>11, <3>2
      <3> QED
        BY <3>1, <3>2, <3>3
    <2> QED
      BY <2>1, <2>2
  <1> QED
    BY <1>1, <1>2, <1>11, <1>12, <1>15, <1>16, <1>17

\* Every kept entry is a copy in a state that has a name and data, made ADDED.
LEMMA KeptIs ==
    ASSUME NEW s \in Seq(Entry), NEW c, NEW d
    PROVE  /\ Kept(s, c, d) \in Seq(Entry)
           /\ Len(Kept(s, c, d)) = Len(Order(s, c, d))
           /\ \A k \in 1 .. Len(Kept(s, c, d)) :
                  /\ Order(s, c, d)[k] \in 1 .. Len(s)
                  /\ s[Order(s, c, d)[k]].state \in {"added", "moving"}
                  /\ Kept(s, c, d)[k].name = s[Order(s, c, d)[k]].name
                  /\ Kept(s, c, d)[k].data = s[Order(s, c, d)[k]].data
                  /\ Kept(s, c, d)[k].whole = s[Order(s, c, d)[k]].whole
                  /\ Kept(s, c, d)[k].state = "added"
                  /\ EntrySize(Kept(s, c, d)[k]) = EntrySize(s[Order(s, c, d)[k]])
  <1>1. PICK o : o = Order(s, c, d)
    OBVIOUS
  <1>2. Len(s) \in Nat /\ DOMAIN s = 1 .. Len(s)
    BY LenProperties
  <1>3. o \in Seq(1 .. Len(s)) /\ \A k \in 1 .. Len(o) : o[k] \in Added(s, c) \cup Promoted(s, c, d)
    BY <1>1, <1>2, OrderIs
  <1>4. Len(o) \in Nat /\ DOMAIN o = 1 .. Len(o) /\ \A k \in 1 .. Len(o) : o[k] \in 1 .. Len(s)
    BY <1>3, LenProperties
  <1>5. \A k \in 1 .. Len(o) : s[o[k]] \in Entry
    BY <1>4, ElementOfSeq
  <1>6. \A k \in 1 .. Len(o) : s[o[k]].state \in {"added", "moving"}
    BY <1>3 DEF Added, Promoted, Moving
  <1>7. PICK t : t = [k \in 1 .. Len(o) |-> [s[o[k]] EXCEPT !.state = "added"]]
    OBVIOUS
  <1>8. t = Kept(s, c, d)
    BY <1>1, <1>4, <1>7 DEF Kept
  <1>9. \A k \in 1 .. Len(o) : [s[o[k]] EXCEPT !.state = "added"] \in Entry
    BY <1>5 DEF Entry, States
  <1>10. t \in Seq(Entry) /\ Len(t) = Len(o)
    BY <1>4, <1>7, <1>9
  <1>11. \A e \in Entry : e.state # "start" => EntrySize([e EXCEPT !.state = "added"]) = EntrySize(e)
    BY DEF Entry, EntrySize
  <1>12. \A k \in 1 .. Len(o) : EntrySize(t[k]) = EntrySize(s[o[k]])
    BY <1>5, <1>6, <1>7, <1>11
  <1>13. \A k \in 1 .. Len(o) : /\ t[k].name = s[o[k]].name
                              /\ t[k].data = s[o[k]].data
                              /\ t[k].whole = s[o[k]].whole
                              /\ t[k].state = "added"
    BY <1>5, <1>7 DEF Entry
  <1> QED
    BY <1>1, <1>4, <1>6, <1>8, <1>10, <1>12, <1>13

\* A reclaim never needs more room than it frees.
LEMMA UsedKept ==
    ASSUME NEW s \in Seq(Entry), NEW c, NEW d
    PROVE  Used(Kept(s, c, d)) <= Used(s)
  <1>1. PICK o, t : o = Order(s, c, d) /\ t = Kept(s, c, d)
    OBVIOUS
  <1>2. /\ t \in Seq(Entry) /\ Len(t) = Len(o)
        /\ \A k \in 1 .. Len(t) : o[k] \in 1 .. Len(s) /\ EntrySize(t[k]) = EntrySize(s[o[k]])
    BY <1>1, KeptIs
  <1>3. \A k, l \in 1 .. Len(t) : o[k] = o[l] => k = l
    <2>1. \A k, l \in 1 .. Len(Order(s, c, d)) :
              Order(s, c, d)[k] = Order(s, c, d)[l] => k = l
      BY OrderIs
    <2> QED
      BY <1>1, <1>2, <2>1
  <1>4. DOMAIN s = 1 .. Len(s) /\ DOMAIN t = 1 .. Len(t)
    BY <1>2, LenProperties
  <1>5. IsFiniteSet(Units(s)) /\ Used(s) = Cardinality(Units(s)) /\ Used(t) = Cardinality(Units(t))
    BY <1>2, UsedIs
  <1> DEFINE f == [u \in Units(t) |-> <<o[u[1]], u[2]>>]
  <1>6. \A u \in Units(t) :
            /\ u \in (1 .. Len(t)) \X (1 .. MaxSize) /\ u = <<u[1], u[2]>>
            /\ u[2] <= EntrySize(t[u[1]])
    BY <1>4 DEF Units
  <1>7. \A u \in Units(t) : <<o[u[1]], u[2]>> \in Units(s)
    BY <1>2, <1>4, <1>6 DEF Units
  <1>8. \A u, v \in Units(t) : o[u[1]] = o[v[1]] /\ u[2] = v[2] => u = v
    <2> SUFFICES ASSUME NEW u \in Units(t), NEW v \in Units(t), o[u[1]] = o[v[1]], u[2] = v[2]
                 PROVE  u = v
      OBVIOUS
    <2>1. u[1] \in 1 .. Len(t) /\ v[1] \in 1 .. Len(t)
      BY <1>6
    <2>2. u[1] = v[1]
      BY <1>3, <2>1
    <2>3. u = <<u[1], u[2]>> /\ v = <<v[1], v[2]>>
      BY <1>6
    <2> QED
      BY <2>2, <2>3
  <1>9. f \in [Units(t) -> Units(s)]
    BY <1>7
  <1>10. \A u, v \in Units(t) : f[u] = f[v] => u = v
    BY <1>8
  <1> HIDE DEF f
  <1>11. f \in Injection(Units(t), Units(s))
    BY <1>9, <1>10, Fun_IsInj
  <1>12. Cardinality(Units(t)) <= Cardinality(Units(s))
    BY <1>5, <1>11, FS_Injection
  <1> QED
    BY <1>1, <1>5, <1>12

(***************************************************************************)
(* What FindVariableEx finds.                                              *)
(***************************************************************************)
LEMMA FindIs ==
    ASSUME NEW s \in Seq(Entry), NEW n,
           NEW c, c = Find(s, n).curr, NEW d, d = Find(s, n).inDel
    PROVE  /\ c \in 0 .. Len(s) /\ d \in 0 .. Len(s)
           /\ c # 0 => c \in Copies(s, n, "added") \cup Copies(s, n, "moving")
           /\ d # 0 => d \in Copies(s, n, "moving") /\ c \in Copies(s, n, "added") /\ d < c
           /\ Copies(s, n, "added") # {} =>
                  /\ c \in Copies(s, n, "added")
                  /\ \A i \in Copies(s, n, "added") : c <= i
                  /\ \A i \in Copies(s, n, "moving") : i < c => d # 0 /\ i <= d
           /\ Copies(s, n, "added") = {} =>
                  /\ d = 0
                  /\ c = 0 => Copies(s, n, "moving") = {}
                  /\ \A i \in Copies(s, n, "moving") : i <= c
  <1>1. Len(s) \in Nat /\ DOMAIN s = 1 .. Len(s)
    BY LenProperties
  <1>2. PICK added, moving : added = Copies(s, n, "added") /\ moving = Copies(s, n, "moving")
    OBVIOUS
  <1>3. added \in SUBSET (1 .. Len(s)) /\ moving \in SUBSET (1 .. Len(s))
    BY <1>1, <1>2 DEF Copies
  <1>4. PICK low : low = Lowest(added)
    OBVIOUS
  <1>5. PICK before : before = {i \in moving : i < low}
    OBVIOUS
  <1>6. before \in SUBSET (1 .. Len(s))
    BY <1>3, <1>5
  <1>7. CASE added # {}
    <2>1. low \in added /\ \A i \in added : low <= i
      <3>1. added \in SUBSET Nat
        BY <1>3
      <3> QED
        BY <1>4, <1>7, <3>1, Least
    <2>2. c = low /\ d = IF before = {} THEN 0 ELSE Highest(before)
      BY <1>2, <1>4, <1>5, <1>7 DEF Find
    <2>3. CASE before = {}
      <3>1. d = 0 /\ \A i \in moving : ~(i < low)
        BY <1>5, <2>2, <2>3
      <3>2. low \in 1 .. Len(s)
        BY <1>3, <2>1
      <3> QED
        BY <1>1, <1>2, <1>7, <2>1, <2>2, <3>1, <3>2
    <2>4. CASE before # {}
      <3>1. d \in before /\ \A i \in before : d >= i
        BY <1>1, <1>6, <2>2, <2>4, Greatest
      <3>2. low \in 1 .. Len(s) /\ d \in 1 .. Len(s) /\ d \in moving /\ d < low
        BY <1>3, <1>5, <2>1, <3>1
      <3>3. \A i \in moving : i \in 1 .. Len(s)
        BY <1>3
      <3>4. \A i \in moving : i < low => d # 0 /\ i <= d
        BY <1>1, <1>5, <3>1, <3>2, <3>3
      <3> QED
        BY <1>1, <1>2, <1>7, <2>1, <2>2, <3>2, <3>4
    <2> QED
      BY <2>3, <2>4
  <1>8. CASE added = {}
    <2>1. c = (IF moving = {} THEN 0 ELSE Highest(moving)) /\ d = 0
      BY <1>2, <1>8 DEF Find
    <2>2. CASE moving = {}
      BY <1>1, <1>2, <1>8, <2>1, <2>2
    <2>3. CASE moving # {}
      <3>1. c \in moving /\ \A i \in moving : c >= i
        BY <1>1, <1>3, <2>1, <2>3, Greatest
      <3>2. c \in 1 .. Len(s)
        BY <1>3, <3>1
      <3>3. \A i \in moving : i <= c
        BY <1>3, <3>1, <3>2
      <3> QED
        BY <1>1, <1>2, <1>8, <2>1, <3>1, <3>2, <3>3
    <2> QED
      BY <2>2, <2>3
  <1> QED
    BY <1>7, <1>8

(***************************************************************************)
(* The invariant.                                                          *)
(***************************************************************************)
WritePC == {"u_valid", "u_data", "u_added"}
NewPC == {"u_mark", "u_room", "u_header", "o_indel", "o_curr"} \cup WritePC
RestPC == {"off", "b_check", "idle"}

\* A call, and the copies found for it, belong to the labels of SetVariable.
CallOK ==
    /\ pc \in RestPC => call = None
    /\ pc \in RestPC \/ (pc = "r_ftw" /\ call = None) => curr = 0 /\ inDel = 0
    /\ pc \notin RestPC \cup {"r_ftw"} => call # None
    /\ pc \in NewPC => call.data \in Data

\* The entry being written, in the state the steps of the write give it.
Begun(st, w) == [name |-> call.name, data |-> call.data, whole |-> w, state |-> st]

\* The memory copy lacks the entry being written, and nothing else.
CacheOK ==
    /\ pc \notin {"off", "r_ftw"} \cup WritePC => cache = flash
    /\ pc = "u_valid" => flash = Append(cache, Begun("start", FALSE))
    /\ pc = "u_data" => flash = Append(cache, Begun("header", FALSE))
    /\ pc = "u_added" => flash = Append(cache, Begun("header", TRUE))

\* What is in the store, or is about to be, fits.
RoomOK ==
    /\ pc \notin {"off", "r_ftw"} => last = Used(cache)
    /\ Used(flash) <= Space
    /\ pc \in {"u_header"} \cup WritePC => last + Size[call.data] <= Space
    /\ pc = "r_ftw" => Used(cache) <= Space
    /\ torn => pc \in {"off", "b_check"} \/ (pc = "r_ftw" /\ call = None)
    /\ pending # None => Used(pending) <= Space

\* The copies found have a name and data.
FoundOK ==
    pc # "done" =>
        /\ curr # 0 => flash[curr].state # "start"
        /\ inDel # 0 => flash[inDel].state # "start"

IInv == TypeOK /\ CallOK /\ CacheOK /\ RoomOK /\ FoundOK

\* A reclaim without a new variable fits: it keeps entries of the store.
LEMMA TidyIs ==
    ASSUME TypeOK, Used(flash) <= Space, StartReclaim(<<>>)
    PROVE  /\ cache' \in Seq(Entry) /\ cache' = Kept(flash, curr, inDel)
           /\ Used(cache') <= Space
           /\ Goto("r_ftw")
  <1>1. flash \in Seq(Entry)
    BY DEF TypeOK
  <1>2. PICK t : t = Kept(flash, curr, inDel)
    OBVIOUS
  <1>3. t \in Seq(Entry) /\ Used(t) <= Used(flash)
    BY <1>1, <1>2, KeptIs, UsedKept
  <1>4. Used(t) \in Nat /\ Used(flash) \in Nat /\ Space \in Nat
    BY <1>1, <1>3, UsedIs, VariableAssumption
  <1>5. Used(t) <= Space /\ ~(Used(t) + 0 > Space)
    BY <1>3, <1>4
  <1>6. cache' = t \o <<>> /\ Goto("r_ftw")
    BY <1>2, <1>5 DEF StartReclaim
  <1>7. t \o <<>> = t
    BY <1>3, ConcatEmptySeq
  <1> QED
    BY <1>2, <1>3, <1>5, <1>6, <1>7

\* A reclaim with a new variable fails, or leaves room for it.
LEMMA RoomMade ==
    ASSUME TypeOK, NEW e \in Entry, e.state = "added", StartReclaim(<<e>>)
    PROVE  \/ /\ cache' = flash /\ Return("failed")
              /\ Used(Kept(flash, curr, inDel)) + Size[e.data] > Space
           \/ /\ cache' \in Seq(Entry) /\ cache' = Kept(flash, curr, inDel) \o <<e>>
              /\ Used(cache') <= Space
              /\ Goto("r_ftw")
  <1>1. flash \in Seq(Entry)
    BY DEF TypeOK
  <1>2. PICK t : t = Kept(flash, curr, inDel)
    OBVIOUS
  <1>3. t \in Seq(Entry)
    BY <1>1, <1>2, KeptIs
  <1>4. t \o <<e>> = Append(t, e)
    BY <1>3, AppendIsConcat
  <1>5. Append(t, e) \in Seq(Entry) /\ Used(Append(t, e)) = Used(t) + Size[e.data]
    BY <1>3, UsedAppend DEF EntrySize
  <1>6. Used(t) \in Nat /\ Size[e.data] \in Nat /\ Space \in Nat
    <2>1. e.data \in Data
      BY DEF Entry
    <2>2. Size[e.data] \in 1 .. MaxSize /\ MaxSize \in Nat /\ Space \in Nat
      BY <2>1, VariableAssumption
    <2> QED
      BY <1>3, <2>2, UsedIs
  <1>7. (IF <<e>> = <<>> THEN 0 ELSE Size[<<e>>[1].data]) = Size[e.data]
    OBVIOUS
  <1>8. CASE Used(t) + Size[e.data] > Space
    BY <1>2, <1>7, <1>8 DEF StartReclaim
  <1>9. CASE ~(Used(t) + Size[e.data] > Space)
    <2>1. cache' = t \o <<e>> /\ Goto("r_ftw")
      BY <1>2, <1>7, <1>9 DEF StartReclaim
    <2>2. Used(t) + Size[e.data] <= Space
      BY <1>6, <1>9
    <2>3. cache' = Append(t, e)
      BY <1>4, <2>1
    <2>4. Used(cache') <= Space
      BY <1>5, <2>2, <2>3
    <2> QED
      BY <1>2, <1>5, <2>1, <2>3, <2>4
  <1> QED
    BY <1>8, <1>9

\* Programming a State byte changes no size.
LEMMA StateSet ==
    ASSUME TypeOK, cache = flash, NEW i \in 0 .. Len(flash), i # 0 => flash[i].state # "start",
           NEW st \in States, st # "start", SetState(i, st)
    PROVE  /\ flash' \in Seq(Entry) /\ Len(flash') = Len(flash) /\ cache' = flash'
           /\ Used(flash') = Used(flash)
           /\ \A j \in 1 .. Len(flash) :
                  /\ flash'[j].name = flash[j].name
                  /\ flash'[j].data = flash[j].data
                  /\ flash'[j].whole = flash[j].whole
                  /\ flash'[j].state = IF j = i THEN st ELSE flash[j].state
                  /\ j # i => flash'[j] = flash[j]
  <1>1. PICK s, t : s = flash /\ t = flash'
    OBVIOUS
  <1>2. s \in Seq(Entry) /\ Len(s) \in Nat /\ DOMAIN s = 1 .. Len(s)
    BY <1>1, LenProperties DEF TypeOK
  <1>3. t = [j \in 1 .. Len(s) |-> IF j = i THEN [s[j] EXCEPT !.state = st] ELSE s[j]]
    BY <1>1, <1>2 DEF SetState
  <1>4. \A j \in 1 .. Len(s) : s[j] \in Entry
    BY <1>2, ElementOfSeq
  <1>5. \A e \in Entry : /\ [e EXCEPT !.state = st] \in Entry
                         /\ [e EXCEPT !.state = st].name = e.name
                         /\ [e EXCEPT !.state = st].data = e.data
                         /\ [e EXCEPT !.state = st].whole = e.whole
                         /\ [e EXCEPT !.state = st].state = st
    BY DEF Entry
  <1>6. \A j \in 1 .. Len(s) :
            /\ t[j] \in Entry
            /\ t[j].name = s[j].name /\ t[j].data = s[j].data /\ t[j].whole = s[j].whole
            /\ t[j].state = IF j = i THEN st ELSE s[j].state
            /\ j # i => t[j] = s[j]
    BY <1>3, <1>4, <1>5
  <1>7. t \in Seq(Entry) /\ Len(t) = Len(s)
    BY <1>2, <1>3, <1>6
  <1>8. \A j \in 1 .. Len(s) : EntrySize(s[j]) = EntrySize(t[j])
    BY <1>1, <1>2, <1>6 DEF EntrySize
  <1>9. Used(t) = Used(s)
    BY <1>2, <1>7, <1>8, UsedSame
  <1>10. cache' = t
    BY <1>1 DEF SetState
  <1> QED
    BY <1>1, <1>6, <1>7, <1>9, <1>10

(***************************************************************************)
(* Every step keeps the invariant.                                         *)
(***************************************************************************)
LEMMA InitInv == Init => IInv
  <1> SUFFICES ASSUME Init
               PROVE  IInv
    OBVIOUS
  <1>1. <<>> \in Seq(Entry) /\ Used(<<>>) = 0 /\ Len(<<>>) = 0
    BY UsedEmpty, EmptySeq
  <1>2. TypeOK
    <2>1. 0 \in Nat /\ {0} \subseteq 0 .. 0 /\ Len(flash) = 0 /\ flash \in Seq(Entry) /\ cache \in Seq(Entry)
      BY <1>1 DEF Init
    <2> QED
      BY <2>1 DEF Init, TypeOK, Labels
  <1>3. CallOK /\ CacheOK /\ FoundOK
    BY DEF Init, CallOK, CacheOK, FoundOK, RestPC, WritePC, NewPC
  <1>4. RoomOK
    BY <1>1, VariableAssumption DEF Init, RoomOK, WritePC
  <1> QED
    BY <1>2, <1>3, <1>4 DEF IInv

\* Steps that end at a label of rest, with the memory copy made from flash.
LEMMA BootInv ==
    ASSUME IInv, Boot
    PROVE  IInv'
  <1>1. /\ pc = "off" /\ pc' = "b_check" /\ flash' = Restarted /\ cache' = Restarted
        /\ last' = Used(Restarted) /\ torn' = (torn /\ pending = None) /\ pending' = None
        /\ UNCHANGED <<runtime, reclaimed, call, curr, inDel, status>>
    BY DEF Boot, Goto, mode
  <1>2. TypeOK /\ CallOK /\ RoomOK
    BY DEF IInv
  <1>3. Restarted \in Seq(Entry) /\ Used(Restarted) <= Space
    BY <1>2 DEF Restarted, TypeOK, RoomOK
  <1>4. Used(Restarted) \in Nat /\ Len(Restarted) \in Nat
    BY <1>3, UsedIs, LenProperties
  <1>5. call' = None /\ curr' = 0 /\ inDel' = 0
    BY <1>1, <1>2 DEF CallOK, RestPC
  <1>6. TypeOK'
    <2>1. {torn', runtime', reclaimed'} \subseteq BOOLEAN
      BY <1>1, <1>2 DEF TypeOK
    <2>2. {curr', inDel'} \subseteq 0 .. Len(flash')
      BY <1>1, <1>4, <1>5
    <2>3. /\ flash' \in Seq(Entry) /\ cache' \in Seq(Entry) /\ last' \in Nat
          /\ pending' \in Seq(Entry) \cup {None}
      BY <1>1, <1>3, <1>4
    <2>4. pc' \in Labels /\ status' \in {"none", "written", "failed"}
      BY <1>1, <1>2 DEF TypeOK, Labels
    <2> QED
      BY <1>5, <2>1, <2>2, <2>3, <2>4 DEF TypeOK
  <1>7. CallOK'
    BY <1>1, <1>5 DEF CallOK, RestPC, NewPC, WritePC
  <1>8. CacheOK'
    BY <1>1 DEF CacheOK, WritePC
  <1>9. RoomOK'
    BY <1>1, <1>3 DEF RoomOK, WritePC
  <1>10. FoundOK'
    BY <1>5 DEF FoundOK
  <1> QED
    BY <1>6, <1>7, <1>8, <1>9, <1>10 DEF IInv

\* A return: the memory copy is the flash, the next entry goes behind the last.
LEMMA ReturnInv ==
    ASSUME IInv, NEW st \in {"none", "written", "failed"}, Return(st),
           flash' \in Seq(Entry), cache' = flash', last' = Used(flash'), Used(flash') <= Space,
           ~torn', {torn', runtime', reclaimed'} \subseteq BOOLEAN,
           pending' \in Seq(Entry) \cup {None}, pending' # None => Used(pending') <= Space
    PROVE  IInv'
  <1>1. /\ pc' = "idle" /\ call' = None /\ curr' = 0 /\ inDel' = 0
        /\ status' \in {"none", "written", "failed"}
    BY DEF Return, IInv, TypeOK
  <1>2. Used(flash') \in Nat /\ Len(flash') \in Nat
    BY UsedIs, LenProperties
  <1>3. TypeOK'
    BY <1>1, <1>2 DEF TypeOK, Labels
  <1>4. CallOK'
    BY <1>1 DEF CallOK, RestPC, NewPC, WritePC
  <1>5. CacheOK'
    BY <1>1 DEF CacheOK, WritePC
  <1>6. RoomOK'
    BY <1>1 DEF RoomOK, WritePC
  <1>7. FoundOK'
    BY <1>1 DEF FoundOK
  <1> QED
    BY <1>3, <1>4, <1>5, <1>6, <1>7 DEF IInv

\* A reclaim starts: the memory copy becomes its buffer.
LEMMA BufferInv ==
    ASSUME IInv, Goto("r_ftw"), UNCHANGED <<flash, torn, pending, last, runtime>>,
           cache' \in Seq(Entry), Used(cache') <= Space, reclaimed' \in BOOLEAN,
           pc \in {"b_check", "idle", "u_room"}
    PROVE  IInv'
  <1>1. pc' = "r_ftw" /\ UNCHANGED <<call, curr, inDel, status>>
    BY DEF Goto
  <1>2. TypeOK /\ CallOK /\ RoomOK /\ FoundOK
    BY DEF IInv
  <1>3. TypeOK'
    BY <1>1, <1>2 DEF TypeOK, Labels
  <1>4. CallOK'
    BY <1>1, <1>2 DEF CallOK, RestPC, NewPC, WritePC
  <1>5. CacheOK'
    BY <1>1 DEF CacheOK, WritePC
  <1>6. torn => call = None
    BY <1>2 DEF RoomOK, CallOK, RestPC
  <1>7. RoomOK'
    BY <1>1, <1>2, <1>6 DEF RoomOK, WritePC
  <1>8. FoundOK'
    BY <1>1, <1>2 DEF FoundOK
  <1> QED
    BY <1>3, <1>4, <1>5, <1>7, <1>8 DEF IInv

LEMMA CheckFreeAreaInv ==
    ASSUME IInv, CheckFreeArea
    PROVE  IInv'
  <1>1. pc = "b_check" /\ UNCHANGED <<flash, torn, pending, last, runtime, reclaimed>>
    BY DEF CheckFreeArea, mode
  <1>2. /\ TypeOK /\ cache = flash /\ last = Used(cache) /\ Used(flash) <= Space
    BY <1>1 DEF IInv, CacheOK, RoomOK, WritePC
  <1>5. pending \in Seq(Entry) \cup {None} /\ (pending # None => Used(pending) <= Space)
    BY DEF IInv, TypeOK, RoomOK
  <1>3. CASE torn
    <2>1. StartReclaim(<<>>)
      BY <1>3 DEF CheckFreeArea
    <2> QED
      BY <1>1, <1>2, <2>1, TidyIs, BufferInv DEF TypeOK
  <1>4. CASE ~torn
    <2>1. cache' = cache /\ Return("none")
      BY <1>4 DEF CheckFreeArea
    <2>2. flash' \in Seq(Entry) /\ cache' = flash' /\ last' = Used(flash') /\ Used(flash') <= Space
      BY <1>1, <1>2, <2>1 DEF TypeOK
    <2>3. ~torn' /\ {torn', runtime', reclaimed'} \subseteq BOOLEAN
      BY <1>1, <1>2, <1>4 DEF TypeOK
    <2> QED
      BY <1>1, <1>5, <2>1, <2>2, <2>3, ReturnInv
  <1> QED
    BY <1>3, <1>4

LEMMA ReadyToBootInv ==
    ASSUME IInv, ReadyToBoot
    PROVE  IInv'
  <1>1. pc = "idle" /\ reclaimed' = TRUE /\ UNCHANGED <<flash, torn, pending, last, runtime>>
    BY DEF ReadyToBoot
  <1>2. TypeOK /\ CallOK /\ CacheOK /\ RoomOK /\ FoundOK
    BY DEF IInv
  <1>3. CASE StartReclaim(<<>>)
    BY <1>1, <1>2, <1>3, TidyIs, BufferInv DEF RoomOK
  <1>4. CASE UNCHANGED <<cache, pc, call, track, status>>
    <2>1. UNCHANGED <<flash, torn, pending, cache, last, runtime, pc, call, curr, inDel, status>>
      BY <1>1, <1>4 DEF track
    <2>2. TypeOK'
      BY <1>1, <1>2, <2>1 DEF TypeOK
    <2>3. CallOK' /\ CacheOK' /\ RoomOK' /\ FoundOK'
      BY <1>1, <1>2, <2>1 DEF CallOK, CacheOK, RoomOK, FoundOK, RestPC, NewPC, WritePC
    <2> QED
      BY <2>2, <2>3 DEF IInv
  <1> QED
    BY <1>3, <1>4 DEF ReadyToBoot

LEMMA ExitInv ==
    ASSUME IInv, ExitBootServices
    PROVE  IInv'
  <1>1. /\ pc = "idle" /\ runtime' = TRUE
        /\ UNCHANGED <<flash, torn, pending, cache, last, reclaimed, pc, call, curr, inDel, status>>
    BY DEF ExitBootServices, track
  <1>2. TypeOK /\ CallOK /\ CacheOK /\ RoomOK /\ FoundOK
    BY DEF IInv
  <1>3. TypeOK'
    BY <1>1, <1>2 DEF TypeOK
  <1>4. CallOK' /\ CacheOK' /\ RoomOK' /\ FoundOK'
    BY <1>1, <1>2 DEF CallOK, CacheOK, RoomOK, FoundOK, RestPC, NewPC, WritePC
  <1> QED
    BY <1>3, <1>4 DEF IInv

LEMMA FtwSucceedsInv ==
    ASSUME IInv, FtwSucceeds
    PROVE  IInv'
  <1>1. /\ pc = "r_ftw" /\ flash' = cache /\ torn' = FALSE /\ last' = Used(cache)
        /\ UNCHANGED <<pending, cache, runtime, reclaimed>>
    BY DEF FtwSucceeds, mode
  <1>2. /\ TypeOK /\ CallOK /\ Used(cache) <= Space
        /\ pending # None => Used(pending) <= Space
    BY <1>1 DEF IInv, RoomOK
  <1>3. cache \in Seq(Entry) /\ Used(cache) \in Nat
    BY <1>2, UsedIs DEF TypeOK
  <1>4. CASE call = None
    <2>1. Return("none")
      BY <1>4 DEF FtwSucceeds
    <2> QED
      BY <1>1, <1>2, <1>3, <2>1, ReturnInv DEF TypeOK
  <1>5. CASE call # None
    <2>1. pc' = "done" /\ UNCHANGED <<call, curr, inDel, status>>
      BY <1>5 DEF FtwSucceeds, Goto
    <2>2. TypeOK'
      BY <1>1, <1>2, <1>3, <2>1 DEF TypeOK, Labels
    <2>3. CallOK'
      BY <1>2, <1>5, <2>1 DEF CallOK, RestPC, NewPC, WritePC
    <2>4. CacheOK' /\ RoomOK' /\ FoundOK'
      BY <1>1, <1>2, <2>1 DEF CacheOK, RoomOK, FoundOK, WritePC
    <2> QED
      BY <2>2, <2>3, <2>4 DEF IInv
  <1> QED
    BY <1>4, <1>5

LEMMA FtwFailsInv ==
    ASSUME IInv, FtwFails
    PROVE  IInv'
  <1>1. /\ pc = "r_ftw" /\ ~torn /\ cache' = flash /\ last' = Used(flash) /\ Return("failed")
        /\ pending' \in {pending, None, cache}
        /\ UNCHANGED <<flash, torn, runtime, reclaimed>>
    BY DEF FtwFails, mode
  <1>2. TypeOK /\ Used(flash) <= Space /\ Used(cache) <= Space
    BY <1>1 DEF IInv, RoomOK
  <1>3. /\ pending' \in Seq(Entry) \cup {None}
        /\ pending' # None => Used(pending') <= Space
    BY <1>1, <1>2 DEF TypeOK, IInv, RoomOK
  <1> QED
    BY <1>1, <1>2, <1>3, ReturnInv DEF TypeOK

LEMMA CallInv ==
    ASSUME IInv, NEW n \in Name, NEW d \in Data \cup {Absent}, CallSetVariable(n, d)
    PROVE  IInv'
  <1>1. /\ pc = "idle" /\ pc' = "find" /\ call' = [name |-> n, data |-> d] /\ status' = "none"
        /\ UNCHANGED <<flash, torn, pending, cache, last, runtime, reclaimed, curr, inDel>>
    BY DEF CallSetVariable, mode, track
  <1>2. TypeOK /\ CallOK /\ CacheOK /\ RoomOK /\ FoundOK
    BY DEF IInv
  <1>3. call' \in [name : Name, data : Data \cup {Absent}] /\ call' # None
    BY <1>1, VariableAssumption
  <1>4. TypeOK'
    BY <1>1, <1>2, <1>3 DEF TypeOK, Labels
  <1>5. CallOK'
    BY <1>1, <1>2, <1>3 DEF CallOK, RestPC, NewPC, WritePC
  <1>6. CacheOK' /\ RoomOK' /\ FoundOK'
    BY <1>1, <1>2 DEF CacheOK, RoomOK, FoundOK, WritePC
  <1> QED
    BY <1>4, <1>5, <1>6 DEF IInv

\* A return at a label where nothing is being written.
LEMMA EndInv ==
    ASSUME IInv, NEW st \in {"none", "written", "failed"}, Return(st),
           pc \notin RestPC \cup {"r_ftw"} \cup WritePC,
           UNCHANGED <<flash, torn, pending, cache, last, runtime, reclaimed>>
    PROVE  IInv'
  <1>1. TypeOK
    BY DEF IInv
  <1>2. /\ cache = flash /\ last = Used(cache) /\ Used(flash) <= Space /\ ~torn
        /\ pending # None => Used(pending) <= Space
    BY DEF IInv, CacheOK, RoomOK, RestPC
  <1> QED
    BY <1>1, <1>2, ReturnInv DEF TypeOK

LEMMA DeleteNothingInv ==
    ASSUME IInv, DeleteNothing
    PROVE  IInv'
  <1>1. pc = "find" /\ Return("failed") /\ UNCHANGED <<flash, torn, pending, cache, last, runtime, reclaimed>>
    BY DEF DeleteNothing, mode
  <1> QED
    BY <1>1, EndInv DEF RestPC, WritePC

LEMMA ReturnSuccessInv ==
    ASSUME IInv, ReturnSuccess
    PROVE  IInv'
  <1>1. pc = "done" /\ Return("written") /\ UNCHANGED <<flash, torn, pending, cache, last, runtime, reclaimed>>
    BY DEF ReturnSuccess, mode
  <1> QED
    BY <1>1, EndInv DEF RestPC, WritePC

\* Where FindVariable goes.
LEMMA FindGoes ==
    ASSUME IInv, FindVariable
    PROVE  /\ pc = "find" /\ call # None /\ cache = flash
           /\ call \in [name : Name, data : Data \cup {Absent}]
           /\ UNCHANGED <<flash, torn, pending, cache, last, runtime, reclaimed, call, status>>
           /\ curr' = Find(flash, call.name).curr /\ inDel' = Find(flash, call.name).inDel
           /\ curr' # 0 \/ call.data # Absent
           /\ \/ pc' = "d_indel" /\ call.data = Absent /\ inDel' # 0
              \/ pc' = "d_curr" /\ call.data = Absent /\ inDel' = 0
              \/ pc' = "u_room" /\ call.data # Absent /\ curr' = 0
              \/ pc' = "done" /\ call.data # Absent /\ curr' # 0 /\ flash[curr'].data = call.data
              \/ pc' = "u_mark" /\ call.data # Absent /\ curr' # 0
  <1>1. pc = "find" /\ UNCHANGED <<flash, torn, pending, cache, last, runtime, reclaimed, call, status>>
    BY DEF FindVariable, mode
  <1>2. call # None /\ cache = flash
    BY <1>1 DEF IInv, CallOK, CacheOK, RestPC, WritePC
  <1>3. call \in [name : Name, data : Data \cup {Absent}]
    BY <1>2 DEF IInv, TypeOK
  <1>4. /\ curr' = Find(flash, call.name).curr /\ inDel' = Find(flash, call.name).inDel
        /\ curr' # 0 \/ call.data # Absent
        /\ pc' = IF call.data = Absent
                 THEN IF inDel' # 0 THEN "d_indel" ELSE "d_curr"
                 ELSE IF curr' = 0 THEN "u_room"
                 ELSE IF flash[curr'].data = call.data THEN "done"
                 ELSE "u_mark"
    BY <1>2 DEF FindVariable
  <1> QED
    BY <1>1, <1>2, <1>3, <1>4

LEMMA FindInv ==
    ASSUME IInv, FindVariable
    PROVE  IInv'
  <1>1. TypeOK /\ CallOK /\ RoomOK
    BY DEF IInv
  <1>2. flash \in Seq(Entry) /\ Len(flash) \in Nat
    BY <1>1, LenProperties DEF TypeOK
  <1>3. /\ curr' \in 0 .. Len(flash) /\ inDel' \in 0 .. Len(flash)
        /\ curr' # 0 => flash[curr'].state # "start"
        /\ inDel' # 0 => flash[inDel'].state # "start"
    <2>1. PICK c, d : c = curr' /\ d = inDel'
      OBVIOUS
    <2>2. c = Find(flash, call.name).curr /\ d = Find(flash, call.name).inDel
      BY <2>1, FindGoes
    <2>3. /\ c \in 0 .. Len(flash) /\ d \in 0 .. Len(flash)
          /\ c # 0 => c \in Copies(flash, call.name, "added") \cup Copies(flash, call.name, "moving")
          /\ d # 0 => d \in Copies(flash, call.name, "moving")
      BY <1>2, <2>2, FindIs
    <2> QED
      BY <2>1, <2>3 DEF Copies
  <1>4. TypeOK'
    BY <1>1, <1>2, <1>3, FindGoes DEF TypeOK, Labels
  <1>5. CallOK'
    BY <1>1, FindGoes DEF CallOK, RestPC, NewPC, WritePC
  <1>6. CacheOK' /\ FoundOK'
    BY <1>3, FindGoes DEF CacheOK, FoundOK, WritePC
  <1>7. RoomOK'
    BY <1>1, FindGoes DEF RoomOK, WritePC
  <1> QED
    BY <1>4, <1>5, <1>6, <1>7 DEF IInv

\* Programming a State byte, whichever step does it.
LEMMA StateInv ==
    ASSUME IInv, pc \in {"d_indel", "d_curr", "u_mark", "o_indel", "o_curr"},
           NEW i \in {curr, inDel}, NEW st \in {"moving", "deleted"}, SetState(i, st),
           NEW l \in {"d_curr", "done", "u_room", "o_curr"}, Goto(l),
           l = "u_room" => pc = "u_mark", l = "o_curr" => pc = "o_indel",
           UNCHANGED <<torn, pending, last, runtime, reclaimed>>
    PROVE  IInv'
  <1>1. TypeOK /\ CallOK /\ CacheOK /\ RoomOK /\ FoundOK
    BY DEF IInv
  <1>2. cache = flash /\ last = Used(flash) /\ call # None /\ ~torn
    BY <1>1 DEF CacheOK, RoomOK, CallOK, RestPC, WritePC
  <1>3. /\ {curr, inDel} \subseteq 0 .. Len(flash)
        /\ i # 0 => flash[i].state # "start"
        /\ \A j \in {curr, inDel} : j # 0 => flash[j].state # "start"
    BY <1>1 DEF TypeOK, FoundOK
  <1>4. i \in 0 .. Len(flash) /\ st \in States /\ st # "start"
    BY <1>3 DEF States
  <1>5. /\ flash' \in Seq(Entry) /\ Len(flash') = Len(flash) /\ cache' = flash'
        /\ Used(flash') = Used(flash)
        /\ \A j \in 1 .. Len(flash) : flash'[j].state = IF j = i THEN st ELSE flash[j].state
    BY <1>1, <1>2, <1>3, <1>4, StateSet
  <1>6. pc' = l /\ UNCHANGED <<call, curr, inDel, status>>
    BY DEF Goto
  <1>7. TypeOK'
    BY <1>1, <1>3, <1>5, <1>6 DEF TypeOK, Labels
  <1>8. CallOK'
    BY <1>1, <1>2, <1>6 DEF CallOK, RestPC, NewPC, WritePC
  <1>9. CacheOK'
    BY <1>5, <1>6 DEF CacheOK, WritePC
  <1>10. RoomOK'
    BY <1>1, <1>2, <1>5, <1>6 DEF RoomOK, WritePC
  <1>11. FoundOK'
    <2>1. \A j \in {curr, inDel} : j # 0 => j \in 1 .. Len(flash)
      BY <1>1, <1>3, LenProperties DEF TypeOK
    <2>2. \A j \in {curr, inDel} : j # 0 => flash'[j].state # "start"
      BY <1>3, <1>5, <2>1
    <2> QED
      BY <1>6, <2>2 DEF FoundOK
  <1> QED
    BY <1>7, <1>8, <1>9, <1>10, <1>11 DEF IInv

LEMMA CheckRoomInv ==
    ASSUME IInv, CheckRoom
    PROVE  IInv'
  <1>1. pc = "u_room" /\ UNCHANGED <<flash, torn, pending, last, runtime, reclaimed>>
    BY DEF CheckRoom, mode
  <1>2. TypeOK /\ CallOK /\ CacheOK /\ RoomOK /\ FoundOK
    BY DEF IInv
  <1>3. call # None /\ call.data \in Data /\ call.name \in Name
    BY <1>1, <1>2 DEF CallOK, TypeOK, RestPC, NewPC
  <1>4. CASE last + Size[call.data] <= Limit /\ Goto("u_header") /\ UNCHANGED cache
    <2>1. pc' = "u_header" /\ UNCHANGED <<cache, call, curr, inDel, status>>
      BY <1>4 DEF Goto
    <2>2. last + Size[call.data] <= Space
      <3>1. last \in Nat /\ Size[call.data] \in 1 .. MaxSize /\ MaxSize \in Nat
        BY <1>2, <1>3, VariableAssumption DEF TypeOK
      <3>2. Limit <= Space /\ Limit \in Nat /\ Space \in Nat
        BY VariableAssumption DEF Limit
      <3> QED
        BY <1>4, <3>1, <3>2
    <2>3. TypeOK'
      BY <1>1, <1>2, <2>1 DEF TypeOK, Labels
    <2>4. CallOK'
      BY <1>1, <1>2, <2>1 DEF CallOK, RestPC, NewPC, WritePC
    <2>5. CacheOK' /\ FoundOK'
      BY <1>1, <1>2, <2>1 DEF CacheOK, FoundOK, WritePC
    <2>6. RoomOK'
      BY <1>1, <1>2, <2>1, <2>2 DEF RoomOK, WritePC
    <2> QED
      BY <2>3, <2>4, <2>5, <2>6 DEF IInv
  <1>5. CASE Return("failed") /\ UNCHANGED cache
    BY <1>1, <1>5, EndInv DEF RestPC, WritePC
  <1>6. CASE StartReclaim(<<Ended(call.name, call.data)>>)
    <2>1. PICK e \in Entry : e.state = "added" /\ e = Ended(call.name, call.data)
      BY <1>3 DEF Ended, Entry, States
    <2>2. StartReclaim(<<e>>)
      BY <1>6, <2>1
    <2>3. CASE cache' = flash /\ Return("failed")
      <3>1. cache' = cache
        BY <1>1, <1>2, <2>3 DEF CacheOK, WritePC
      <3> QED
        BY <1>1, <2>3, <3>1, EndInv DEF RestPC, WritePC
    <2>4. CASE cache' \in Seq(Entry) /\ Used(cache') <= Space /\ Goto("r_ftw")
      BY <1>1, <1>2, <2>4, BufferInv DEF TypeOK
    <2> QED
      BY <1>2, <2>1, <2>2, <2>3, <2>4, RoomMade
  <1> QED
    BY <1>4, <1>5, <1>6 DEF CheckRoom

LEMMA EntryIs ==
    ASSUME NEW e \in Entry
    PROVE  e = [name |-> e.name, data |-> e.data, whole |-> e.whole, state |-> e.state]
  BY DEF Entry

\* One or two fields of an entry replaced.
LEMMA EntryExcept ==
    ASSUME NEW e \in Entry, NEW st \in States
    PROVE  /\ [e EXCEPT !.state = st]
                 = [name |-> e.name, data |-> e.data, whole |-> e.whole, state |-> st]
           /\ [e EXCEPT !.whole = TRUE]
                 = [name |-> e.name, data |-> e.data, whole |-> TRUE, state |-> e.state]
           /\ [e EXCEPT !.whole = FALSE, !.state = st]
                 = [name |-> e.name, data |-> e.data, whole |-> FALSE, state |-> st]
  <1>1. [e EXCEPT !.state = st]
           = [name |-> e.name, data |-> e.data, whole |-> e.whole, state |-> st]
    <2>1. PICK f : f = [e EXCEPT !.state = st]
      OBVIOUS
    <2>2. f \in Entry /\ f.name = e.name /\ f.data = e.data /\ f.whole = e.whole /\ f.state = st
      BY <2>1 DEF Entry
    <2> QED
      BY <2>1, <2>2, EntryIs
  <1>2. [e EXCEPT !.whole = TRUE]
           = [name |-> e.name, data |-> e.data, whole |-> TRUE, state |-> e.state]
    <2>1. PICK f : f = [e EXCEPT !.whole = TRUE]
      OBVIOUS
    <2>2. f \in Entry /\ f.name = e.name /\ f.data = e.data /\ f.whole = TRUE /\ f.state = e.state
      BY <2>1 DEF Entry
    <2> QED
      BY <2>1, <2>2, EntryIs
  <1>3. [e EXCEPT !.whole = FALSE, !.state = st]
           = [name |-> e.name, data |-> e.data, whole |-> FALSE, state |-> st]
    <2>1. PICK f : f = [e EXCEPT !.whole = FALSE, !.state = st]
      OBVIOUS
    <2>2. f \in Entry /\ f.name = e.name /\ f.data = e.data /\ f.whole = FALSE /\ f.state = st
      BY <2>1 DEF Entry
    <2> QED
      BY <2>1, <2>2, EntryIs
  <1> QED
    BY <1>1, <1>2, <1>3

\* The header is the entry to come, with neither name nor data written.
LEMMA HeaderIs ==
    ASSUME call.data \in Data, call.name \in Name, WriteHeader
    PROVE  flash' = Append(flash, Begun("start", FALSE)) /\ Begun("start", FALSE) \in Entry
  <1>1. PICK e : e = Begun("start", FALSE)
    OBVIOUS
  <1>2. PICK g \in Entry : g = Ended(call.name, call.data)
    BY DEF Ended, Entry, States
  <1>3. [g EXCEPT !.whole = FALSE, !.state = "start"]
           = [name |-> g.name, data |-> g.data, whole |-> FALSE, state |-> "start"]
    BY EntryExcept DEF States
  <1>4. g.name = call.name /\ g.data = call.data
    BY <1>2 DEF Ended
  <1>5. e = [g EXCEPT !.whole = FALSE, !.state = "start"]
    BY <1>1, <1>3, <1>4 DEF Begun
  <1>6. flash' = Append(flash, [g EXCEPT !.whole = FALSE, !.state = "start"])
    BY <1>2 DEF WriteHeader
  <1>7. e \in Entry
    BY <1>1 DEF Begun, Entry, States
  <1> QED
    BY <1>1, <1>5, <1>6, <1>7

LEMMA WriteHeaderInv ==
    ASSUME IInv, WriteHeader
    PROVE  IInv'
  <1>1. /\ pc = "u_header" /\ pc' = "u_valid"
        /\ UNCHANGED <<torn, pending, cache, last, runtime, reclaimed, call, curr, inDel, status>>
    BY DEF WriteHeader, Goto, mode
  <1>2. TypeOK /\ CallOK /\ CacheOK /\ RoomOK /\ FoundOK
    BY DEF IInv
  <1>3. call # None /\ call.data \in Data /\ call.name \in Name
    BY <1>1, <1>2 DEF CallOK, TypeOK, RestPC, NewPC
  <1>4. PICK e : e = Begun("start", FALSE)
    OBVIOUS
  <1>5. e \in Entry /\ EntrySize(e) = 1
    BY <1>3, <1>4 DEF Begun, Entry, States, EntrySize
  <1>6. flash' = Append(flash, e)
    BY <1>3, <1>4, HeaderIs
  <1>7. /\ flash \in Seq(Entry) /\ flash' \in Seq(Entry) /\ Used(flash') = Used(flash) + 1
        /\ Len(flash') = Len(flash) + 1 /\ Len(flash) \in Nat
        /\ \A j \in 1 .. Len(flash) : flash'[j] = flash[j]
    BY <1>2, <1>5, <1>6, UsedAppend, AppendProperties, LenProperties DEF TypeOK
  <1>8. cache = flash /\ last = Used(flash) /\ last + Size[call.data] <= Space
    BY <1>1, <1>2 DEF CacheOK, RoomOK, WritePC
  <1>9. Used(flash') <= Space
    <2>1. Size[call.data] \in 1 .. MaxSize /\ MaxSize \in Nat /\ Space \in Nat /\ last \in Nat
      BY <1>2, <1>3, VariableAssumption DEF TypeOK
    <2> QED
      BY <1>7, <1>8, <2>1
  <1>10. curr \in 0 .. Len(flash) /\ inDel \in 0 .. Len(flash)
    BY <1>1, <1>2 DEF TypeOK
  <1>11. TypeOK'
    BY <1>1, <1>2, <1>7, <1>10 DEF TypeOK, Labels
  <1>12. CallOK'
    BY <1>1, <1>2, <1>3 DEF CallOK, RestPC, NewPC, WritePC
  <1>13. CacheOK'
    BY <1>1, <1>4, <1>6, <1>8 DEF CacheOK, Begun, WritePC
  <1>14. RoomOK'
    BY <1>1, <1>2, <1>8, <1>9 DEF RoomOK, WritePC
  <1>15. FoundOK'
    <2>1. \A j \in {curr, inDel} : j # 0 => j \in 1 .. Len(flash)
      BY <1>7, <1>10
    <2>2. \A j \in {curr, inDel} : j # 0 => flash'[j].state # "start"
      BY <1>1, <1>2, <1>7, <2>1 DEF FoundOK
    <2> QED
      BY <1>1, <2>2 DEF FoundOK
  <1> QED
    BY <1>11, <1>12, <1>13, <1>14, <1>15 DEF IInv

\* The entry at the end replaced.
LEMMA LastSet ==
    ASSUME NEW s \in Seq(Entry), NEW e \in Entry, NEW f \in Entry, NEW t,
           t = [Append(s, e) EXCEPT ![Len(Append(s, e))] = f]
    PROVE  t = Append(s, f)
  <1>1. PICK a, b : a = Append(s, e) /\ b = Append(s, f)
    OBVIOUS
  <1>2. /\ a \in Seq(Entry) /\ Len(a) = Len(s) + 1 /\ Len(s) \in Nat
        /\ \A i \in 1 .. Len(s) : a[i] = s[i]
    BY <1>1, AppendProperties, LenProperties
  <1>3. /\ b \in Seq(Entry) /\ Len(b) = Len(s) + 1
        /\ \A i \in 1 .. Len(s) : b[i] = s[i]
        /\ b[Len(s) + 1] = f
    BY <1>1, AppendProperties
  <1>4. t = [a EXCEPT ![Len(a)] = f] /\ Len(a) \in 1 .. Len(a)
    BY <1>1, <1>2
  <1>5. /\ t \in Seq(Entry) /\ Len(t) = Len(a)
        /\ \A i \in 1 .. Len(a) : t[i] = IF i = Len(a) THEN f ELSE a[i]
    BY <1>2, <1>4, ExceptSeq
  <1>6. \A i \in 1 .. Len(s) + 1 : t[i] = b[i]
    <2>1. \A i \in 1 .. Len(s) + 1 : i = Len(s) + 1 \/ i \in 1 .. Len(s)
      BY <1>2
    <2>2. \A i \in 1 .. Len(s) : i # Len(s) + 1
      BY <1>2
    <2> QED
      BY <1>2, <1>3, <1>5, <2>1, <2>2
  <1>7. Len(t) = Len(b) /\ \A i \in 1 .. Len(t) : t[i] = b[i]
    BY <1>2, <1>3, <1>5, <1>6
  <1>8. t = b
    BY <1>3, <1>5, <1>7, SeqEqual
  <1> QED
    BY <1>1, <1>8

\* The entry being written, at every label of the write.
LEMMA BegunIs ==
    ASSUME IInv, pc \in {"u_valid", "u_data", "u_added"}
    PROVE  /\ call # None /\ call.data \in Data /\ call.name \in Name
           /\ cache \in Seq(Entry) /\ Len(flash) = Len(cache) + 1 /\ Len(cache) \in Nat
           /\ curr \in 0 .. Len(flash) /\ inDel \in 0 .. Len(flash)
           /\ Size[call.data] \in Nat
           /\ last = Used(cache) /\ last + Size[call.data] <= Space
           /\ \A st \in States, w \in BOOLEAN :
                  /\ Begun(st, w) \in Entry
                  /\ Append(cache, Begun(st, w)) \in Seq(Entry)
                  /\ Len(Append(cache, Begun(st, w))) = Len(cache) + 1
                  /\ \A i \in 1 .. Len(cache) : Append(cache, Begun(st, w))[i] = cache[i]
                  /\ Append(cache, Begun(st, w))[Len(cache) + 1] = Begun(st, w)
                  /\ st # "start" => Used(Append(cache, Begun(st, w))) = last + Size[call.data]
  <1>1. TypeOK /\ CallOK /\ CacheOK /\ RoomOK
    BY DEF IInv
  <1>2. call # None /\ call.data \in Data /\ call.name \in Name
    BY <1>1 DEF CallOK, TypeOK, RestPC, NewPC, WritePC
  <1>3. cache \in Seq(Entry) /\ Len(cache) \in Nat
    BY <1>1, LenProperties DEF TypeOK
  <1>4. curr \in 0 .. Len(flash) /\ inDel \in 0 .. Len(flash)
    BY <1>1 DEF TypeOK
  <1>5. last = Used(cache) /\ last + Size[call.data] <= Space
    BY <1>1 DEF RoomOK, WritePC
  <1>6. Size[call.data] \in Nat
    BY <1>2, VariableAssumption
  <1>7. ASSUME NEW st \in States, NEW w \in BOOLEAN
        PROVE  /\ Begun(st, w) \in Entry
               /\ Append(cache, Begun(st, w)) \in Seq(Entry)
               /\ Len(Append(cache, Begun(st, w))) = Len(cache) + 1
               /\ \A i \in 1 .. Len(cache) : Append(cache, Begun(st, w))[i] = cache[i]
               /\ Append(cache, Begun(st, w))[Len(cache) + 1] = Begun(st, w)
               /\ st # "start" => Used(Append(cache, Begun(st, w))) = last + Size[call.data]
    <2>1. PICK e : e = Begun(st, w)
      OBVIOUS
    <2>2. e \in Entry /\ (st # "start" => EntrySize(e) = Size[call.data])
      BY <1>2, <2>1 DEF Begun, Entry, EntrySize
    <2>3. /\ Append(cache, e) \in Seq(Entry) /\ Len(Append(cache, e)) = Len(cache) + 1
          /\ \A i \in 1 .. Len(cache) : Append(cache, e)[i] = cache[i]
          /\ Append(cache, e)[Len(cache) + 1] = e
      BY <1>3, <2>2, AppendProperties
    <2>4. Used(Append(cache, e)) = Used(cache) + EntrySize(e)
      BY <1>3, <2>2, UsedAppend
    <2> QED
      BY <1>5, <2>1, <2>2, <2>3, <2>4
  <1>8. Len(flash) = Len(cache) + 1
    <2>1. \E st \in States, w \in BOOLEAN : flash = Append(cache, Begun(st, w))
      BY <1>1 DEF CacheOK, States
    <2> QED
      BY <1>7, <2>1
  <1> QED
    BY <1>2, <1>3, <1>4, <1>5, <1>6, <1>7, <1>8

\* The two steps between the header and the ADDED state.
LEMMA ProgressIs ==
    ASSUME IInv, NEW e, NEW f,
           \/ ValidateHeader /\ e = Begun("start", FALSE) /\ f = Begun("header", FALSE)
           \/ WriteData /\ e = Begun("header", FALSE) /\ f = Begun("header", TRUE)
           \/ MarkAdded /\ e = Begun("header", TRUE) /\ f = Begun("added", TRUE)
    PROVE  /\ pc \in {"u_valid", "u_data", "u_added"}
           /\ e \in Entry /\ f \in Entry
           /\ flash = Append(cache, e) /\ flash' = Append(cache, f)
  <1>1. pc \in {"u_valid", "u_data", "u_added"}
    BY DEF ValidateHeader, WriteData, MarkAdded
  <1>2. cache \in Seq(Entry) /\ e \in Entry /\ f \in Entry
    BY <1>1, BegunIs DEF States
  <1>3. flash = Append(cache, e)
    BY DEF IInv, CacheOK, ValidateHeader, WriteData, MarkAdded
  <1>4. flash[Len(flash)] = e
    <2>1. Len(flash) = Len(cache) + 1
      BY <1>1, BegunIs
    <2> QED
      BY <1>2, <1>3, <2>1, AppendProperties
  <1>5. flash' = [flash EXCEPT ![Len(flash)] = f]
    <2>1. CASE ValidateHeader /\ e = Begun("start", FALSE) /\ f = Begun("header", FALSE)
      <3>1. [e EXCEPT !.state = "header"] = f
        BY <1>2, <2>1, EntryExcept DEF Begun, States
      <3>2. PICK g : g = [flash[Len(flash)] EXCEPT !.state = "header"]
        OBVIOUS
      <3>3. g = f
        BY <1>4, <3>1, <3>2
      <3>4. flash' = [flash EXCEPT ![Len(flash)] = g]
        BY <2>1, <3>2 DEF ValidateHeader
      <3> QED
        BY <3>3, <3>4
    <2>2. CASE WriteData /\ e = Begun("header", FALSE) /\ f = Begun("header", TRUE)
      <3>1. [e EXCEPT !.whole = TRUE] = f
        BY <1>2, <2>2, EntryExcept DEF Begun, States
      <3>2. PICK g : g = [flash[Len(flash)] EXCEPT !.whole = TRUE]
        OBVIOUS
      <3>3. g = f
        BY <1>4, <3>1, <3>2
      <3>4. flash' = [flash EXCEPT ![Len(flash)] = g]
        BY <2>2, <3>2 DEF WriteData
      <3> QED
        BY <3>3, <3>4
    <2>3. CASE MarkAdded /\ e = Begun("header", TRUE) /\ f = Begun("added", TRUE)
      <3>1. [e EXCEPT !.state = "added"] = f
        BY <1>2, <2>3, EntryExcept DEF Begun, States
      <3>2. PICK g : g = [flash[Len(flash)] EXCEPT !.state = "added"]
        OBVIOUS
      <3>3. g = f
        BY <1>4, <3>1, <3>2
      <3>4. flash' = [flash EXCEPT ![Len(flash)] = g]
        BY <2>3, <3>2 DEF MarkAdded
      <3> QED
        BY <3>3, <3>4
    <2> QED
      BY <2>1, <2>2, <2>3
  <1>6. PICK t : t = flash'
    OBVIOUS
  <1>7. t = [Append(cache, e) EXCEPT ![Len(Append(cache, e))] = f]
    BY <1>3, <1>5, <1>6
  <1>8. t = Append(cache, f)
    BY <1>2, <1>7, LastSet
  <1> QED
    BY <1>1, <1>2, <1>3, <1>6, <1>8

LEMMA WriteStepInv ==
    ASSUME IInv, ValidateHeader \/ WriteData
    PROVE  IInv'
  <1>1. /\ pc \in {"u_valid", "u_data"}
        /\ UNCHANGED <<torn, pending, cache, last, runtime, reclaimed, call, curr, inDel, status>>
    BY DEF ValidateHeader, WriteData, Goto, mode
  <1>2. TypeOK /\ CallOK /\ RoomOK /\ FoundOK
    BY DEF IInv
  <1>3. PICK e, f : \/ ValidateHeader /\ e = Begun("start", FALSE) /\ f = Begun("header", FALSE)
                    \/ WriteData /\ e = Begun("header", FALSE) /\ f = Begun("header", TRUE)
    OBVIOUS
  <1>4. flash = Append(cache, e) /\ flash' = Append(cache, f) /\ e \in Entry /\ f \in Entry
    BY <1>3, ProgressIs
  <1>5. PICK w \in BOOLEAN : f = Begun("header", w)
    BY <1>3
  <1>6. /\ call # None /\ call.data \in Data
        /\ cache \in Seq(Entry) /\ Len(cache) \in Nat
        /\ curr \in 0 .. Len(flash) /\ inDel \in 0 .. Len(flash)
        /\ Len(flash) = Len(cache) + 1
        /\ last + Size[call.data] <= Space
        /\ flash' \in Seq(Entry) /\ Len(flash') = Len(cache) + 1
        /\ Used(flash') = last + Size[call.data]
    BY <1>1, <1>4, <1>5, BegunIs DEF States
  <1>7. TypeOK'
    BY <1>1, <1>2, <1>3, <1>6 DEF TypeOK, Labels, Goto, ValidateHeader, WriteData
  <1>8. CallOK'
    BY <1>1, <1>2, <1>3, <1>6 DEF CallOK, RestPC, NewPC, WritePC, Goto, ValidateHeader, WriteData
  <1>9. CacheOK'
    BY <1>1, <1>3, <1>4 DEF CacheOK, Begun, WritePC, Goto, ValidateHeader, WriteData
  <1>10. RoomOK'
    BY <1>1, <1>2, <1>3, <1>6 DEF RoomOK, WritePC, Goto, ValidateHeader, WriteData
  <1>11. FoundOK'
    <2>1. \A i \in 1 .. Len(cache) : flash[i] = cache[i] /\ flash'[i] = cache[i]
      BY <1>4, <1>6, AppendProperties
    <2>2. flash'[Len(cache) + 1].state = "header"
      BY <1>4, <1>5, <1>6, AppendProperties DEF Begun
    <2>3. \A i \in {curr, inDel} : i # 0 => i \in 1 .. Len(cache) \/ i = Len(cache) + 1
      BY <1>6
    <2>4. \A i \in {curr, inDel} : i # 0 => flash[i].state # "start"
      BY <1>1, <1>2 DEF FoundOK
    <2>5. \A i \in {curr, inDel} : i # 0 => flash'[i].state # "start"
      BY <2>1, <2>2, <2>3, <2>4
    <2> QED
      BY <1>1, <2>5 DEF FoundOK
  <1> QED
    BY <1>7, <1>8, <1>9, <1>10, <1>11 DEF IInv

LEMMA MarkAddedInv ==
    ASSUME IInv, MarkAdded
    PROVE  IInv'
  <1>1. /\ pc = "u_added" /\ pc' \in {"done", "o_indel", "o_curr"}
        /\ last' = last + Size[call.data]
        /\ UNCHANGED <<torn, pending, runtime, reclaimed, call, curr, inDel, status>>
    BY DEF MarkAdded, Goto, mode
  <1>2. TypeOK /\ CallOK /\ RoomOK /\ FoundOK
    BY DEF IInv
  <1>3. PICK e, f : e = Begun("header", TRUE) /\ f = Begun("added", TRUE)
    OBVIOUS
  <1>4. flash = Append(cache, e) /\ flash' = Append(cache, f) /\ e \in Entry /\ f \in Entry
    BY <1>3, ProgressIs
  <1>5. f = Ended(call.name, call.data)
    BY <1>3 DEF Begun, Ended
  <1>6. cache' = flash'
    BY <1>4, <1>5 DEF MarkAdded
  <1>7. /\ call # None /\ call.data \in Data /\ Size[call.data] \in Nat
        /\ cache \in Seq(Entry) /\ Len(cache) \in Nat
        /\ curr \in 0 .. Len(flash) /\ inDel \in 0 .. Len(flash)
        /\ Len(flash) = Len(cache) + 1
        /\ last + Size[call.data] <= Space
        /\ flash' \in Seq(Entry) /\ Len(flash') = Len(cache) + 1
        /\ Used(flash') = last + Size[call.data]
    BY <1>1, <1>3, <1>4, BegunIs DEF States
  <1>8. TypeOK'
    BY <1>1, <1>2, <1>6, <1>7 DEF TypeOK, Labels
  <1>9. CallOK'
    BY <1>1, <1>2, <1>7 DEF CallOK, RestPC, NewPC, WritePC
  <1>10. CacheOK'
    BY <1>1, <1>6 DEF CacheOK, WritePC
  <1>11. RoomOK'
    BY <1>1, <1>2, <1>6, <1>7 DEF RoomOK, WritePC
  <1>12. FoundOK'
    <2>1. \A i \in 1 .. Len(cache) : flash[i] = cache[i] /\ flash'[i] = cache[i]
      BY <1>4, <1>7, AppendProperties
    <2>2. flash'[Len(cache) + 1].state = "added"
      BY <1>3, <1>4, <1>7, AppendProperties DEF Begun
    <2>3. \A i \in {curr, inDel} : i # 0 => i \in 1 .. Len(cache) \/ i = Len(cache) + 1
      BY <1>7
    <2>4. \A i \in {curr, inDel} : i # 0 => flash[i].state # "start"
      BY <1>1, <1>2 DEF FoundOK
    <2>5. \A i \in {curr, inDel} : i # 0 => flash'[i].state # "start"
      BY <2>1, <2>2, <2>3, <2>4
    <2> QED
      BY <1>1, <2>5 DEF FoundOK
  <1> QED
    BY <1>8, <1>9, <1>10, <1>11, <1>12 DEF IInv

LEMMA PowerInv ==
    ASSUME IInv, PowerFails
    PROVE  IInv'
  <1>1. /\ pc' = "off" /\ call' = None /\ curr' = 0 /\ inDel' = 0 /\ status' = "none"
        /\ cache' = <<>> /\ last' = 0 /\ runtime' = FALSE /\ reclaimed' = FALSE
        /\ flash' = flash /\ pending' = pending
    BY DEF PowerFails
  <1>2. /\ TypeOK /\ Used(flash) <= Space
        /\ pending # None => Used(pending) <= Space
    BY DEF IInv, RoomOK
  <1>3. torn' \in BOOLEAN
    <2>1. torn' = torn \/ torn' = (torn \/ pc = "u_header")
      BY DEF PowerFails
    <2> QED
      BY <1>2, <2>1 DEF TypeOK
  <1>4. <<>> \in Seq(Entry) /\ Len(flash) \in Nat
    BY <1>2, UsedEmpty, LenProperties DEF TypeOK
  <1>5. TypeOK'
    <2>1. {torn', runtime', reclaimed'} \subseteq BOOLEAN
      BY <1>1, <1>3
    <2>2. flash' \in Seq(Entry) /\ cache' \in Seq(Entry) /\ Len(flash') \in Nat
      BY <1>1, <1>2, <1>4 DEF TypeOK
    <2>3. last' \in Nat /\ curr' \in Nat /\ inDel' \in Nat
      BY <1>1
    <2>4. {curr', inDel'} \subseteq 0 .. Len(flash')
      BY <1>1, <2>2
    <2>5. pending' \in Seq(Entry) \cup {None}
      BY <1>1, <1>2 DEF TypeOK
    <2> QED
      BY <1>1, <2>1, <2>2, <2>3, <2>4, <2>5 DEF TypeOK, Labels
  <1>6. CallOK' /\ CacheOK' /\ FoundOK'
    BY <1>1 DEF CallOK, CacheOK, FoundOK, RestPC, NewPC, WritePC
  <1>7. RoomOK'
    BY <1>1, <1>2 DEF RoomOK, WritePC
  <1> QED
    BY <1>5, <1>6, <1>7 DEF IInv

LEMMA DeleteInv ==
    ASSUME IInv,
           \/ DeleteInDel("d_indel", "d_curr") \/ DeleteCurr("d_curr") \/ MarkOld
           \/ DeleteInDel("o_indel", "o_curr") \/ DeleteCurr("o_curr")
    PROVE  IInv'
  <1>1. CASE DeleteInDel("d_indel", "d_curr")
    BY <1>1, StateInv DEF DeleteInDel, mode
  <1>2. CASE DeleteCurr("d_curr")
    BY <1>2, StateInv DEF DeleteCurr, mode
  <1>3. CASE MarkOld
    BY <1>3, StateInv DEF MarkOld, mode
  <1>4. CASE DeleteInDel("o_indel", "o_curr")
    BY <1>4, StateInv DEF DeleteInDel, mode
  <1>5. CASE DeleteCurr("o_curr")
    BY <1>5, StateInv DEF DeleteCurr, mode
  <1> QED
    BY <1>1, <1>2, <1>3, <1>4, <1>5

LEMMA NextInv == IInv /\ [Next]_vars => IInv'
  <1> SUFFICES ASSUME IInv, [Next]_vars
               PROVE  IInv'
    OBVIOUS
  <1>1. CASE Step
    BY <1>1, BootInv, CheckFreeAreaInv, FtwSucceedsInv, DeleteNothingInv, FindInv, DeleteInv,
       CheckRoomInv, WriteHeaderInv, WriteStepInv, MarkAddedInv, ReturnSuccessInv DEF Step
  <1>2. CASE FtwFails
    BY <1>2, FtwFailsInv
  <1>3. CASE PowerFails
    BY <1>3, PowerInv
  <1>4. CASE \E n \in Name, d \in Data \cup {Absent} : CallSetVariable(n, d)
    BY <1>4, CallInv
  <1>5. CASE ReadyToBoot
    BY <1>5, ReadyToBootInv
  <1>6. CASE ExitBootServices
    BY <1>6, ExitInv
  <1>7. CASE UNCHANGED vars
    <2>1. /\ UNCHANGED <<flash, torn, pending, cache, last, runtime, reclaimed>>
          /\ UNCHANGED <<pc, call, curr, inDel, status>>
      BY <1>7 DEF vars
    <2>2. TypeOK' /\ CallOK'
      BY <2>1 DEF IInv, TypeOK, CallOK
    <2>3. CacheOK' /\ RoomOK' /\ FoundOK'
      BY <2>1 DEF IInv, CacheOK, RoomOK, FoundOK, Begun
    <2> QED
      BY <2>2, <2>3 DEF IInv
  <1> QED
    BY <1>1, <1>2, <1>3, <1>4, <1>5, <1>6, <1>7 DEF Next

\* The invariant holds in every state, whatever the faults.
THEOREM Invariance == Spec => []IInv
  BY InitInv, NextInv, PTL DEF Spec

\* The store, its copy, the call and the copies found keep their types.
THEOREM TypeCorrect == Spec => []TypeOK
  <1>1. IInv => TypeOK
    BY DEF IInv
  <1> QED
    BY <1>1, Invariance, PTL

\* Between two calls the memory copy is what the flash holds, however the last
\* call ended: a reclaim refused or failed restores it (Variable.c:1255).
THEOREM CopyIsFlash == Spec => []CacheIsFlash
  <1>1. IInv => CacheIsFlash
    BY DEF IInv, CacheOK, CacheIsFlash, WritePC
  <1> QED
    BY <1>1, Invariance, PTL

\* The next variable goes behind the last entry, into erased flash and inside
\* the store, after every interrupted or failed write.
THEOREM SpaceIsErased == Spec => []NextIsErased
  <1>1. IInv => NextIsErased
    BY DEF IInv, CacheOK, RoomOK, NextIsErased, WritePC
  <1> QED
    BY <1>1, Invariance, PTL

(***************************************************************************)
(* What a variable reads as.                                               *)
(***************************************************************************)
\* The copies a reader looks at.
Live(s) == {i \in DOMAIN s : s[i].state \in {"added", "moving"}}

\* They are complete; a variable has one ADDED copy at most, behind the others.
GoodStore(s) ==
    /\ \A i \in Live(s) : s[i].whole
    /\ \A i, j \in Live(s) : s[i].name = s[j].name /\ s[j].state = "added" => i <= j

OneMoving(s, n) == \A i, j \in Copies(s, n, "moving") : i = j

LEMMA LiveIs ==
    ASSUME NEW s \in Seq(Entry)
    PROVE  /\ Live(s) \in SUBSET (1 .. Len(s)) /\ Len(s) \in Nat /\ 0 \notin Live(s)
           /\ \A i \in Live(s) : s[i] \in Entry
           /\ \A n : /\ Copies(s, n, "added") = {i \in Live(s) : s[i].name = n /\ s[i].state = "added"}
                     /\ Copies(s, n, "moving") = {i \in Live(s) : s[i].name = n /\ s[i].state = "moving"}
  <1>1. Len(s) \in Nat /\ DOMAIN s = 1 .. Len(s)
    BY LenProperties
  <1>2. \A i \in 1 .. Len(s) : s[i] \in Entry
    BY ElementOfSeq
  <1>3. Live(s) \in SUBSET (1 .. Len(s)) /\ 0 \notin Live(s)
    BY <1>1 DEF Live
  <1>4. \A n : /\ Copies(s, n, "added") = {i \in Live(s) : s[i].name = n /\ s[i].state = "added"}
               /\ Copies(s, n, "moving") = {i \in Live(s) : s[i].name = n /\ s[i].state = "moving"}
    BY DEF Live, Copies
  <1> QED
    BY <1>1, <1>2, <1>3, <1>4

\* The ADDED copy.
LEMMA ValueAdded ==
    ASSUME NEW s \in Seq(Entry), GoodStore(s), NEW i \in Live(s), s[i].state = "added"
    PROVE  Value(s, s[i].name) = s[i].data
  <1>1. PICK n : n = s[i].name
    OBVIOUS
  <1>2. PICK c, d : c = Find(s, n).curr /\ d = Find(s, n).inDel
    OBVIOUS
  <1>3. i \in Copies(s, n, "added") /\ i \in 1 .. Len(s)
    BY <1>1, LiveIs
  <1>4. c \in Copies(s, n, "added") /\ c <= i
    BY <1>2, <1>3, FindIs
  <1>5. c \in Live(s) /\ s[c].name = n /\ s[c].state = "added" /\ c \in 1 .. Len(s)
    BY <1>4, LiveIs
  <1>6. i <= c
    BY <1>1, <1>5 DEF GoodStore
  <1>7. c = i /\ c # 0
    BY <1>3, <1>4, <1>5, <1>6
  <1>8. s[c].whole
    BY <1>5 DEF GoodStore
  <1> QED
    BY <1>1, <1>2, <1>7, <1>8 DEF Value

\* Without an ADDED copy, the last one in transition.
LEMMA ValueMoving ==
    ASSUME NEW s \in Seq(Entry), GoodStore(s), NEW i \in Live(s), s[i].state = "moving",
           \A j \in Live(s) : s[j].name = s[i].name => s[j].state = "moving" /\ j <= i
    PROVE  Value(s, s[i].name) = s[i].data
  <1>1. PICK n : n = s[i].name
    OBVIOUS
  <1>2. PICK c, d : c = Find(s, n).curr /\ d = Find(s, n).inDel
    OBVIOUS
  <1>3. i \in Copies(s, n, "moving") /\ i \in 1 .. Len(s) /\ Copies(s, n, "added") = {}
    BY <1>1, LiveIs
  <1>4. c # 0 /\ i <= c /\ c \in Copies(s, n, "added") \cup Copies(s, n, "moving")
    <2>1. /\ c # 0 => c \in Copies(s, n, "added") \cup Copies(s, n, "moving")
          /\ c = 0 => Copies(s, n, "moving") = {}
          /\ \A j \in Copies(s, n, "moving") : j <= c
      BY <1>2, <1>3, FindIs
    <2> QED
      BY <1>3, <2>1
  <1>5. c \in Live(s) /\ s[c].name = n /\ c \in 1 .. Len(s)
    BY <1>3, <1>4, LiveIs
  <1>6. c = i
    BY <1>1, <1>3, <1>4, <1>5
  <1>7. s[c].whole
    BY <1>5 DEF GoodStore
  <1> QED
    BY <1>1, <1>2, <1>4, <1>6, <1>7 DEF Value

LEMMA ValueNone ==
    ASSUME NEW s \in Seq(Entry), NEW n, \A i \in Live(s) : s[i].name # n
    PROVE  Value(s, n) = Absent
  <1>1. PICK c, d : c = Find(s, n).curr /\ d = Find(s, n).inDel
    OBVIOUS
  <1>2. Copies(s, n, "added") = {} /\ Copies(s, n, "moving") = {}
    BY LiveIs
  <1>3. c # 0 => c \in Copies(s, n, "added") \cup Copies(s, n, "moving")
    BY <1>1, FindIs
  <1> QED
    BY <1>1, <1>2, <1>3 DEF Value

\* What a variable reads as depends on its live copies only.
LEMMA ValueSame ==
    ASSUME NEW s \in Seq(Entry), NEW t \in Seq(Entry), NEW n,
           \A i : i \in Live(s) /\ s[i].name = n <=> i \in Live(t) /\ t[i].name = n,
           \A i \in Live(s) : s[i].name = n =>
               s[i].state = t[i].state /\ s[i].data = t[i].data /\ s[i].whole = t[i].whole
    PROVE  Value(s, n) = Value(t, n) /\ (OneMoving(s, n) => OneMoving(t, n))
  <1>1. Copies(s, n, "added") = Copies(t, n, "added")
    <2>1. \A i : i \in Copies(s, n, "added") <=> i \in Live(s) /\ s[i].name = n /\ s[i].state = "added"
      BY LiveIs
    <2>2. \A i : i \in Copies(t, n, "added") <=> i \in Live(t) /\ t[i].name = n /\ t[i].state = "added"
      BY LiveIs
    <2>3. \A i : i \in Copies(s, n, "added") <=> i \in Copies(t, n, "added")
      BY <2>1, <2>2
    <2> QED
      BY <2>3
  <1>2. Copies(s, n, "moving") = Copies(t, n, "moving")
    <2>1. \A i : i \in Copies(s, n, "moving") <=> i \in Live(s) /\ s[i].name = n /\ s[i].state = "moving"
      BY LiveIs
    <2>2. \A i : i \in Copies(t, n, "moving") <=> i \in Live(t) /\ t[i].name = n /\ t[i].state = "moving"
      BY LiveIs
    <2>3. \A i : i \in Copies(s, n, "moving") <=> i \in Copies(t, n, "moving")
      BY <2>1, <2>2
    <2> QED
      BY <2>3
  <1>3. Find(s, n) = Find(t, n)
    BY <1>1, <1>2 DEF Find
  <1>4. PICK c, d : c = Find(s, n).curr /\ d = Find(s, n).inDel
    OBVIOUS
  <1>5. c # 0 => c \in Copies(s, n, "added") \cup Copies(s, n, "moving")
    BY <1>4, FindIs
  <1>6. c # 0 => c \in Live(s) /\ s[c].name = n
    BY <1>5, LiveIs
  <1>7. c # 0 => s[c].data = t[c].data /\ s[c].whole = t[c].whole
    BY <1>6
  <1>8. Value(s, n) = Value(t, n)
    BY <1>3, <1>4, <1>7 DEF Value
  <1> QED
    BY <1>2, <1>8 DEF OneMoving

\* Fewer live copies, none of them newly ADDED.
LEMMA GoodFewer ==
    ASSUME NEW s, NEW t, GoodStore(s), Live(t) \subseteq Live(s),
           \A i \in Live(t) : /\ t[i].name = s[i].name /\ t[i].whole = s[i].whole
                              /\ t[i].state = "added" => s[i].state = "added"
    PROVE  GoodStore(t)
  BY DEF GoodStore

\* t is s with the entry e written behind its last one.
Appended(t, s, e) ==
    /\ t \in Seq(Entry) /\ Len(s) + 1 \notin Live(s)
    /\ t[Len(s) + 1] = e
    /\ \A i \in Live(s) : t[i] = s[i] /\ i < Len(s) + 1
    /\ e.state \in {"added", "moving"} => Live(t) = Live(s) \cup {Len(s) + 1}
    /\ e.state \notin {"added", "moving"} => Live(t) = Live(s)

\* An entry appended.
LEMMA AppendLive ==
    ASSUME NEW s \in Seq(Entry), NEW e \in Entry
    PROVE  Appended(Append(s, e), s, e)
  <1>1. PICK t : t = Append(s, e)
    OBVIOUS
  <1>2. /\ t \in Seq(Entry) /\ Len(t) = Len(s) + 1 /\ Len(s) \in Nat
        /\ DOMAIN t = 1 .. Len(s) + 1 /\ DOMAIN s = 1 .. Len(s)
        /\ \A i \in 1 .. Len(s) : t[i] = s[i]
        /\ t[Len(s) + 1] = e
    BY <1>1, AppendProperties, LenProperties
  <1>3. \A i \in 1 .. Len(s) + 1 : i \in 1 .. Len(s) \/ i = Len(s) + 1
    BY <1>2
  <1>4. Len(s) + 1 \notin 1 .. Len(s) /\ \A i \in 1 .. Len(s) : i < Len(s) + 1
    BY <1>2
  <1>5. \A i \in 1 .. Len(s) : i \in 1 .. Len(s) + 1
    BY <1>2
  <1>6. \A i : i \in Live(t) <=> i \in Live(s) \/ (i = Len(s) + 1 /\ e.state \in {"added", "moving"})
    BY <1>2, <1>3, <1>4, <1>5 DEF Live
  <1>7. \A i \in Live(s) : t[i] = s[i] /\ i < Len(s) + 1
    BY <1>2, <1>4 DEF Live
  <1>8. Len(s) + 1 \notin Live(s)
    BY <1>2, <1>4 DEF Live
  <1>9. e.state \in {"added", "moving"} => Live(t) = Live(s) \cup {Len(s) + 1}
    BY <1>6
  <1>10. e.state \notin {"added", "moving"} => Live(t) = Live(s)
    BY <1>6
  <1>11. Appended(t, s, e)
    BY <1>2, <1>7, <1>8, <1>9, <1>10 DEF Appended
  <1> QED
    BY <1>1, <1>11

\* An entry no reader looks at changes nothing.
LEMMA AppendDead ==
    ASSUME NEW s \in Seq(Entry), NEW e \in Entry, e.state \notin {"added", "moving"}
    PROVE  /\ Live(Append(s, e)) = Live(s)
           /\ GoodStore(s) <=> GoodStore(Append(s, e))
           /\ \A n : Value(Append(s, e), n) = Value(s, n)
           /\ \A n : OneMoving(Append(s, e), n) <=> OneMoving(s, n)
  <1>1. PICK t : t = Append(s, e)
    OBVIOUS
  <1>2. t \in Seq(Entry) /\ Live(t) = Live(s) /\ \A i \in Live(s) : t[i] = s[i]
    <2>1. Appended(t, s, e)
      BY <1>1, AppendLive
    <2> QED
      BY <2>1 DEF Appended
  <1>3. GoodStore(s) <=> GoodStore(t)
    BY <1>2 DEF GoodStore
  <1>4. ASSUME NEW n
        PROVE  Value(t, n) = Value(s, n) /\ (OneMoving(t, n) <=> OneMoving(s, n))
    <2>1. Value(s, n) = Value(t, n) /\ (OneMoving(s, n) => OneMoving(t, n))
      BY <1>2, ValueSame
    <2>2. OneMoving(t, n) => OneMoving(s, n)
      BY <1>2, ValueSame
    <2> QED
      BY <2>1, <2>2
  <1> QED
    BY <1>1, <1>2, <1>3, <1>4

\* The new copy of a variable that has no ADDED one is what it reads as.
LEMMA AppendAdded ==
    ASSUME NEW s \in Seq(Entry), GoodStore(s), NEW e \in Entry, e.state = "added", e.whole,
           \A i \in Live(s) : s[i].name = e.name => s[i].state # "added"
    PROVE  /\ GoodStore(Append(s, e))
           /\ Value(Append(s, e), e.name) = e.data
           /\ \A n : n # e.name => Value(Append(s, e), n) = Value(s, n)
           /\ \A n : OneMoving(s, n) => OneMoving(Append(s, e), n)
  <1>1. PICK t, m : t = Append(s, e) /\ m = Len(s) + 1
    OBVIOUS
  <1>2. /\ t \in Seq(Entry) /\ m \notin Live(s) /\ t[m] = e /\ Live(t) = Live(s) \cup {m}
        /\ \A i \in Live(s) : t[i] = s[i] /\ i < m
    <2>1. Appended(t, s, e)
      BY <1>1, AppendLive
    <2> QED
      BY <1>1, <2>1 DEF Appended
  <1>3. Live(t) \in SUBSET Nat
    BY <1>2, LiveIs
  <1>4. GoodStore(t)
    <2>1. \A i \in Live(t) : t[i].whole
      BY <1>2 DEF GoodStore
    <2>2. ASSUME NEW i \in Live(t), NEW j \in Live(t), t[i].name = t[j].name, t[j].state = "added"
          PROVE  i <= j
      <3>1. CASE i \in Live(s) /\ j \in Live(s)
        BY <1>2, <2>2, <3>1 DEF GoodStore
      <3>2. CASE j = m
        BY <1>2, <1>3, <3>2
      <3>3. CASE i = m /\ j \in Live(s)
        BY <1>2, <2>2, <3>3
      <3> QED
        BY <1>2, <3>1, <3>2, <3>3
    <2> QED
      BY <2>1, <2>2 DEF GoodStore
  <1>5. Value(t, e.name) = e.data
    <2>1. m \in Live(t) /\ t[m].state = "added"
      BY <1>2
    <2>2. Value(t, t[m].name) = t[m].data
      BY <1>2, <1>4, <2>1, ValueAdded
    <2> QED
      BY <1>2, <2>2
  <1>6. ASSUME NEW n, n # e.name
        PROVE  Value(t, n) = Value(s, n)
    BY <1>2, <1>6, ValueSame
  <1>7. ASSUME NEW n, OneMoving(s, n)
        PROVE  OneMoving(t, n)
    <2>1. \A i \in Copies(t, n, "moving") : i \in Live(t) /\ t[i].name = n /\ t[i].state = "moving"
      BY <1>2, LiveIs
    <2>2. \A i \in Copies(t, n, "moving") : i \in Copies(s, n, "moving")
      BY <1>2, <2>1, LiveIs
    <2> QED
      BY <1>7, <2>2 DEF OneMoving
  <1> QED
    BY <1>1, <1>4, <1>5, <1>6, <1>7

\* The State byte of a live copy programmed.
LEMMA StateLive ==
    ASSUME NEW s \in Seq(Entry), NEW t \in Seq(Entry), Len(t) = Len(s),
           NEW i \in Live(s), NEW st \in {"moving", "deleted"},
           \A j \in 1 .. Len(s) :
               /\ t[j].name = s[j].name
               /\ t[j].data = s[j].data
               /\ t[j].whole = s[j].whole
               /\ t[j].state = IF j = i THEN st ELSE s[j].state
    PROVE  /\ Live(t) = IF st = "moving" THEN Live(s) ELSE Live(s) \ {i}
           /\ \A j \in Live(s) : /\ t[j].name = s[j].name /\ t[j].data = s[j].data
                                 /\ t[j].state = IF j = i THEN st ELSE s[j].state
           /\ GoodStore(s) => GoodStore(t)
           /\ \A n : n # s[i].name => Value(t, n) = Value(s, n)
           /\ \A n : n # s[i].name \/ st = "deleted" => (OneMoving(s, n) => OneMoving(t, n))
  <1>1. DOMAIN t = 1 .. Len(s) /\ DOMAIN s = 1 .. Len(s)
    BY LenProperties
  <1>2. Live(t) = IF st = "moving" THEN Live(s) ELSE Live(s) \ {i}
    <2>1. \A j : j \in Live(t) <=> j \in 1 .. Len(s) /\ t[j].state \in {"added", "moving"}
      BY <1>1 DEF Live
    <2>2. \A j : j \in Live(s) <=> j \in 1 .. Len(s) /\ s[j].state \in {"added", "moving"}
      BY <1>1 DEF Live
    <2>3. \A j \in 1 .. Len(s) : t[j].state = IF j = i THEN st ELSE s[j].state
      OBVIOUS
    <2>4. CASE st = "moving"
      <3>1. \A j : j \in Live(t) <=> j \in Live(s)
        BY <2>1, <2>2, <2>3, <2>4
      <3> QED
        BY <2>4, <3>1
    <2>5. CASE st = "deleted"
      <3>1. \A j : j \in Live(t) <=> j \in Live(s) /\ j # i
        BY <2>1, <2>2, <2>3, <2>5
      <3> QED
        BY <2>5, <3>1
    <2> QED
      BY <2>4, <2>5
  <1>3. \A j \in Live(s) : /\ t[j].name = s[j].name /\ t[j].data = s[j].data /\ t[j].whole = s[j].whole
                           /\ t[j].state = IF j = i THEN st ELSE s[j].state
    BY <1>1 DEF Live
  <1>4. Live(t) \subseteq Live(s)
    BY <1>2
  <1>5. GoodStore(s) => GoodStore(t)
    BY <1>3, <1>4, GoodFewer
  <1>6. ASSUME NEW n, n # s[i].name
        PROVE  Value(t, n) = Value(s, n) /\ (OneMoving(s, n) => OneMoving(t, n))
    <2>1. \A j : j \in Live(s) /\ s[j].name = n <=> j \in Live(t) /\ t[j].name = n
      BY <1>2, <1>3, <1>6
    <2>2. \A j \in Live(s) : s[j].name = n =>
              s[j].state = t[j].state /\ s[j].data = t[j].data /\ s[j].whole = t[j].whole
      BY <1>3, <1>6
    <2> QED
      BY <2>1, <2>2, ValueSame
  <1>7. ASSUME NEW n, st = "deleted", OneMoving(s, n)
        PROVE  OneMoving(t, n)
    <2>1. \A j : j \in Copies(t, n, "moving") => j \in Live(t) /\ t[j].name = n /\ t[j].state = "moving"
      BY LiveIs
    <2>2. \A j : j \in Live(s) /\ s[j].name = n /\ s[j].state = "moving" => j \in Copies(s, n, "moving")
      BY LiveIs
    <2>3. \A j \in Copies(t, n, "moving") : j \in Copies(s, n, "moving")
      BY <1>2, <1>3, <1>7, <2>1, <2>2
    <2> QED
      BY <1>7, <2>3 DEF OneMoving
  <1> QED
    BY <1>2, <1>3, <1>5, <1>6, <1>7

(***************************************************************************)
(* What a reclaim keeps of a variable.                                     *)
(***************************************************************************)
\* Of each variable one copy is kept, and nothing is in transition any more.
LEMMA KeptGood ==
    ASSUME NEW s \in Seq(Entry), GoodStore(s), NEW c, NEW d
    PROVE  /\ GoodStore(Kept(s, c, d))
           /\ \A n : OneMoving(Kept(s, c, d), n)
           /\ \A k \in Live(Kept(s, c, d)) : Kept(s, c, d)[k].state = "added"
  <1>1. PICK o, t : o = Order(s, c, d) /\ t = Kept(s, c, d)
    OBVIOUS
  <1>2. /\ t \in Seq(Entry) /\ Len(t) = Len(o)
        /\ \A k \in 1 .. Len(t) : /\ o[k] \in 1 .. Len(s)
                                  /\ s[o[k]].state \in {"added", "moving"}
                                  /\ t[k].name = s[o[k]].name
                                  /\ t[k].whole = s[o[k]].whole
                                  /\ t[k].state = "added"
    BY <1>1, KeptIs
  <1>3. DOMAIN s = 1 .. Len(s) /\ DOMAIN t = 1 .. Len(t) /\ Live(t) \subseteq 1 .. Len(t) /\ Len(t) \in Nat
    BY <1>2, LenProperties DEF Live
  <1>4. \A k \in 1 .. Len(t) : o[k] \in Live(s) /\ o[k] \in Added(s, c) \cup Promoted(s, c, d)
    BY <1>1, <1>2, <1>3, OrderIs DEF Live
  <1>5. \A k, l \in 1 .. Len(t) : o[k] = o[l] => k = l
    BY <1>1, <1>2, OrderIs
  <1>6. ASSUME NEW i \in Added(s, c) \cup Promoted(s, c, d), NEW j \in Added(s, c) \cup Promoted(s, c, d),
               s[i].name = s[j].name
        PROVE  i = j
    <2>1. i \in 1 .. Len(s) /\ j \in 1 .. Len(s)
      BY <1>3 DEF Added, Promoted, Moving
    <2>2. CASE i \in Added(s, c) /\ j \in Added(s, c)
      <3>1. i \in Live(s) /\ j \in Live(s) /\ s[i].state = "added" /\ s[j].state = "added"
        BY <2>2 DEF Added, Live
      <3>2. i <= j /\ j <= i
        BY <1>6, <3>1 DEF GoodStore
      <3> QED
        BY <2>1, <3>2
    <2>3. \A k \in Promoted(s, c, d) : \A l \in Added(s, c) : s[k].name # s[l].name
      BY DEF Promoted
    <2>4. CASE i \in Promoted(s, c, d) /\ j \in Promoted(s, c, d)
      <3>1. \A k, l \in Promoted(s, c, d) : l < k => s[k].name # s[l].name
        BY DEF Promoted
      <3>2. ~(i < j) /\ ~(j < i)
        BY <1>6, <2>4, <3>1
      <3> QED
        BY <2>1, <3>2
    <2> QED
      BY <1>6, <2>2, <2>3, <2>4
  <1>7. \A k, l \in 1 .. Len(t) : t[k].name = t[l].name => k = l
    <2> SUFFICES ASSUME NEW k \in 1 .. Len(t), NEW l \in 1 .. Len(t), t[k].name = t[l].name
                 PROVE  k = l
      OBVIOUS
    <2>1. s[o[k]].name = s[o[l]].name
      BY <1>2
    <2>2. o[k] = o[l]
      BY <1>4, <1>6, <2>1
    <2> QED
      BY <1>5, <2>2
  <1>8. GoodStore(t)
    <2>1. \A k \in 1 .. Len(t) : t[k].whole
      BY <1>2, <1>4 DEF GoodStore
    <2>2. \A k, l \in 1 .. Len(t) : k = l => k <= l
      BY <1>3
    <2> QED
      BY <1>3, <1>7, <2>1, <2>2 DEF GoodStore
  <1>9. \A n : OneMoving(t, n)
    <2>1. \A n : \A i \in Copies(t, n, "moving") : i \in 1 .. Len(t) /\ t[i].state = "moving"
      BY <1>3 DEF Copies
    <2> QED
      BY <1>2, <2>1 DEF OneMoving
  <1> QED
    BY <1>1, <1>2, <1>3, <1>8, <1>9

\* A variable none of whose copies are dropped on purpose reads as before.
LEMMA KeptValue ==
    ASSUME NEW s \in Seq(Entry), GoodStore(s), NEW c, NEW d, NEW n, OneMoving(s, n),
           \A i \in Live(s) : s[i].name = n => i \notin {c, d}
    PROVE  Value(Kept(s, c, d), n) = Value(s, n)
  <1>1. PICK o, t : o = Order(s, c, d) /\ t = Kept(s, c, d)
    OBVIOUS
  <1>2. /\ t \in Seq(Entry) /\ Len(t) = Len(o)
        /\ \A k \in 1 .. Len(t) : /\ o[k] \in 1 .. Len(s)
                                  /\ s[o[k]].state \in {"added", "moving"}
                                  /\ t[k].name = s[o[k]].name
                                  /\ t[k].data = s[o[k]].data
                                  /\ t[k].state = "added"
    BY <1>1, KeptIs
  <1>3. DOMAIN s = 1 .. Len(s) /\ DOMAIN t = 1 .. Len(t) /\ Len(s) \in Nat
    BY <1>2, LenProperties
  <1>4. Live(t) = 1 .. Len(t) /\ GoodStore(t)
    BY <1>1, <1>2, <1>3, KeptGood DEF Live
  <1>5. ASSUME NEW i \in Added(s, c) \cup Promoted(s, c, d), s[i].name = n
        PROVE  Value(t, n) = s[i].data
    <2>1. PICK k \in 1 .. Len(t) : o[k] = i
      BY <1>1, <1>2, OrderIs
    <2>2. k \in Live(t) /\ t[k].name = n /\ t[k].data = s[i].data /\ t[k].state = "added"
      BY <1>2, <1>4, <1>5, <2>1
    <2>3. Value(t, t[k].name) = t[k].data
      BY <1>2, <1>4, <2>2, ValueAdded
    <2> QED
      BY <2>2, <2>3
  <1>6. CASE \E i \in Live(s) : s[i].name = n /\ s[i].state = "added"
    <2>1. PICK i \in Live(s) : s[i].name = n /\ s[i].state = "added"
      BY <1>6
    <2>2. Value(s, n) = s[i].data
      BY <2>1, ValueAdded
    <2>3. i \in Added(s, c)
      BY <2>1 DEF Added, Live
    <2> QED
      BY <1>1, <1>5, <2>1, <2>2, <2>3
  <1>7. CASE /\ \E i \in Live(s) : s[i].name = n
             /\ \A i \in Live(s) : s[i].name = n => s[i].state = "moving"
    <2>1. PICK i \in Live(s) : s[i].name = n /\ s[i].state = "moving"
      BY <1>7
    <2>2. \A j \in Live(s) : s[j].name = n => j = i
      <3>1. \A j \in Live(s) : s[j].name = n => j \in Copies(s, n, "moving")
        BY <1>7 DEF Live, Copies
      <3> QED
        BY <2>1, <3>1 DEF OneMoving
    <2>3. \A j \in Live(s) : s[j].name = s[i].name => s[j].state = "moving" /\ j <= i
      <3>1. i \in Nat
        BY <1>3, <2>1 DEF Live
      <3>2. i <= i
        BY <3>1
      <3> QED
        BY <2>1, <2>2, <3>2
    <2>4. Value(s, n) = s[i].data
      BY <2>1, <2>3, ValueMoving
    <2>5. i \in Moving(s, c, d)
      BY <2>1 DEF Moving, Live
    <2>6. \A j \in Added(s, c) : s[j].name # n
      BY <1>7 DEF Added, Live
    <2>7. \A j \in Moving(s, c, d) : j < i => s[j].name # n
      <3>1. \A j \in Moving(s, c, d) : j \in Live(s) /\ j \in 1 .. Len(s)
        BY <1>3 DEF Moving, Live
      <3>2. ~(i < i)
        BY <1>3, <2>1 DEF Live
      <3> QED
        BY <2>2, <3>1, <3>2
    <2>8. i \in Promoted(s, c, d)
      BY <2>1, <2>5, <2>6, <2>7 DEF Promoted
    <2> QED
      BY <1>1, <1>5, <2>1, <2>4, <2>8
  <1>8. CASE \A i \in Live(s) : s[i].name # n
    <2>1. Value(s, n) = Absent
      BY <1>8, ValueNone
    <2>2. \A k \in Live(t) : t[k].name # n
      BY <1>2, <1>3, <1>4, <1>8 DEF Live
    <2> QED
      BY <1>1, <1>2, <2>1, <2>2, ValueNone
  <1> QED
    BY <1>6, <1>7, <1>8 DEF Live

\* A variable all of whose copies are dropped is gone.
LEMMA KeptNone ==
    ASSUME NEW s \in Seq(Entry), NEW c, NEW d, NEW n,
           \A i \in Live(s) : s[i].name = n => i \in {c, d} /\ s[i].state = "moving"
    PROVE  \A k \in Live(Kept(s, c, d)) : Kept(s, c, d)[k].name # n
  <1>1. PICK o, t : o = Order(s, c, d) /\ t = Kept(s, c, d)
    OBVIOUS
  <1>2. /\ t \in Seq(Entry) /\ Len(t) = Len(o)
        /\ \A k \in 1 .. Len(t) : o[k] \in 1 .. Len(s) /\ t[k].name = s[o[k]].name
    BY <1>1, KeptIs
  <1>3. \A k \in 1 .. Len(t) : o[k] \in Added(s, c) \cup Promoted(s, c, d)
    BY <1>1, <1>2, OrderIs
  <1>4. \A i \in Added(s, c) \cup Promoted(s, c, d) : s[i].name # n
    BY DEF Added, Promoted, Moving, Live
  <1>5. Live(t) \subseteq 1 .. Len(t)
    BY <1>2, LiveIs
  <1> QED
    BY <1>1, <1>2, <1>3, <1>4, <1>5

\* Marking a copy that the reclaim drops anyway does not change what it keeps.
LEMMA KeptMoved ==
    ASSUME NEW s \in Seq(Entry), NEW t \in Seq(Entry), Len(t) = Len(s), NEW c, NEW d,
           \A j \in 1 .. Len(s) : j # c => t[j] = s[j],
           \A j \in 1 .. Len(s) : t[j].name = s[j].name
    PROVE  Kept(t, c, d) = Kept(s, c, d)
  <1>1. DOMAIN s = 1 .. Len(s) /\ DOMAIN t = 1 .. Len(s)
    BY LenProperties
  <1>2. Added(t, c) = Added(s, c)
    BY <1>1 DEF Added
  <1>3. PICK M : M = Moving(s, c, d)
    OBVIOUS
  <1>4. Moving(t, c, d) = M
    BY <1>1, <1>3 DEF Moving
  <1>5. Promoted(t, c, d) = Promoted(s, c, d)
    <2>1. M \subseteq 1 .. Len(s) /\ Added(s, c) \subseteq 1 .. Len(s)
      BY <1>1, <1>3 DEF Moving, Added
    <2>2. \A i \in M : /\ \A j \in Added(s, c) \cup {k \in M : k < i} : s[j].name # s[i].name
                       <=>
                       /\ \A j \in Added(s, c) \cup {k \in M : k < i} : t[j].name # t[i].name
      BY <2>1
    <2> QED
      BY <1>2, <1>3, <1>4, <2>2 DEF Promoted
  <1>6. PICK o : o = Order(s, c, d)
    OBVIOUS
  <1>7. Order(t, c, d) = o
    BY <1>2, <1>5, <1>6 DEF Order
  <1>8. o \in Seq(1 .. Len(s)) /\ \A k \in 1 .. Len(o) : o[k] \in Added(s, c) \cup Promoted(s, c, d)
    BY <1>1, <1>6, OrderIs
  <1>9. DOMAIN o = 1 .. Len(o) /\ \A k \in 1 .. Len(o) : o[k] \in 1 .. Len(s) /\ o[k] # c
    BY <1>8, LenProperties, ElementOfSeq DEF Added, Promoted, Moving
  <1>10. \A k \in DOMAIN o : t[o[k]] = s[o[k]]
    BY <1>9
  <1> QED
    BY <1>6, <1>7, <1>10 DEF Kept

(***************************************************************************)
(* The invariant of an update that leaves one old copy at most.            *)
(***************************************************************************)
OldPC == {"d_indel", "d_curr", "u_mark"}
RoomPC == {"u_room", "u_header", "r_ftw"} \cup WritePC

\* The live copies of the variable of the call are among those in S.
LiveIn(S) == \A i \in Live(flash) : flash[i].name = call.name => i \in S

\* Copy i is a live copy of the variable of the call, in this state.
IsCopy(i, st) == i \in Live(flash) /\ flash[i].name = call.name /\ flash[i].state = st

\* The copies found, from the search for them to the end of the call.
OldOK ==
    /\ pc = "d_indel" =>
           /\ LiveIn({curr, inDel}) /\ call.data = Absent
           /\ IsCopy(curr, "added") /\ IsCopy(inDel, "moving")
    /\ pc = "d_curr" =>
           /\ LiveIn({curr}) /\ call.data = Absent
           /\ \E st \in {"added", "moving"} : IsCopy(curr, st)
    /\ pc = "u_mark" =>
           /\ LiveIn({curr, inDel})
           /\ \E st \in {"added", "moving"} : IsCopy(curr, st)
           /\ inDel # 0 => IsCopy(inDel, "moving") /\ inDel < curr
    /\ pc \in RoomPC /\ call # None =>
           /\ LiveIn({curr, inDel})
           /\ curr # 0 => IsCopy(curr, "moving")
           /\ inDel # 0 => IsCopy(inDel, "moving") /\ inDel < curr
    /\ pc \in {"o_indel", "o_curr"} =>
           /\ \E j \in Live(flash) : IsCopy(j, "added")
           /\ IsCopy(curr, "moving")
           /\ \A i \in Live(flash) : IsCopy(i, "moving") => i = curr \/ (pc = "o_indel" /\ i = inDel)
    /\ pc = "o_indel" => IsCopy(inDel, "moving") /\ inDel # curr

\* Two copies of a variable are in transition only while it is updated.
MovingOK ==
    \A n \in Name : \/ OneMoving(flash, n)
                    \/ pc \in RoomPC \cup {"o_indel"} /\ call # None /\ n = call.name

\* A reclaim works on a copy of what the flash holds.
BufferOK ==
    pc = "r_ftw" =>
        /\ call = None => cache = Kept(flash, curr, inDel)
        /\ call # None => /\ call.data \in Data
                          /\ cache = Append(Kept(flash, curr, inDel), Ended(call.name, call.data))

\* An update with two old copies finds room for the new one.
PromiseOK ==
    /\ pc = "find" => FindsRoom(call.name, call.data)
    /\ pc \in {"u_mark", "u_room"} /\ inDel # 0 =>
           \/ last + Size[call.data] <= Limit
           \/ ~runtime /\ Used(Kept(flash, curr, inDel)) + Size[call.data] <= Space

\* A reclaim whose FtwWrite left it pending is a store as reclaims write it.
PendingOK ==
    pending # None => GoodStore(pending) /\ \A n \in Name : OneMoving(pending, n)

Once == "twice" \notin Faults
AInv == GoodStore(flash) /\ OldOK /\ MovingOK /\ BufferOK /\ PromiseOK

(***************************************************************************)
(* How a step appears to AtomicBlockWrite.                                 *)
(***************************************************************************)
DonePC == {"o_indel", "o_curr", "done"}

LEMMA StutterIs ==
    ASSUME \A n \in Name : Value(flash', n) = Value(flash, n),
           call' = call, status' = status,
           call # None => (pc \in DonePC <=> pc' \in DonePC)
    PROVE  UNCHANGED Atomic!vars
  <1>1. Content' = Content
    BY DEF Content
  <1>2. Called' = Called
    BY DEF Called, DonePC
  <1> QED
    BY <1>1, <1>2 DEF Atomic!vars

LEMMA CalledIs ==
    ASSUME TypeOK, call # None
    PROVE  /\ Called = [blk |-> call.name, data |-> call.data, done |-> pc \in DonePC]
           /\ Called # None /\ call.name \in Name /\ call.data \in Data \cup {Absent}
           /\ Called.blk = call.name /\ Called.data = call.data /\ Called.done = (pc \in DonePC)
  <1>1. Called = [blk |-> call.name, data |-> call.data, done |-> pc \in DonePC]
    BY DEF Called, DonePC
  <1>2. call.name \in Name /\ call.data \in Data \cup {Absent}
    BY DEF TypeOK
  <1>3. Called \in [blk : Name, data : Data \cup {Absent}, done : BOOLEAN]
    BY <1>1, <1>2
  <1> QED
    BY <1>1, <1>2, <1>3, VariableAssumption

LEMMA CommitIs ==
    ASSUME TypeOK, call # None, call' = call, status' = status,
           pc \notin DonePC, pc' \in DonePC,
           Value(flash', call.name) = call.data,
           \A n \in Name : n # call.name => Value(flash', n) = Value(flash, n)
    PROVE  Atomic!Commit
  <1>1. /\ Called # None /\ call.name \in Name
        /\ Called = [blk |-> call.name, data |-> call.data, done |-> FALSE]
    <2>1. Called = [blk |-> call.name, data |-> call.data, done |-> pc \in DonePC]
      BY CalledIs
    <2>2. (pc \in DonePC) = FALSE
      OBVIOUS
    <2>3. Called # None /\ call.name \in Name
      BY CalledIs
    <2> QED
      BY <2>1, <2>2, <2>3
  <1>2. Called' = [blk |-> call.name, data |-> call.data, done |-> TRUE]
    <2>1. Called' = [blk |-> call'.name, data |-> call'.data, done |-> pc' \in DonePC]
      BY DEF Called, DonePC
    <2>2. (pc' \in DonePC) = TRUE
      OBVIOUS
    <2> QED
      BY <2>1, <2>2
  <1>3. Called' = [Called EXCEPT !.done = TRUE]
    <2>1. call.data \in Data \cup {Absent}
      BY CalledIs
    <2>2. Called \in [blk : Name, data : Data \cup {Absent}, done : BOOLEAN]
      BY <1>1, <2>1
    <2>3. PICK r : r = [Called EXCEPT !.done = TRUE]
      OBVIOUS
    <2>4. /\ r \in [blk : Name, data : Data \cup {Absent}, done : BOOLEAN]
          /\ r.blk = Called.blk /\ r.data = Called.data /\ r.done = TRUE
      BY <2>2, <2>3
    <2>5. r = [blk |-> r.blk, data |-> r.data, done |-> r.done]
      BY <2>4
    <2>6. r.blk = call.name /\ r.data = call.data
      BY <1>1, <2>4
    <2> QED
      BY <1>2, <2>3, <2>4, <2>5, <2>6
  <1>4. Content' = [Content EXCEPT ![call.name] = call.data]
    BY <1>1 DEF Content
  <1>5. Called.blk = call.name /\ Called.data = call.data /\ ~Called.done
    BY <1>1
  <1> QED
    BY <1>1, <1>3, <1>4, <1>5 DEF Atomic!Commit

LEMMA ReturnIs ==
    ASSUME TypeOK, call # None, call' = None,
           status' = "failed" \/ (status' = "written" /\ pc \in DonePC),
           \A n \in Name : Value(flash', n) = Value(flash, n)
    PROVE  Atomic!Return
  <1>1. Called # None /\ Called.done = (pc \in DonePC)
    BY CalledIs
  <1>2. Called' = None
    BY DEF Called
  <1>3. Content' = Content
    BY DEF Content
  <1>4. status' = "failed" \/ (status' = "written" /\ Called.done)
    BY <1>1
  <1> QED
    BY <1>1, <1>2, <1>3, <1>4 DEF Atomic!Return

\* Steps after which no call is on its way.
LEMMA QuietIs ==
    ASSUME GoodStore(flash'), \A n \in Name : OneMoving(flash', n),
           pc' \in {"off", "b_check", "idle", "done"}
    PROVE  AInv'
  <1>1. OldOK' /\ MovingOK'
    BY DEF OldOK, MovingOK, RoomPC, WritePC
  <1>2. BufferOK' /\ PromiseOK'
    BY DEF BufferOK, PromiseOK
  <1> QED
    BY <1>1, <1>2 DEF AInv

\* At rest no variable has two copies in transition.
LEMMA RestMoving ==
    ASSUME AInv, call = None \/ pc \notin RoomPC \cup {"o_indel"}
    PROVE  GoodStore(flash) /\ \A n \in Name : OneMoving(flash, n)
  BY DEF AInv, MovingOK

(***************************************************************************)
(* Every step keeps the invariant and is a step of AtomicBlockWrite or     *)
(* none.                                                                   *)
(***************************************************************************)
\* A boot changes no variable, unless it restarts the write of a reclaim.
LEMMA BootRefines ==
    ASSUME IInv, AInv, PendingOK, Boot
    PROVE  AInv' /\ (UNCHANGED Atomic!vars \/ (pc = "off" /\ pending # None))
  <1>1. /\ pc = "off" /\ pc' = "b_check" /\ flash' = Restarted /\ call = None
        /\ call' = call /\ status' = status
    BY DEF Boot, Goto, IInv, CallOK, RestPC
  <1>2. GoodStore(flash') /\ \A n \in Name : OneMoving(flash', n)
    BY <1>1, RestMoving DEF PendingOK, Restarted
  <1>3. AInv'
    BY <1>1, <1>2, QuietIs
  <1>4. CASE pending = None
    BY <1>1, <1>3, <1>4, StutterIs DEF Restarted
  <1>5. CASE pending # None
    BY <1>1, <1>3, <1>5
  <1> QED
    BY <1>4, <1>5

\* Steps that write no flash and make no call.
LEMMA RestRefines ==
    ASSUME IInv, AInv, CheckFreeArea \/ ReadyToBoot \/ ExitBootServices
    PROVE  AInv' /\ UNCHANGED Atomic!vars
  <1>1. /\ pc \in {"off", "b_check", "idle"} /\ flash' = flash
        /\ TypeOK /\ Used(flash) <= Space /\ call = None
    BY DEF IInv, RoomOK, CallOK, RestPC, CheckFreeArea, ReadyToBoot, ExitBootServices
  <1>2. GoodStore(flash') /\ \A n \in Name : OneMoving(flash', n)
    BY <1>1, RestMoving
  <1>3. \/ call' = None /\ status' = status /\ pc' \in {"b_check", "idle"}
        \/ call' = None /\ status' = status /\ pc' = "r_ftw"
           /\ cache' = Kept(flash, curr, inDel) /\ curr' = curr /\ inDel' = inDel
    <2>2. CASE CheckFreeArea \/ ReadyToBoot
      <3>1. CASE StartReclaim(<<>>)
        BY <1>1, <3>1, TidyIs DEF Goto
      <3>2. CASE Return("none")
        BY <1>1, <3>2 DEF Return
      <3>3. CASE pc = "idle" /\ UNCHANGED <<cache, pc, call, track, status>>
        BY <1>1, <3>3
      <3> QED
        BY <2>2, <3>1, <3>2, <3>3 DEF CheckFreeArea, ReadyToBoot
    <2>3. CASE ExitBootServices
      BY <1>1, <2>3 DEF ExitBootServices
    <2> QED
      BY <2>2, <2>3
  <1>4. AInv'
    <2>1. CASE pc' \in {"b_check", "idle"}
      BY <1>2, <2>1, QuietIs
    <2>2. CASE call' = None /\ pc' = "r_ftw" /\ cache' = Kept(flash, curr, inDel)
               /\ curr' = curr /\ inDel' = inDel
      <3>1. OldOK' /\ MovingOK'
        BY <1>2, <2>2 DEF OldOK, MovingOK
      <3>2. BufferOK' /\ PromiseOK'
        BY <1>1, <2>2 DEF BufferOK, PromiseOK
      <3> QED
        BY <1>2, <3>1, <3>2 DEF AInv
    <2> QED
      BY <1>3, <2>1, <2>2
  <1>5. call' = call /\ status' = status
    BY <1>1, <1>3
  <1>6. UNCHANGED Atomic!vars
    BY <1>1, <1>5, StutterIs
  <1> QED
    BY <1>4, <1>6

\* A power failure changes no variable.
LEMMA PowerRefines ==
    ASSUME Once, IInv, AInv, PowerFails
    PROVE  AInv' /\ Atomic!PowerFails
  <1>1. /\ flash' = flash /\ pc' = "off" /\ call' = None /\ status' = "none" /\ ~Doubled(flash)
    BY DEF PowerFails, Interruptible, Once
  <1>2. GoodStore(flash') /\ \A n \in Name : OneMoving(flash', n)
    BY <1>1 DEF AInv, Doubled, OneMoving
  <1>3. AInv'
    BY <1>1, <1>2, QuietIs
  <1>4. Content' = Content
    BY <1>1 DEF Content
  <1>5. Called' = None
    BY <1>1 DEF Called
  <1> QED
    BY <1>1, <1>3, <1>4, <1>5 DEF Atomic!PowerFails

\* A reclaim that fails changes no variable, and its call fails.
LEMMA FtwFailsRefines ==
    ASSUME Once, IInv, AInv, FtwFails
    PROVE  AInv' /\ (Atomic!Return \/ UNCHANGED Atomic!vars)
  <1>1. /\ flash' = flash /\ pc' = "idle" /\ call' = None /\ ~Doubled(flash)
        /\ status' = IF call = None THEN status ELSE "failed"
    BY DEF FtwFails, Return, Interruptible, Once
  <1>2. GoodStore(flash') /\ \A n \in Name : OneMoving(flash', n)
    BY <1>1 DEF AInv, Doubled, OneMoving
  <1>3. AInv'
    BY <1>1, <1>2, QuietIs
  <1>4. CASE call = None
    BY <1>1, <1>3, <1>4, StutterIs
  <1>5. CASE call # None
    BY <1>1, <1>3, <1>5, ReturnIs DEF IInv
  <1> QED
    BY <1>4, <1>5

\* A reclaim that succeeds puts the new variable in place, and no other changes.
LEMMA FtwSucceedsRefines ==
    ASSUME IInv, AInv, FtwSucceeds
    PROVE  AInv' /\ (Atomic!Commit \/ UNCHANGED Atomic!vars)
  <1>1. pc = "r_ftw" /\ flash' = cache /\ flash \in Seq(Entry) /\ GoodStore(flash) /\ TypeOK
    BY DEF FtwSucceeds, IInv, TypeOK, AInv
  <1>2. PICK t : t = Kept(flash, curr, inDel)
    OBVIOUS
  <1>3. /\ t \in Seq(Entry) /\ GoodStore(t) /\ \A n : OneMoving(t, n)
        /\ \A k \in Live(t) : t[k].state = "added"
    BY <1>1, <1>2, KeptIs, KeptGood
  <1>4. CASE call = None
    <2>1. /\ flash' = t /\ curr = 0 /\ inDel = 0
          /\ call' = None /\ pc' = "idle" /\ status' = status
      BY <1>1, <1>2, <1>4 DEF AInv, BufferOK, IInv, CallOK, FtwSucceeds, Return
    <2>2. \A n \in Name : OneMoving(flash, n)
      BY <1>4, RestMoving
    <2>3. \A n \in Name : Value(t, n) = Value(flash, n)
      <3>1. 0 \notin Live(flash)
        BY <1>1, LiveIs
      <3> QED
        BY <1>1, <1>2, <2>1, <2>2, <3>1, KeptValue
    <2>4. AInv'
      BY <1>3, <2>1, QuietIs
    <2>5. UNCHANGED Atomic!vars
      BY <1>4, <2>1, <2>3, StutterIs
    <2> QED
      BY <2>4, <2>5
  <1>5. CASE call # None
    <2>1. PICK e \in Entry : e = Ended(call.name, call.data)
      BY <1>1, <1>5, CalledIs DEF AInv, BufferOK, Ended, Entry, States
    <2>2. e.name = call.name /\ e.data = call.data /\ e.state = "added" /\ e.whole
      BY <2>1 DEF Ended
    <2>3. flash' = Append(t, e) /\ call' = call /\ pc' = "done" /\ status' = status
      BY <1>1, <1>2, <1>5, <2>1 DEF AInv, BufferOK, FtwSucceeds, Goto
    <2>4. \A i \in Live(flash) : flash[i].name = call.name =>
              i \in {curr, inDel} /\ flash[i].state = "moving"
      <3>1. 0 \notin Live(flash)
        BY <1>1, LiveIs
      <3> QED
        BY <1>1, <1>5, <3>1 DEF AInv, OldOK, LiveIn, IsCopy, RoomPC
    <2>5. \A k \in Live(t) : t[k].name # call.name
      BY <1>1, <1>2, <2>4, KeptNone
    <2>6. ASSUME NEW n \in Name, n # call.name
          PROVE  Value(t, n) = Value(flash, n)
      <3>1. OneMoving(flash, n)
        BY <2>6 DEF AInv, MovingOK
      <3>2. \A i \in Live(flash) : flash[i].name = n => i \notin {curr, inDel}
        <4>1. 0 \notin Live(flash)
          BY <1>1, LiveIs
        <4> QED
          BY <1>1, <1>5, <2>6, <4>1 DEF AInv, OldOK, IsCopy, RoomPC
      <3> QED
        BY <1>1, <1>2, <3>1, <3>2, KeptValue
    <2>7. /\ GoodStore(Append(t, e))
          /\ Value(Append(t, e), e.name) = e.data
          /\ \A n : n # e.name => Value(Append(t, e), n) = Value(t, n)
          /\ \A n : OneMoving(t, n) => OneMoving(Append(t, e), n)
      BY <1>3, <2>2, <2>5, AppendAdded
    <2>8. AInv'
      BY <1>3, <2>3, <2>7, QuietIs
    <2>9. /\ Value(flash', call.name) = call.data
          /\ \A n \in Name : n # call.name => Value(flash', n) = Value(flash, n)
      BY <2>2, <2>3, <2>6, <2>7
    <2>10. Atomic!Commit
      BY <1>1, <1>5, <2>3, <2>9, CommitIs DEF DonePC
    <2> QED
      BY <2>8, <2>10
  <1> QED
    BY <1>4, <1>5

LEMMA CallRefines ==
    ASSUME IInv, AInv, NEW n \in Name, NEW d \in Data \cup {Absent}, CallSetVariable(n, d)
    PROVE  AInv' /\ Atomic!Begin(n, d)
  <1>1. /\ pc = "idle" /\ pc' = "find" /\ call' = [name |-> n, data |-> d] /\ status' = "none"
        /\ UNCHANGED <<flash, pending, cache, last, runtime>> /\ FindsRoom(n, d)
        /\ call = None
    BY DEF CallSetVariable, mode, IInv, CallOK, RestPC
  <1>2. GoodStore(flash') /\ \A m \in Name : OneMoving(flash', m)
    BY <1>1, RestMoving
  <1>3. PromiseOK'
    <2>1. call'.name = n /\ call'.data = d
      BY <1>1
    <2>2. FindsRoom(call.name, call.data)'
      BY <1>1, <2>1 DEF FindsRoom, Limit
    <2> QED
      BY <1>1, <2>2 DEF PromiseOK
  <1>4. OldOK' /\ MovingOK' /\ BufferOK'
    BY <1>1, <1>2 DEF OldOK, MovingOK, BufferOK, RoomPC, WritePC
  <1>5. AInv'
    BY <1>2, <1>3, <1>4 DEF AInv
  <1>6. Content' = Content
    BY <1>1 DEF Content
  <1>7. Called = None /\ Called' = [blk |-> n, data |-> d, done |-> FALSE]
    <2>1. call'.name = n /\ call'.data = d /\ call' # None
      BY <1>1, VariableAssumption
    <2>2. Called' = [blk |-> n, data |-> d, done |-> pc' \in {"o_indel", "o_curr", "done"}]
      BY <2>1 DEF Called
    <2>3. (pc' \in {"o_indel", "o_curr", "done"}) = FALSE
      BY <1>1
    <2>4. Called = None
      BY <1>1 DEF Called
    <2> QED
      BY <2>2, <2>3, <2>4
  <1> QED
    BY <1>1, <1>5, <1>6, <1>7 DEF Atomic!Begin

\* What the search finds between two calls.
LEMMA FoundIs ==
    ASSUME IInv, AInv, FindVariable
    PROVE  /\ \A i \in Live(flash) : flash[i].name = call.name => i \in {curr', inDel'}
           /\ curr' # 0 => /\ curr' \in Live(flash) /\ flash[curr'].name = call.name
                           /\ flash[curr'].state \in {"added", "moving"}
                           /\ Value(flash, call.name) = flash[curr'].data
           /\ inDel' # 0 => /\ inDel' \in Live(flash) /\ flash[inDel'].name = call.name
                            /\ flash[inDel'].state = "moving"
                            /\ curr' # 0 /\ inDel' < curr' /\ flash[curr'].state = "added"
  <1>1. flash \in Seq(Entry) /\ GoodStore(flash) /\ pc = "find" /\ call.name \in Name
    BY CalledIs, FindGoes DEF IInv, TypeOK, AInv
  <1>2. PICK c, d, n : c = curr' /\ d = inDel' /\ n = call.name
    OBVIOUS
  <1>3. c = Find(flash, n).curr /\ d = Find(flash, n).inDel
    BY <1>2, FindGoes
  <1>4. OneMoving(flash, n)
    BY <1>1, <1>2, RestMoving DEF RoomPC, WritePC
  <1>5. PICK A, M : A = Copies(flash, n, "added") /\ M = Copies(flash, n, "moving")
    OBVIOUS
  <1>6. /\ c # 0 => c \in A \cup M
        /\ d # 0 => d \in M /\ c \in A /\ d < c
        /\ A # {} => /\ c \in A
                     /\ \A i \in M : i < c => d # 0 /\ i <= d
        /\ A = {} => /\ d = 0
                     /\ c = 0 => M = {}
    BY <1>1, <1>3, <1>5, FindIs
  <1>7. /\ \A i : i \in A <=> i \in Live(flash) /\ flash[i].name = n /\ flash[i].state = "added"
        /\ \A i : i \in M <=> i \in Live(flash) /\ flash[i].name = n /\ flash[i].state = "moving"
    BY <1>1, <1>5, LiveIs
  <1>8. \A i \in Live(flash) : i \in Nat /\ i # 0
    BY <1>1, LiveIs
  <1>9. \A i \in Live(flash) : flash[i].name = n => i \in A \cup M
    BY <1>7 DEF Live
  <1>10. \A i, j \in M : i = j
    BY <1>4, <1>5 DEF OneMoving
  <1>11. \A i \in Live(flash) : flash[i].name = n => i \in {c, d}
    <2> SUFFICES ASSUME NEW i \in Live(flash), flash[i].name = n
                 PROVE  i \in {c, d}
      OBVIOUS
    <2>1. i \in A \cup M
      BY <1>9
    <2>2. CASE A = {}
      <3>1. i \in M /\ c # 0 /\ c \in M
        BY <1>6, <2>1, <2>2
      <3> QED
        BY <1>10, <3>1
    <2>3. CASE A # {}
      <3>1. c \in A /\ c \in Live(flash) /\ flash[c].name = n /\ flash[c].state = "added"
        BY <1>6, <1>7, <2>3
      <3>2. i <= c
        BY <3>1 DEF AInv, GoodStore
      <3>3. CASE i \in A
        <4>1. flash[i].state = "added"
          BY <1>7, <3>3
        <4>2. c <= i
          BY <3>1, <4>1 DEF AInv, GoodStore
        <4>3. i = c
          BY <1>8, <3>1, <3>2, <4>2
        <4> QED
          BY <4>3
      <3>4. CASE i \in M
        <4>1. i # c
          BY <1>7, <3>1, <3>4
        <4>2. i < c
          BY <1>8, <3>1, <3>2, <4>1
        <4>3. d # 0 /\ d \in M
          BY <1>6, <2>3, <3>4, <4>2
        <4> QED
          BY <1>10, <3>4, <4>3
      <3> QED
        BY <2>1, <3>3, <3>4
    <2> QED
      BY <2>2, <2>3
  <1>12. c # 0 => c \in Live(flash) /\ flash[c].name = n /\ flash[c].state \in {"added", "moving"}
    BY <1>6, <1>7
  <1>13. d # 0 => /\ d \in Live(flash) /\ flash[d].name = n /\ flash[d].state = "moving"
                  /\ c \in Live(flash) /\ flash[c].state = "added" /\ d < c
    BY <1>6, <1>7
  <1>14. c # 0 => Value(flash, n) = flash[c].data
    <2> SUFFICES ASSUME c # 0
                 PROVE  Value(flash, n) = flash[c].data
      OBVIOUS
    <2>1. CASE flash[c].state = "added"
      BY <1>1, <1>12, <2>1, ValueAdded
    <2>2. CASE flash[c].state = "moving"
      <3>1. d = 0
        BY <1>13, <2>2
      <3>2. \A j \in Live(flash) : flash[j].name = flash[c].name => flash[j].state = "moving" /\ j <= c
        <4>1. \A j \in Live(flash) : flash[j].name = n => j = c
          BY <1>8, <1>11, <3>1
        <4>2. c <= c
          BY <1>8, <1>12
        <4> QED
          BY <1>12, <2>2, <4>1, <4>2
      <3>3. Value(flash, flash[c].name) = flash[c].data
        BY <1>1, <1>12, <2>2, <3>2, ValueMoving
      <3> QED
        BY <1>12, <3>3
    <2> QED
      BY <1>12, <2>1, <2>2
  <1>15. d # 0 => c # 0
    BY <1>8, <1>13
  <1> QED
    BY <1>2, <1>11, <1>12, <1>13, <1>14, <1>15

LEMMA FindRefines ==
    ASSUME Once, IInv, AInv, FindVariable
    PROVE  AInv' /\ (Atomic!Commit \/ UNCHANGED Atomic!vars)
  <1>1. /\ pc = "find" /\ call # None /\ cache = flash /\ TypeOK
        /\ call.data \in Data \cup {Absent} /\ call.name \in Name
        /\ UNCHANGED <<flash, torn, pending, cache, last, runtime, reclaimed, call, status>>
    BY CalledIs, FindGoes DEF IInv
  <1>2. PICK c, d : c = curr' /\ d = inDel'
    OBVIOUS
  <1>3. /\ c = Find(flash, call.name).curr /\ d = Find(flash, call.name).inDel
        /\ c # 0 \/ call.data # Absent
        /\ \/ pc' = "d_indel" /\ call.data = Absent /\ d # 0
           \/ pc' = "d_curr" /\ call.data = Absent /\ d = 0
           \/ pc' = "u_room" /\ call.data # Absent /\ c = 0
           \/ pc' = "done" /\ call.data # Absent /\ c # 0 /\ flash[c].data = call.data
           \/ pc' = "u_mark" /\ call.data # Absent /\ c # 0
    BY <1>2, FindGoes
  <1>4. /\ \A i \in Live(flash) : flash[i].name = call.name => i \in {c, d}
        /\ c # 0 => /\ c \in Live(flash) /\ flash[c].name = call.name
                    /\ flash[c].state \in {"added", "moving"}
                    /\ Value(flash, call.name) = flash[c].data
        /\ d # 0 => /\ d \in Live(flash) /\ flash[d].name = call.name /\ flash[d].state = "moving"
                    /\ c # 0 /\ d < c /\ flash[c].state = "added"
    BY <1>2, FoundIs
  <1>5. GoodStore(flash') /\ \A n \in Name : OneMoving(flash', n)
    BY <1>1, RestMoving DEF RoomPC, WritePC
  <1>6. 0 \notin Live(flash)
    BY <1>1, LiveIs DEF TypeOK
  <1>7. OldOK'
    BY <1>1, <1>2, <1>3, <1>4, <1>6 DEF OldOK, LiveIn, IsCopy, RoomPC, WritePC
  <1>8. MovingOK' /\ BufferOK'
    BY <1>3, <1>5 DEF MovingOK, BufferOK
  <1>9. PromiseOK'
    <2>1. d # 0 /\ call.data # Absent =>
              \/ last + Size[call.data] <= Limit
              \/ ~runtime /\ Used(Kept(flash, c, d)) + Size[call.data] <= Space
      BY <1>1, <1>3 DEF AInv, PromiseOK, FindsRoom, Once
    <2>2. Limit' = Limit
      BY <1>1 DEF Limit
    <2> QED
      BY <1>1, <1>2, <1>3, <2>1, <2>2 DEF PromiseOK
  <1>10. AInv'
    BY <1>5, <1>7, <1>8, <1>9 DEF AInv
  <1>11. CASE pc' = "done"
    <2>1. Value(flash', call.name) = call.data
      BY <1>1, <1>3, <1>4, <1>11
    <2>2. Atomic!Commit
      BY <1>1, <1>11, <2>1, CommitIs DEF DonePC
    <2> QED
      BY <1>10, <2>2
  <1>12. CASE pc' # "done"
    <2>1. UNCHANGED Atomic!vars
      BY <1>1, <1>3, <1>12, StutterIs DEF DonePC
    <2> QED
      BY <1>10, <2>1
  <1> QED
    BY <1>11, <1>12

LEMMA DeleteNothingRefines ==
    ASSUME IInv, AInv, DeleteNothing
    PROVE  AInv' /\ Atomic!Return
  <1>1. /\ pc = "find" /\ flash' = flash /\ pc' = "idle" /\ call' = None
        /\ call # None /\ TypeOK
    BY DEF DeleteNothing, Return, IInv, CallOK, RestPC
  <1>2. status' = "failed"
    BY <1>1 DEF DeleteNothing, Return
  <1>3. GoodStore(flash') /\ \A n \in Name : OneMoving(flash', n)
    BY <1>1, RestMoving DEF RoomPC, WritePC
  <1> QED
    BY <1>1, <1>2, <1>3, QuietIs, ReturnIs

LEMMA ReturnSuccessRefines ==
    ASSUME IInv, AInv, ReturnSuccess
    PROVE  AInv' /\ Atomic!Return
  <1>1. /\ pc = "done" /\ flash' = flash /\ pc' = "idle" /\ call' = None
        /\ call # None /\ TypeOK
    BY DEF ReturnSuccess, Return, IInv, CallOK, RestPC
  <1>2. status' = "written"
    BY <1>1 DEF ReturnSuccess, Return
  <1>3. GoodStore(flash') /\ \A n \in Name : OneMoving(flash', n)
    BY <1>1, RestMoving DEF RoomPC, WritePC
  <1> QED
    BY <1>1, <1>2, <1>3, QuietIs, ReturnIs DEF DonePC

\* A State byte of a live copy programmed, as the readers of the store see it.
LEMMA StateStep ==
    ASSUME IInv, AInv, pc \in {"d_indel", "d_curr", "u_mark", "o_indel", "o_curr"},
           NEW i \in Live(flash), NEW st \in {"moving", "deleted"}, SetState(i, st)
    PROVE  /\ flash' \in Seq(Entry) /\ Len(flash') = Len(flash)
           /\ \A j \in 1 .. Len(flash) : flash'[j].name = flash[j].name /\ (j # i => flash'[j] = flash[j])
           /\ Live(flash') = IF st = "moving" THEN Live(flash) ELSE Live(flash) \ {i}
           /\ \A j \in Live(flash) : /\ flash'[j].name = flash[j].name /\ flash'[j].data = flash[j].data
                                     /\ flash'[j].state = IF j = i THEN st ELSE flash[j].state
           /\ GoodStore(flash')
           /\ \A n : n # flash[i].name => Value(flash', n) = Value(flash, n)
           /\ \A n : n # flash[i].name \/ st = "deleted" =>
                         (OneMoving(flash, n) => OneMoving(flash', n))
  <1>1. PICK s, t : s = flash /\ t = flash'
    OBVIOUS
  <1>2. s \in Seq(Entry) /\ cache = flash /\ TypeOK
    BY <1>1 DEF IInv, CacheOK, TypeOK, WritePC
  <1>3. i \in 1 .. Len(s) /\ i \in Live(s) /\ i \in 0 .. Len(flash) /\ flash[i].state # "start"
    BY <1>1, <1>2, LiveIs DEF Live
  <1>4. /\ t \in Seq(Entry) /\ Len(t) = Len(s)
        /\ \A j \in 1 .. Len(s) :
               /\ t[j].name = s[j].name
               /\ t[j].data = s[j].data
               /\ t[j].whole = s[j].whole
               /\ t[j].state = IF j = i THEN st ELSE s[j].state
               /\ j # i => t[j] = s[j]
    BY <1>1, <1>2, <1>3, StateSet DEF States
  <1>5. GoodStore(s)
    BY <1>1 DEF AInv
  <1>6. /\ Live(t) = IF st = "moving" THEN Live(s) ELSE Live(s) \ {i}
        /\ \A j \in Live(s) : /\ t[j].name = s[j].name /\ t[j].data = s[j].data
                              /\ t[j].state = IF j = i THEN st ELSE s[j].state
        /\ GoodStore(t)
        /\ \A n : n # s[i].name => Value(t, n) = Value(s, n)
        /\ \A n : n # s[i].name \/ st = "deleted" => (OneMoving(s, n) => OneMoving(t, n))
    <2>1. \A j \in 1 .. Len(s) :
              /\ t[j].name = s[j].name
              /\ t[j].data = s[j].data
              /\ t[j].whole = s[j].whole
              /\ t[j].state = IF j = i THEN st ELSE s[j].state
      BY <1>4
    <2>2. s \in Seq(Entry) /\ t \in Seq(Entry) /\ Len(t) = Len(s) /\ i \in Live(s)
      BY <1>2, <1>3, <1>4
    <2> QED
      BY <1>5, <2>1, <2>2, StateLive
  <1> QED
    BY <1>1, <1>4, <1>6

\* Deleting: the copy in transition goes first, and nothing can be read of it.
LEMMA DeleteInDelRefines ==
    ASSUME IInv, AInv, DeleteInDel("d_indel", "d_curr")
    PROVE  AInv' /\ UNCHANGED Atomic!vars
  <1>1. /\ pc = "d_indel" /\ pc' = "d_curr" /\ SetState(inDel, "deleted")
        /\ UNCHANGED <<call, curr, inDel, status>>
    BY DEF DeleteInDel, Goto
  <1>2. /\ LiveIn({curr, inDel}) /\ call.data = Absent
        /\ IsCopy(curr, "added") /\ IsCopy(inDel, "moving")
    BY <1>1 DEF AInv, OldOK
  <1>3. /\ flash' \in Seq(Entry) /\ Live(flash') = Live(flash) \ {inDel} /\ GoodStore(flash')
        /\ \A j \in Live(flash) : /\ flash'[j].name = flash[j].name /\ flash'[j].data = flash[j].data
                                  /\ flash'[j].state = IF j = inDel THEN "deleted" ELSE flash[j].state
        /\ \A n : n # call.name => Value(flash', n) = Value(flash, n)
        /\ \A n : OneMoving(flash, n) => OneMoving(flash', n)
    BY <1>1, <1>2, StateStep DEF IsCopy
  <1>4. curr # inDel /\ curr \in Live(flash') /\ flash'[curr].name = call.name
        /\ flash'[curr].state = "added" /\ flash'[curr].data = flash[curr].data
    BY <1>2, <1>3 DEF IsCopy
  <1>5. OldOK'
    <2>1. \A i \in Live(flash') : flash'[i].name = call.name => i = curr
      BY <1>2, <1>3 DEF LiveIn
    <2> QED
      BY <1>1, <1>2, <1>4, <2>1 DEF OldOK, LiveIn, IsCopy, RoomPC, WritePC
  <1>6. MovingOK'
    BY <1>1, <1>3, RestMoving DEF MovingOK, RoomPC, WritePC
  <1>7. AInv'
    BY <1>1, <1>3, <1>5, <1>6 DEF AInv, BufferOK, PromiseOK
  <1>8. Value(flash, call.name) = flash[curr].data
    <2>1. flash \in Seq(Entry) /\ GoodStore(flash)
      BY DEF IInv, TypeOK, AInv
    <2>2. curr \in Live(flash) /\ flash[curr].name = call.name /\ flash[curr].state = "added"
      BY <1>2 DEF IsCopy
    <2>3. Value(flash, flash[curr].name) = flash[curr].data
      BY <2>1, <2>2, ValueAdded
    <2> QED
      BY <2>2, <2>3
  <1>9. Value(flash', call.name) = flash[curr].data
    <2>1. PICK t : t = flash'
      OBVIOUS
    <2>2. Value(t, t[curr].name) = t[curr].data
      BY <1>3, <1>4, <2>1, ValueAdded
    <2> QED
      BY <1>4, <2>1, <2>2
  <1>10. \A n \in Name : Value(flash', n) = Value(flash, n)
    BY <1>3, <1>8, <1>9
  <1>11. UNCHANGED Atomic!vars
    BY <1>1, <1>10, StutterIs DEF DonePC
  <1> QED
    BY <1>7, <1>11

\* With its last copy the variable is gone.
LEMMA DeleteCurrRefines ==
    ASSUME IInv, AInv, DeleteCurr("d_curr")
    PROVE  AInv' /\ Atomic!Commit
  <1>1. /\ pc = "d_curr" /\ pc' = "done" /\ SetState(curr, "deleted") /\ call # None /\ TypeOK
        /\ UNCHANGED <<call, curr, inDel, status>>
    BY DEF DeleteCurr, Goto, IInv, CallOK, RestPC
  <1>2. /\ LiveIn({curr}) /\ call.data = Absent
        /\ curr \in Live(flash) /\ flash[curr].name = call.name
    BY <1>1 DEF AInv, OldOK, IsCopy
  <1>3. /\ flash' \in Seq(Entry) /\ Live(flash') = Live(flash) \ {curr} /\ GoodStore(flash')
        /\ \A j \in Live(flash) : flash'[j].name = flash[j].name
        /\ \A n : n # call.name => Value(flash', n) = Value(flash, n)
        /\ \A n : OneMoving(flash, n) => OneMoving(flash', n)
    BY <1>1, <1>2, StateStep
  <1>4. \A n \in Name : OneMoving(flash', n)
    BY <1>1, <1>3, RestMoving DEF RoomPC, WritePC
  <1>5. \A i \in Live(flash') : flash'[i].name # call.name
    BY <1>2, <1>3 DEF LiveIn
  <1>6. Value(flash', call.name) = call.data
    BY <1>2, <1>3, <1>5, ValueNone
  <1>7. Atomic!Commit
    BY <1>1, <1>3, <1>6, CommitIs DEF DonePC
  <1> QED
    BY <1>1, <1>3, <1>4, <1>7, QuietIs

\* The old copy marked: it is still the one that is read.
LEMMA MarkOldRefines ==
    ASSUME IInv, AInv, MarkOld
    PROVE  AInv' /\ UNCHANGED Atomic!vars
  <1>1. /\ pc = "u_mark" /\ pc' = "u_room" /\ SetState(curr, "moving") /\ TypeOK /\ call # None
        /\ UNCHANGED <<call, curr, inDel, status, last, runtime>>
    BY DEF MarkOld, Goto, mode, IInv, CallOK, RestPC
  <1>2. /\ LiveIn({curr, inDel})
        /\ curr \in Live(flash) /\ flash[curr].name = call.name
        /\ flash[curr].state \in {"added", "moving"}
        /\ inDel # 0 => IsCopy(inDel, "moving") /\ inDel < curr
    BY <1>1 DEF AInv, OldOK, IsCopy
  <1>3. /\ flash' \in Seq(Entry) /\ Live(flash') = Live(flash) /\ GoodStore(flash')
        /\ Len(flash') = Len(flash)
        /\ \A j \in 1 .. Len(flash) : flash'[j].name = flash[j].name /\ (j # curr => flash'[j] = flash[j])
        /\ \A j \in Live(flash) : /\ flash'[j].name = flash[j].name /\ flash'[j].data = flash[j].data
                                  /\ flash'[j].state = IF j = curr THEN "moving" ELSE flash[j].state
        /\ \A n : n # call.name => Value(flash', n) = Value(flash, n)
        /\ \A n : n # call.name => (OneMoving(flash, n) => OneMoving(flash', n))
    BY <1>1, <1>2, StateStep
  <1>4. flash \in Seq(Entry) /\ GoodStore(flash) /\ \A i \in Live(flash) : i \in Nat /\ i # 0
    <2>1. flash \in Seq(Entry)
      BY <1>1 DEF TypeOK
    <2> QED
      BY <2>1, LiveIs DEF AInv
  <1>5. OldOK'
    <2>1. LiveIn({curr, inDel})'
      BY <1>1, <1>2, <1>3 DEF LiveIn
    <2>2. IsCopy(curr, "moving")'
      BY <1>1, <1>2, <1>3 DEF IsCopy
    <2>3. inDel # 0 => IsCopy(inDel, "moving")' /\ inDel < curr
      BY <1>1, <1>2, <1>3, <1>4 DEF IsCopy
    <2> QED
      BY <1>1, <2>1, <2>2, <2>3 DEF OldOK
  <1>6. MovingOK'
    <2>1. \A n \in Name : n # call.name => OneMoving(flash', n)
      BY <1>1, <1>3, RestMoving DEF RoomPC, WritePC
    <2> QED
      BY <1>1, <2>1 DEF MovingOK, RoomPC
  <1>7. PromiseOK'
    <2>1. PICK s, t, c, d : s = flash /\ t = flash' /\ c = curr /\ d = inDel
      OBVIOUS
    <2>2. Kept(t, c, d) = Kept(s, c, d)
      BY <1>3, <1>4, <2>1, KeptMoved
    <2>3. Limit' = Limit
      BY <1>1 DEF Limit
    <2> QED
      BY <1>1, <2>1, <2>2, <2>3 DEF AInv, PromiseOK
  <1>8. AInv'
    BY <1>1, <1>3, <1>5, <1>6, <1>7 DEF AInv, BufferOK
  <1>9. \A j \in Live(flash) : flash[j].name = call.name => j <= curr
    <2>1. curr <= curr
      BY <1>2, <1>4
    <2>2. inDel \in Live(flash) => inDel <= curr
      BY <1>2, <1>4
    <2> QED
      BY <1>2, <2>1, <2>2 DEF LiveIn
  <1>10. Value(flash, call.name) = flash[curr].data
    <2>1. CASE flash[curr].state = "added"
      <3>1. Value(flash, flash[curr].name) = flash[curr].data
        BY <1>2, <1>4, <2>1, ValueAdded
      <3> QED
        BY <1>2, <3>1
    <2>2. CASE flash[curr].state = "moving"
      <3>1. \A j \in Live(flash) : flash[j].name = flash[curr].name => flash[j].state = "moving" /\ j <= curr
        BY <1>2, <1>4, <1>9, <2>2 DEF LiveIn, IsCopy
      <3>2. Value(flash, flash[curr].name) = flash[curr].data
        BY <1>2, <1>4, <2>2, <3>1, ValueMoving
      <3> QED
        BY <1>2, <3>2
    <2> QED
      BY <1>2, <2>1, <2>2
  <1>11. Value(flash', call.name) = flash[curr].data
    <2>1. PICK t : t = flash'
      OBVIOUS
    <2>2. t \in Seq(Entry) /\ GoodStore(t) /\ curr \in Live(t) /\ t[curr].state = "moving"
          /\ t[curr].name = call.name /\ t[curr].data = flash[curr].data
      BY <1>2, <1>3, <2>1
    <2>3. \A j \in Live(t) : t[j].name = t[curr].name => t[j].state = "moving" /\ j <= curr
      BY <1>2, <1>3, <1>4, <1>9, <2>1, <2>2 DEF LiveIn, IsCopy
    <2>4. Value(t, t[curr].name) = t[curr].data
      BY <2>2, <2>3, ValueMoving
    <2> QED
      BY <2>1, <2>2, <2>4
  <1>12. UNCHANGED Atomic!vars
    BY <1>1, <1>3, <1>10, <1>11, StutterIs DEF DonePC
  <1> QED
    BY <1>8, <1>12

\* The old copies deleted behind the new one, which stays the one that is read.
LEMMA OldDeletedRefines ==
    ASSUME IInv, AInv, DeleteInDel("o_indel", "o_curr") \/ DeleteCurr("o_curr")
    PROVE  AInv' /\ UNCHANGED Atomic!vars
  <1>1. PICK i : /\ i \in {curr, inDel} /\ SetState(i, "deleted")
                 /\ UNCHANGED <<call, curr, inDel, status>>
                 /\ \/ pc = "o_indel" /\ pc' = "o_curr" /\ i = inDel
                    \/ pc = "o_curr" /\ pc' = "done" /\ i = curr
    BY DEF DeleteInDel, DeleteCurr, Goto
  <1>2. /\ IsCopy(i, "moving") /\ IsCopy(curr, "moving") /\ (pc = "o_indel" => inDel # curr)
        /\ \A k \in Live(flash) : IsCopy(k, "moving") => k = curr \/ (pc = "o_indel" /\ k = inDel)
    BY <1>1 DEF AInv, OldOK
  <1>3. PICK j \in Live(flash) : IsCopy(j, "added")
    BY <1>1 DEF AInv, OldOK
  <1>4. /\ flash' \in Seq(Entry) /\ Live(flash') = Live(flash) \ {i} /\ GoodStore(flash')
        /\ \A k \in Live(flash) : /\ flash'[k].name = flash[k].name /\ flash'[k].data = flash[k].data
                                  /\ flash'[k].state = IF k = i THEN "deleted" ELSE flash[k].state
        /\ \A n : n # call.name => Value(flash', n) = Value(flash, n)
        /\ \A n : OneMoving(flash, n) => OneMoving(flash', n)
    BY <1>1, <1>2, StateStep DEF IsCopy
  <1>5. j # i /\ j \in Live(flash') /\ flash'[j].name = call.name /\ flash'[j].state = "added"
        /\ flash'[j].data = flash[j].data /\ flash[j].name = call.name /\ flash[j].state = "added"
    BY <1>2, <1>3, <1>4 DEF IsCopy
  <1>6. \A n \in Name : Value(flash', n) = Value(flash, n)
    <2>1. flash \in Seq(Entry) /\ GoodStore(flash)
      BY DEF IInv, TypeOK, AInv
    <2>2. Value(flash, flash[j].name) = flash[j].data
      BY <1>5, <2>1, ValueAdded
    <2>3. PICK t : t = flash'
      OBVIOUS
    <2>4. Value(t, t[j].name) = t[j].data
      BY <1>4, <1>5, <2>3, ValueAdded
    <2> QED
      BY <1>4, <1>5, <2>2, <2>3, <2>4
  <1>7. UNCHANGED Atomic!vars
    BY <1>1, <1>6, StutterIs DEF DonePC
  <1>8. CASE pc = "o_indel"
    <2>1. pc' = "o_curr" /\ i = inDel /\ i # curr
      BY <1>1, <1>2, <1>8
    <2>2. curr \in Live(flash') /\ flash'[curr].name = call.name /\ flash'[curr].state = "moving"
      BY <1>2, <1>4, <2>1 DEF IsCopy
    <2>3. \A k \in Live(flash') : flash'[k].name = call.name /\ flash'[k].state = "moving" => k = curr
      BY <1>2, <1>4, <2>1 DEF IsCopy
    <2>4. OldOK'
      BY <1>1, <1>5, <2>1, <2>2, <2>3 DEF OldOK, IsCopy, RoomPC, WritePC
    <2>5. OneMoving(flash', call.name)
      <3>1. \A k \in Copies(flash', call.name, "moving") : k = curr
        BY <2>3 DEF Live, Copies
      <3> QED
        BY <3>1 DEF OneMoving
    <2>6. MovingOK'
      BY <1>4, <1>8, <2>5 DEF AInv, MovingOK, RoomPC, WritePC
    <2>7. AInv'
      BY <1>4, <2>1, <2>4, <2>6 DEF AInv, BufferOK, PromiseOK
    <2> QED
      BY <1>7, <2>7
  <1>9. CASE pc = "o_curr"
    <2>1. \A n \in Name : OneMoving(flash', n)
      BY <1>4, <1>9, RestMoving DEF RoomPC, WritePC
    <2> QED
      BY <1>1, <1>4, <1>7, <1>9, <2>1, QuietIs
  <1> QED
    BY <1>1, <1>8, <1>9

\* Room is made by a reclaim; a call refused leaves one old copy at most.
LEMMA CheckRoomRefines ==
    ASSUME Once, IInv, AInv, CheckRoom
    PROVE  AInv' /\ (Atomic!Return \/ UNCHANGED Atomic!vars)
  <1>1. /\ pc = "u_room" /\ flash' = flash /\ TypeOK
        /\ call # None /\ call.data \in Data /\ call.name \in Name
    BY DEF CheckRoom, IInv, TypeOK, CallOK, RestPC, NewPC
  <1>2. /\ LiveIn({curr, inDel}) /\ GoodStore(flash)
        /\ curr # 0 => IsCopy(curr, "moving")
        /\ inDel # 0 => IsCopy(inDel, "moving") /\ inDel < curr
        /\ \A n \in Name : n # call.name => OneMoving(flash, n)
    BY <1>1 DEF AInv, OldOK, MovingOK, RoomPC
  <1>3. PICK t : t = Kept(flash, curr, inDel)
    OBVIOUS
  <1>4. flash \in Seq(Entry) /\ t \in Seq(Entry)
    BY <1>1, <1>3, KeptIs DEF TypeOK
  <1>5. Used(t) \in Nat /\ Size[call.data] \in Nat /\ Space \in Nat
    <2>1. Size[call.data] \in 1 .. MaxSize /\ MaxSize \in Nat /\ Space \in Nat
      BY <1>1, VariableAssumption
    <2> QED
      BY <1>4, <2>1, UsedIs
  <1>6. inDel # 0 => last + Size[call.data] <= Limit \/ (~runtime /\ Used(t) + Size[call.data] <= Space)
    BY <1>1, <1>3 DEF AInv, PromiseOK
  <1>7. ASSUME UNCHANGED <<call, curr, inDel, status>>, pc' \in {"u_header", "r_ftw"}, BufferOK'
        PROVE  AInv' /\ UNCHANGED Atomic!vars
    <2>1. OldOK' /\ MovingOK' /\ PromiseOK'
      BY <1>1, <1>2, <1>7 DEF OldOK, MovingOK, PromiseOK, LiveIn, IsCopy, RoomPC, WritePC
    <2>2. AInv'
      BY <1>1, <1>2, <1>7, <2>1 DEF AInv
    <2> QED
      BY <1>1, <1>7, <2>2, StutterIs DEF DonePC
  <1>8. ASSUME Return("failed"), inDel = 0
        PROVE  AInv' /\ Atomic!Return
    <2>1. pc' = "idle" /\ call' = None /\ status' = "failed"
      BY <1>1, <1>8 DEF Return
    <2>2. \A i \in Copies(flash, call.name, "moving") : i = curr
      <3>1. \A i \in Copies(flash, call.name, "moving") : i \in Live(flash) /\ flash[i].name = call.name
        BY <1>4, LiveIs
      <3> QED
        BY <1>2, <1>4, <1>8, <3>1, LiveIs DEF LiveIn
    <2>3. \A n \in Name : OneMoving(flash', n)
      BY <1>1, <1>2, <2>2 DEF OneMoving
    <2> QED
      BY <1>1, <1>2, <2>1, <2>3, QuietIs, ReturnIs
  <1>9. CASE last + Size[call.data] <= Limit
    BY <1>1, <1>7, <1>9 DEF CheckRoom, Goto, BufferOK
  <1>10. CASE ~(last + Size[call.data] <= Limit) /\ runtime
    BY <1>6, <1>8, <1>10 DEF CheckRoom
  <1>11. CASE ~(last + Size[call.data] <= Limit) /\ ~runtime
    <2>0. PICK e \in Entry : e = Ended(call.name, call.data)
      BY <1>1 DEF Ended, Entry, States
    <2>1. e.state = "added" /\ e = Ended(call.name, call.data) /\ e.data = call.data
      BY <2>0 DEF Ended
    <2>2. StartReclaim(<<e>>)
      BY <1>11, <2>1 DEF CheckRoom
    <2>3. CASE Return("failed") /\ Used(Kept(flash, curr, inDel)) + Size[e.data] > Space
      <3>1. Used(t) + Size[call.data] > Space
        BY <1>3, <2>1, <2>3
      <3>2. ~(Used(t) + Size[call.data] <= Space)
        BY <1>5, <3>1
      <3> QED
        BY <1>6, <1>8, <1>11, <2>3, <3>2
    <2>4. CASE cache' = Kept(flash, curr, inDel) \o <<e>> /\ Goto("r_ftw")
      <3>1. t \o <<e>> = Append(t, e)
        BY <1>4, AppendIsConcat
      <3>2. cache' = Append(t, e)
        BY <1>3, <2>4, <3>1
      <3>3. pc' = "r_ftw" /\ UNCHANGED <<call, curr, inDel, status>>
        BY <2>4 DEF Goto
      <3>4. BufferOK'
        BY <1>1, <1>3, <2>1, <3>2, <3>3 DEF BufferOK
      <3> QED
        BY <1>7, <3>3, <3>4
    <2> QED
      BY <1>1, <2>1, <2>2, <2>3, <2>4, RoomMade
  <1> QED
    BY <1>9, <1>10, <1>11

\* An entry on its way to the ADDED state is nothing to any reader.
LEMMA WriteRefines ==
    ASSUME IInv, AInv, WriteHeader \/ ValidateHeader \/ WriteData
    PROVE  AInv' /\ UNCHANGED Atomic!vars
  <1>1. /\ pc \in {"u_header", "u_valid", "u_data"} /\ pc' \in WritePC
        /\ UNCHANGED <<call, curr, inDel, status>>
        /\ call # None /\ call.data \in Data /\ call.name \in Name
    <2>1. pc \in {"u_header", "u_valid", "u_data"} /\ pc' \in WritePC
      BY DEF WriteHeader, ValidateHeader, WriteData, Goto, WritePC
    <2>2. UNCHANGED <<call, curr, inDel, status>>
      BY DEF WriteHeader, ValidateHeader, WriteData, Goto
    <2> QED
      BY <2>1, <2>2 DEF IInv, TypeOK, CallOK, RestPC, NewPC, WritePC
  <1>2. PICK s, t : s = flash /\ t = flash'
    OBVIOUS
  <1>3. /\ Live(t) = Live(s) /\ (GoodStore(s) => GoodStore(t))
        /\ \A i \in Live(s) : t[i] = s[i]
        /\ \A n : Value(t, n) = Value(s, n)
        /\ \A n : OneMoving(s, n) => OneMoving(t, n)
    <2>1. CASE WriteHeader
      <3>1. PICK e \in Entry : e = Begun("start", FALSE) /\ t = Append(s, e)
        BY <1>1, <1>2, <2>1, HeaderIs
      <3>2. e.state \notin {"added", "moving"} /\ s \in Seq(Entry)
        BY <1>2, <3>1 DEF Begun, IInv, TypeOK
      <3>3. /\ Live(t) = Live(s) /\ (GoodStore(s) <=> GoodStore(t))
            /\ \A n : Value(t, n) = Value(s, n)
            /\ \A n : OneMoving(t, n) <=> OneMoving(s, n)
        BY <3>1, <3>2, AppendDead
      <3>4. \A i \in Live(s) : t[i] = s[i]
        <4>1. Appended(t, s, e)
          BY <3>1, <3>2, AppendLive
        <4> QED
          BY <4>1 DEF Appended
      <3> QED
        BY <3>3, <3>4
    <2>2. CASE ValidateHeader \/ WriteData
      <3>1. PICK e, f : \/ ValidateHeader /\ e = Begun("start", FALSE) /\ f = Begun("header", FALSE)
                        \/ WriteData /\ e = Begun("header", FALSE) /\ f = Begun("header", TRUE)
        BY <2>2
      <3>2. e \in Entry /\ f \in Entry /\ s = Append(cache, e) /\ t = Append(cache, f)
        BY <1>2, <3>1, ProgressIs
      <3>3. /\ cache \in Seq(Entry)
            /\ e.state \notin {"added", "moving"} /\ f.state \notin {"added", "moving"}
        BY <3>1 DEF Begun, IInv, TypeOK
      <3>4. /\ Live(s) = Live(cache) /\ (GoodStore(cache) <=> GoodStore(s))
            /\ \A n : Value(s, n) = Value(cache, n)
            /\ \A n : OneMoving(s, n) <=> OneMoving(cache, n)
        BY <3>2, <3>3, AppendDead
      <3>5. /\ Live(t) = Live(cache) /\ (GoodStore(cache) <=> GoodStore(t))
            /\ \A n : Value(t, n) = Value(cache, n)
            /\ \A n : OneMoving(t, n) <=> OneMoving(cache, n)
        BY <3>2, <3>3, AppendDead
      <3>6. \A i \in Live(cache) : s[i] = cache[i] /\ t[i] = cache[i]
        <4>1. Appended(s, cache, e) /\ Appended(t, cache, f)
          BY <3>2, <3>3, AppendLive
        <4> QED
          BY <4>1 DEF Appended
      <3> QED
        BY <3>4, <3>5, <3>6
    <2> QED
      BY <2>1, <2>2
  <1>4. OldOK'
    <2>1. /\ LiveIn({curr, inDel})
          /\ curr # 0 => IsCopy(curr, "moving")
          /\ inDel # 0 => IsCopy(inDel, "moving") /\ inDel < curr
      BY <1>1 DEF AInv, OldOK, RoomPC, WritePC
    <2>2. LiveIn({curr, inDel})'
      BY <1>1, <1>2, <1>3, <2>1 DEF LiveIn
    <2>3. \A i : IsCopy(i, "moving") => IsCopy(i, "moving")'
      BY <1>1, <1>2, <1>3 DEF IsCopy
    <2> QED
      BY <1>1, <2>1, <2>2, <2>3 DEF OldOK, WritePC
  <1>5. MovingOK'
    <2>1. \A n \in Name : n # call.name => OneMoving(flash', n)
      BY <1>1, <1>2, <1>3 DEF AInv, MovingOK
    <2> QED
      BY <1>1, <2>1 DEF MovingOK, RoomPC
  <1>6. AInv'
    BY <1>1, <1>2, <1>3, <1>4, <1>5 DEF AInv, BufferOK, PromiseOK, WritePC
  <1>7. UNCHANGED Atomic!vars
    BY <1>1, <1>2, <1>3, StutterIs DEF DonePC, WritePC
  <1> QED
    BY <1>6, <1>7

\* The ADDED state puts the new variable in place, in one step, next to the old
\* copies still in transition.
LEMMA MarkAddedRefines ==
    ASSUME IInv, AInv, MarkAdded
    PROVE  AInv' /\ Atomic!Commit
  <1>1. /\ pc = "u_added" /\ UNCHANGED <<call, curr, inDel, status>>
        /\ pc' = IF curr = 0 THEN "done" ELSE IF inDel # 0 THEN "o_indel" ELSE "o_curr"
        /\ TypeOK /\ curr \in Nat /\ inDel \in Nat
        /\ call # None /\ call.data \in Data /\ call.name \in Name
    <2>1. pc = "u_added" /\ TypeOK /\ CallOK
      BY DEF MarkAdded, IInv
    <2>2. call # None /\ call.data \in Data /\ call.name \in Name
      BY <2>1 DEF TypeOK, CallOK, RestPC, NewPC, WritePC
    <2> QED
      BY <2>1, <2>2 DEF MarkAdded, Goto, TypeOK
  <1>2. PICK s, e, f, m : /\ s = cache /\ e = Begun("header", TRUE) /\ f = Begun("added", TRUE)
                          /\ m = Len(s) + 1
    OBVIOUS
  <1>3. /\ s \in Seq(Entry) /\ e \in Entry /\ f \in Entry
        /\ flash = Append(s, e) /\ flash' = Append(s, f)
    BY <1>1, <1>2, ProgressIs DEF TypeOK
  <1>4. /\ e.state = "header"
        /\ f.state = "added" /\ f.whole /\ f.name = call.name /\ f.data = call.data
    BY <1>2 DEF Begun
  <1>5. PICK a, t : a = flash /\ t = flash'
    OBVIOUS
  <1>6. /\ Live(a) = Live(s) /\ \A i \in Live(s) : a[i] = s[i]
        /\ GoodStore(s) /\ \A n : Value(a, n) = Value(s, n)
        /\ \A n : OneMoving(a, n) => OneMoving(s, n)
    <2>1. \A i \in Live(s) : a[i] = s[i]
      <3>1. Appended(a, s, e)
        BY <1>3, <1>5, AppendLive
      <3> QED
        BY <3>1 DEF Appended
    <2>2. e.state \notin {"added", "moving"}
      BY <1>4
    <2>3. /\ Live(Append(s, e)) = Live(s) /\ (GoodStore(s) <=> GoodStore(Append(s, e)))
          /\ \A n : Value(Append(s, e), n) = Value(s, n)
          /\ \A n : OneMoving(Append(s, e), n) <=> OneMoving(s, n)
      BY <1>3, <2>2, AppendDead
    <2> QED
      BY <1>3, <1>5, <2>1, <2>3 DEF AInv
  <1>7. /\ \A i \in Live(s) : s[i].name = call.name => i \in {curr, inDel}
        /\ curr # 0 => curr \in Live(s) /\ s[curr].name = call.name /\ s[curr].state = "moving"
        /\ inDel # 0 => /\ inDel \in Live(s) /\ s[inDel].name = call.name /\ s[inDel].state = "moving"
                        /\ inDel < curr
        /\ \A n \in Name : n # call.name => OneMoving(s, n)
        /\ 0 \notin Live(s)
    <2>1. /\ LiveIn({curr, inDel})
          /\ curr # 0 => IsCopy(curr, "moving")
          /\ inDel # 0 => IsCopy(inDel, "moving") /\ inDel < curr
          /\ \A n \in Name : n # call.name => OneMoving(flash, n)
      BY <1>1 DEF AInv, OldOK, MovingOK, RoomPC, WritePC
    <2>2. /\ Live(flash) = Live(s) /\ \A i \in Live(s) : flash[i] = s[i]
          /\ \A n : OneMoving(flash, n) => OneMoving(s, n)
      BY <1>5, <1>6
    <2>3. 0 \notin Live(s)
      BY <1>3, LiveIs
    <2>4. \A i \in Live(s) : s[i].name = call.name => i \in {curr, inDel}
      BY <2>1, <2>2 DEF LiveIn
    <2>5. \A i : IsCopy(i, "moving") => i \in Live(s) /\ s[i].name = call.name /\ s[i].state = "moving"
      BY <2>2 DEF IsCopy
    <2> QED
      BY <2>1, <2>2, <2>3, <2>4, <2>5
  <1>8. \A i \in Live(s) : s[i].name = call.name => s[i].state = "moving"
    BY <1>7
  <1>9. /\ GoodStore(t) /\ Value(t, call.name) = call.data
        /\ \A n : n # call.name => Value(t, n) = Value(s, n)
        /\ \A n : OneMoving(s, n) => OneMoving(t, n)
    <2>1. \A i \in Live(s) : s[i].name = f.name => s[i].state # "added"
      BY <1>4, <1>8
    <2>2. /\ GoodStore(Append(s, f)) /\ Value(Append(s, f), f.name) = f.data
          /\ \A n : n # f.name => Value(Append(s, f), n) = Value(s, n)
          /\ \A n : OneMoving(s, n) => OneMoving(Append(s, f), n)
      BY <1>3, <1>4, <1>6, <2>1, AppendAdded
    <2> QED
      BY <1>3, <1>4, <1>5, <2>2
  <1>10. /\ Live(t) = Live(s) \cup {m} /\ \A i \in Live(s) : t[i] = s[i]
         /\ t[m] = f /\ m \notin Live(s) /\ t \in Seq(Entry)
    <2>1. t = Append(s, f) /\ f.state \in {"added", "moving"}
      BY <1>3, <1>4, <1>5
    <2>2. Appended(t, s, f)
      BY <1>3, <2>1, AppendLive
    <2> QED
      BY <1>2, <2>1, <2>2 DEF Appended
  <1>11. Atomic!Commit
    BY <1>1, <1>5, <1>6, <1>9, CommitIs DEF DonePC
  <1>12. \A i \in Live(t) : t[i].name = call.name /\ t[i].state = "moving" => i \in {curr, inDel}
    BY <1>4, <1>7, <1>10
  <1>13. OneMoving(t, call.name) \/ (curr # 0 /\ inDel # 0)
    <2>1. \A i \in Copies(t, call.name, "moving") :
              i \in Live(t) /\ t[i].name = call.name /\ t[i].state = "moving" /\ i # 0
      BY <1>10, LiveIs
    <2>2. \A i \in Copies(t, call.name, "moving") : i \in {curr, inDel} /\ i # 0
      BY <1>12, <2>1
    <2> QED
      BY <2>2 DEF OneMoving
  <1>14. \A n \in Name : n # call.name => OneMoving(t, n)
    BY <1>7, <1>9
  <1>15. AInv'
    <2>1. CASE curr = 0
      <3>1. inDel = 0
        BY <1>1, <1>7, <2>1
      <3>2. \A n \in Name : OneMoving(flash', n)
        BY <1>5, <1>13, <1>14, <2>1
      <3> QED
        BY <1>1, <1>5, <1>9, <2>1, <3>2, QuietIs
    <2>2. CASE curr # 0
      <3>1. /\ pc' \in {"o_indel", "o_curr"} /\ (pc' = "o_indel" <=> inDel # 0)
            /\ UNCHANGED <<call, curr, inDel>>
        BY <1>1, <2>2
      <3>2. IsCopy(m, "added")'
        BY <1>1, <1>4, <1>5, <1>10 DEF IsCopy
      <3>3. IsCopy(curr, "moving")' /\ (inDel # 0 => IsCopy(inDel, "moving")' /\ inDel # curr)
        <4>1. inDel # 0 => inDel # curr
          BY <1>1, <1>7
        <4> QED
          BY <1>1, <1>5, <1>7, <1>10, <2>2, <4>1 DEF IsCopy
      <3>4. \A i \in Live(flash') : IsCopy(i, "moving")' => i = curr \/ (inDel # 0 /\ i = inDel)
        <4>1. 0 \notin Live(t)
          BY <1>10, LiveIs
        <4> QED
          BY <1>1, <1>5, <1>12, <4>1 DEF IsCopy
      <3>5. OldOK'
        <4>1. \E j \in Live(flash') : IsCopy(j, "added")'
          BY <1>5, <1>10, <3>2
        <4> QED
          BY <3>1, <3>3, <3>4, <4>1 DEF OldOK, RoomPC, WritePC
      <3>6. MovingOK'
        BY <1>1, <1>5, <1>13, <1>14, <3>1 DEF MovingOK
      <3> QED
        BY <1>5, <1>9, <3>1, <3>5, <3>6 DEF AInv, BufferOK, PromiseOK
    <2> QED
      BY <2>1, <2>2
  <1> QED
    BY <1>11, <1>15

(***************************************************************************)
(* SetVariable is atomic.                                                  *)
(***************************************************************************)
LEMMA InitRefines == Init => AInv /\ Atomic!Init
  <1> SUFFICES ASSUME Init
               PROVE  AInv /\ Atomic!Init
    OBVIOUS
  <1>1. /\ flash = <<>> /\ pc = "off" /\ call = None /\ status = "none"
        /\ <<>> \in Seq(Entry) /\ Live(<<>>) = {}
    <2>1. PICK s : s = <<>>
      OBVIOUS
    <2>2. s \in Seq(Entry) /\ 1 .. Len(s) = {}
      BY <2>1, EmptySeq
    <2>3. Live(s) = {}
      BY <2>2, LiveIs
    <2> QED
      BY <2>1, <2>2, <2>3 DEF Init
  <1>2. GoodStore(flash) /\ \A n \in Name : OneMoving(flash, n) /\ Value(flash, n) = Absent
    <2>1. PICK s : s = flash
      OBVIOUS
    <2>2. s \in Seq(Entry) /\ Live(s) = {}
      BY <1>1, <2>1
    <2>3. \A n : Copies(s, n, "moving") = {} /\ Value(s, n) = Absent
      BY <2>2, LiveIs, ValueNone
    <2> QED
      BY <2>1, <2>2, <2>3 DEF GoodStore, OneMoving
  <1>3. AInv
    <2>1. OldOK /\ MovingOK
      BY <1>1, <1>2 DEF OldOK, MovingOK, RoomPC, WritePC
    <2>2. BufferOK /\ PromiseOK
      BY <1>1 DEF BufferOK, PromiseOK
    <2> QED
      BY <1>2, <2>1, <2>2 DEF AInv
  <1>4. Content \in [Name -> Data \cup {Absent}] /\ Called = None
    BY <1>1, <1>2 DEF Content, Called
  <1> QED
    BY <1>1, <1>3, <1>4 DEF Atomic!Init

\* The buffer of a reclaim is a good store.
LEMMA BufferGood ==
    ASSUME IInv, AInv, pc = "r_ftw"
    PROVE  GoodStore(cache) /\ \A n \in Name : OneMoving(cache, n)
  <1>1. flash \in Seq(Entry) /\ GoodStore(flash) /\ TypeOK
    BY DEF IInv, TypeOK, AInv
  <1>2. PICK t : t = Kept(flash, curr, inDel)
    OBVIOUS
  <1>3. /\ t \in Seq(Entry) /\ GoodStore(t) /\ \A n : OneMoving(t, n)
        /\ \A k \in Live(t) : t[k].state = "added"
    BY <1>1, <1>2, KeptIs, KeptGood
  <1>4. CASE call = None
    <2>1. cache = t
      BY <1>2, <1>4 DEF AInv, BufferOK
    <2> QED
      BY <1>3, <2>1
  <1>5. CASE call # None
    <2>1. PICK e \in Entry : e = Ended(call.name, call.data)
      BY <1>1, <1>5, CalledIs DEF AInv, BufferOK, Ended, Entry, States
    <2>2. e.name = call.name /\ e.data = call.data /\ e.state = "added" /\ e.whole
      BY <2>1 DEF Ended
    <2>3. cache = Append(t, e)
      BY <1>2, <1>5, <2>1 DEF AInv, BufferOK
    <2>4. \A i \in Live(flash) : flash[i].name = call.name =>
              i \in {curr, inDel} /\ flash[i].state = "moving"
      <3>1. 0 \notin Live(flash)
        BY <1>1, LiveIs
      <3> QED
        BY <1>1, <1>5, <3>1 DEF AInv, OldOK, LiveIn, IsCopy, RoomPC
    <2>5. \A k \in Live(t) : t[k].name # call.name
      BY <1>1, <1>2, <2>4, KeptNone
    <2>6. /\ GoodStore(Append(t, e))
          /\ \A n : OneMoving(t, n) => OneMoving(Append(t, e), n)
      BY <1>3, <2>2, <2>5, AppendAdded
    <2> QED
      BY <1>3, <2>3, <2>6
  <1> QED
    BY <1>4, <1>5

\* What is pending is what a reclaim left.
LEMMA PendingStays ==
    ASSUME IInv, AInv, PendingOK, [Next]_vars
    PROVE  PendingOK'
  <1>1. CASE pending' = pending
    BY <1>1 DEF PendingOK
  <1>2. CASE pending' = None
    BY <1>2 DEF PendingOK
  <1>3. CASE FtwFails
    <2>1. pc = "r_ftw" /\ pending' \in {pending, None, cache}
      BY <1>3 DEF FtwFails
    <2> QED
      BY <1>1, <1>2, <2>1, BufferGood DEF PendingOK
  <1>4. CASE Boot
    BY <1>2, <1>4 DEF Boot
  <1>5. CASE Step /\ ~Boot
    BY <1>1, <1>5 DEF Step, CheckFreeArea, FtwSucceeds, DeleteNothing, FindVariable, DeleteInDel,
       DeleteCurr, MarkOld, CheckRoom, WriteHeader, ValidateHeader, WriteData, MarkAdded,
       ReturnSuccess
  <1>6. CASE \/ PowerFails \/ ReadyToBoot \/ ExitBootServices \/ UNCHANGED vars
             \/ \E n \in Name, d \in Data \cup {Absent} : CallSetVariable(n, d)
    BY <1>1, <1>6 DEF PowerFails, ReadyToBoot, ExitBootServices, CallSetVariable, vars
  <1> QED
    BY <1>3, <1>4, <1>5, <1>6 DEF Next

LEMMA StepRefines ==
    ASSUME Once, IInv, AInv, PendingOK, [Next]_vars
    PROVE  /\ AInv' /\ PendingOK'
           /\ [Atomic!Next \/ (pc = "off" /\ pending # None)]_(Atomic!vars)
  <1>7. PendingOK'
    BY PendingStays
  <1>8. CASE Boot
    BY <1>7, <1>8, BootRefines
  <1> SUFFICES ASSUME ~Boot
               PROVE  AInv' /\ [Atomic!Next]_(Atomic!vars)
    BY <1>7, <1>8
  <1>1. CASE Step
    <2>1. CASE CheckFreeArea
      BY <2>1, RestRefines
    <2>2. CASE FtwSucceeds
      BY <2>2, FtwSucceedsRefines DEF Atomic!Next
    <2>3. CASE DeleteNothing \/ ReturnSuccess
      BY <2>3, DeleteNothingRefines, ReturnSuccessRefines DEF Atomic!Next
    <2>4. CASE FindVariable
      BY <2>4, FindRefines DEF Atomic!Next
    <2>5. CASE DeleteInDel("d_indel", "d_curr")
      BY <2>5, DeleteInDelRefines
    <2>6. CASE DeleteCurr("d_curr")
      BY <2>6, DeleteCurrRefines DEF Atomic!Next
    <2>7. CASE MarkOld
      BY <2>7, MarkOldRefines
    <2>8. CASE CheckRoom
      BY <2>8, CheckRoomRefines DEF Atomic!Next
    <2>9. CASE WriteHeader \/ ValidateHeader \/ WriteData
      BY <2>9, WriteRefines
    <2>10. CASE MarkAdded
      BY <2>10, MarkAddedRefines DEF Atomic!Next
    <2>11. CASE DeleteInDel("o_indel", "o_curr") \/ DeleteCurr("o_curr")
      BY <2>11, OldDeletedRefines
    <2> QED
      BY <1>1, <2>1, <2>2, <2>3, <2>4, <2>5, <2>6, <2>7, <2>8, <2>9, <2>10, <2>11 DEF Step
  <1>2. CASE FtwFails
    BY <1>2, FtwFailsRefines DEF Atomic!Next
  <1>3. CASE PowerFails
    BY <1>3, PowerRefines DEF Atomic!Next
  <1>4. CASE \E n \in Name, d \in Data \cup {Absent} : CallSetVariable(n, d)
    BY <1>4, CallRefines DEF Atomic!Next
  <1>5. CASE ReadyToBoot \/ ExitBootServices
    BY <1>5, RestRefines
  <1>6. CASE UNCHANGED vars
    <2>1. UNCHANGED <<flash, pending, cache, last, runtime, pc, call, curr, inDel, status>>
      BY <1>6 DEF vars
    <2>2. OldOK' /\ MovingOK'
      BY <2>1 DEF AInv, OldOK, MovingOK, LiveIn, IsCopy
    <2>3. BufferOK' /\ PromiseOK'
      BY <2>1 DEF AInv, BufferOK, PromiseOK, FindsRoom, Limit
    <2>4. AInv'
      BY <2>1, <2>2, <2>3 DEF AInv
    <2>5. UNCHANGED Atomic!vars
      BY <2>1, StutterIs
    <2> QED
      BY <2>4, <2>5
  <1> QED
    BY <1>1, <1>2, <1>3, <1>4, <1>5, <1>6 DEF Next

\* SetVariable implements the atomic store: unless a variable has two copies in
\* transition when it is interrupted, a power failure between any two writes, a
\* reclaim and a failing reclaim leave every variable with its old or its new
\* contents, and a call that returned success is in place, for every number of
\* variables, every size of an entry and every size of the store.  The exception is
\* the boot that restarts the write of a reclaim which failed behind SpareComplete.
THEOREM SetIsAtomic == Once => (Spec => ImplementsAtomicSet)
  <1> SUFFICES ASSUME Once
               PROVE  Spec => ImplementsAtomicSet
    OBVIOUS
  <1>1. Init => AInv /\ PendingOK /\ Atomic!Init
    BY InitRefines DEF Init, PendingOK
  <1>2. IInv /\ AInv /\ PendingOK /\ [Next]_vars =>
            /\ AInv' /\ PendingOK'
            /\ [Atomic!Next \/ (pc = "off" /\ pending # None)]_(Atomic!vars)
    BY StepRefines
  <1> QED
    BY <1>1, <1>2, Invariance, PTL DEF Spec, ImplementsAtomicSet
===============================================================================
