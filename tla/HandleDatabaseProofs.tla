------------------------ MODULE HandleDatabaseProofs ------------------------
(***************************************************************************)
(* Proofs about HandleDatabase for every number of handles, protocols,     *)
(* interface structures, drivers and registrations, and every bound.       *)
(***************************************************************************)
EXTENDS HandleDatabase, SequenceTheorems, FiniteSetTheorems, TLAPS

(***************************************************************************)
(* Linked lists of structures.                                             *)
(***************************************************************************)

\* The nodes of a list, each on it once.
Links(s, T) == s \in Seq(Instance) /\ IsInjective(s) /\ ToSet(s) = T

\* How far down the list a registration has come.
Place(s, x) == IF x = None THEN 0 ELSE Index(s, x)

\* A node is where it is.
LEMMA IndexOfNode ==
    ASSUME NEW s \in Seq(Instance), IsInjective(s), NEW k \in 1 .. Len(s)
    PROVE  Index(s, s[k]) = k
  <1>1. DOMAIN s = 1 .. Len(s)
    BY LenProperties
  <1>2. \A j \in DOMAIN s : s[j] = s[k] => j = k
    BY <1>1 DEF IsInjective
  <1> QED
    BY <1>1, <1>2 DEF Index

\* A node of the list has a place on it.
LEMMA IndexInList ==
    ASSUME NEW s \in Seq(Instance), NEW i \in ToSet(s)
    PROVE  Index(s, i) \in 1 .. Len(s) /\ s[Index(s, i)] = i
  <1>1. DOMAIN s = 1 .. Len(s)
    BY LenProperties
  <1>2. \E k \in DOMAIN s : s[k] = i
    BY DEF ToSet
  <1> QED
    BY <1>1, <1>2 DEF Index

\* InsertTailList.
LEMMA TailLinks ==
    ASSUME NEW T, NEW s, Links(s, T), NEW i \in Instance, i \notin T
    PROVE  Links(Append(s, i), T \cup {i})
  <1> DEFINE r == Append(s, i)
  <1>1. s \in Seq(Instance) /\ Len(s) \in Nat /\ DOMAIN s = 1 .. Len(s)
    BY LenProperties DEF Links
  <1>2. /\ r \in Seq(Instance) /\ Len(r) = Len(s) + 1 /\ r[Len(s) + 1] = i
        /\ \A k \in 1 .. Len(s) : r[k] = s[k]
    BY <1>1, AppendProperties
  <1>3. DOMAIN r = 1 .. Len(s) + 1
    BY <1>2, LenProperties
  <1> HIDE DEF r
  <1>4. \A k \in 1 .. Len(s) : s[k] \in T
    BY <1>1 DEF Links, ToSet
  <1>5. IsInjective(r)
    BY <1>1, <1>2, <1>3, <1>4 DEF IsInjective, Links
  <1>6. ToSet(r) = T \cup {i}
    BY <1>1, <1>2, <1>3 DEF ToSet, Links
  <1> QED
    BY <1>2, <1>5, <1>6 DEF Links, r

\* InsertHeadList.
LEMMA HeadLinks ==
    ASSUME NEW T, NEW s, Links(s, T), NEW i \in Instance, i \notin T
    PROVE  Links(<<i>> \o s, T \cup {i})
  <1> DEFINE r == <<i>> \o s
  <1>1. s \in Seq(Instance) /\ Len(s) \in Nat /\ DOMAIN s = 1 .. Len(s)
    BY LenProperties DEF Links
  <1>2. <<i>> \in Seq(Instance) /\ Len(<<i>>) = 1 /\ <<i>>[1] = i
    OBVIOUS
  <1>3. /\ r \in Seq(Instance) /\ Len(r) = Len(s) + 1
        /\ \A k \in 1 .. Len(s) + 1 : r[k] = IF k <= 1 THEN i ELSE s[k - 1]
    BY <1>1, <1>2, ConcatProperties
  <1>4. DOMAIN r = 1 .. Len(s) + 1
    BY <1>3, LenProperties
  <1> HIDE DEF r
  <1>5. \A k \in 1 .. Len(s) : s[k] \in T
    BY <1>1 DEF Links, ToSet
  <1>6. r[1] = i /\ \A k \in 1 .. Len(s) : r[k + 1] = s[k]
    BY <1>1, <1>3
  <1>7. IsInjective(r)
    <2> SUFFICES ASSUME NEW a \in DOMAIN r, NEW b \in DOMAIN r, r[a] = r[b]
                 PROVE  a = b
      BY DEF IsInjective
    <2>1. CASE a = 1 \/ b = 1
      BY <2>1, <1>1, <1>3, <1>4, <1>5
    <2>2. CASE a # 1 /\ b # 1
      <3>1. a - 1 \in 1 .. Len(s) /\ b - 1 \in 1 .. Len(s)
        BY <2>2, <1>1, <1>4
      <3>2. s[a - 1] = s[b - 1]
        BY <2>2, <1>3, <1>4
      <3>3. a - 1 = b - 1
        BY <3>1, <3>2, <1>1 DEF IsInjective, Links
      <3> QED
        BY <3>3, <1>4
    <2> QED
      BY <2>1, <2>2
  <1>8. ToSet(r) = T \cup {i}
    <2>1. ToSet(r) \subseteq T \cup {i}
      BY <1>1, <1>3, <1>4, <1>5 DEF ToSet
    <2>2. T \cup {i} \subseteq ToSet(r)
      <3>1. i \in ToSet(r)
        BY <1>1, <1>4, <1>6 DEF ToSet
      <3>2. ASSUME NEW x \in T PROVE x \in ToSet(r)
        <4>1. PICK k \in 1 .. Len(s) : s[k] = x
          BY <1>1 DEF Links, ToSet
        <4> QED
          BY <4>1, <1>1, <1>4, <1>6 DEF ToSet
      <3> QED
        BY <3>1, <3>2
    <2> QED
      BY <2>1, <2>2
  <1> QED
    BY <1>3, <1>7, <1>8 DEF Links, r

\* A piece of a list.
LEMMA PieceEntries ==
    ASSUME NEW s, NEW a \in Int, NEW b \in Int, \A j \in a .. b : s[j] \in Instance
    PROVE  /\ SubSeq(s, a, b) \in Seq(Instance)
           /\ Len(SubSeq(s, a, b)) = IF a <= b THEN b - a + 1 ELSE 0
           /\ \A j \in 1 .. b - a + 1 : SubSeq(s, a, b)[j] = s[a + j - 1]
  BY SubSeqProperties

\* RemoveEntryList, entry by entry.
LEMMA UnlinkedEntries ==
    ASSUME NEW s \in Seq(Instance), NEW i \in ToSet(s)
    PROVE  /\ Unlinked(s, i) \in Seq(Instance)
           /\ Len(Unlinked(s, i)) = Len(s) - 1
           /\ \A j \in 1 .. Len(s) - 1 :
                  Unlinked(s, i)[j] = IF j < Index(s, i) THEN s[j] ELSE s[j + 1]
  <1>0. Index(s, i) \in 1 .. Len(s) /\ Len(s) \in Nat
    BY IndexInList, LenProperties
  <1>1. PICK k \in 1 .. Len(s), n \in Nat : k = Index(s, i) /\ n = Len(s)
    BY <1>0
  <1>2. PICK a \in Int, b \in Int : a = k - 1 /\ b = k + 1
    BY <1>1
  <1>3. Unlinked(s, i) = SubSeq(s, 1, a) \o SubSeq(s, b, n)
    BY <1>1, <1>2 DEF Unlinked, RemoveAt
  <1>4. \A j \in 1 .. n : s[j] \in Instance
    BY <1>1, ElementOfSeq
  <1>5. /\ SubSeq(s, 1, a) \in Seq(Instance)
        /\ Len(SubSeq(s, 1, a)) = a
        /\ \A j \in 1 .. a : SubSeq(s, 1, a)[j] = s[j]
    <2>1. \A j \in 1 .. a : s[j] \in Instance
      BY <1>1, <1>2, <1>4
    <2>2. /\ SubSeq(s, 1, a) \in Seq(Instance)
          /\ Len(SubSeq(s, 1, a)) = IF 1 <= a THEN a - 1 + 1 ELSE 0
          /\ \A j \in 1 .. a - 1 + 1 : SubSeq(s, 1, a)[j] = s[1 + j - 1]
      BY <2>1, PieceEntries
    <2>3. \A j \in 1 .. a : j \in 1 .. a - 1 + 1 /\ 1 + j - 1 = j
      BY <1>2
    <2> QED
      BY <2>2, <2>3, <1>1, <1>2
  <1>6. /\ SubSeq(s, b, n) \in Seq(Instance)
        /\ Len(SubSeq(s, b, n)) = n - k
        /\ \A j \in 1 .. n - k : SubSeq(s, b, n)[j] = s[k + j]
    <2>1. \A j \in b .. n : s[j] \in Instance
      BY <1>1, <1>2, <1>4
    <2>2. /\ SubSeq(s, b, n) \in Seq(Instance)
          /\ Len(SubSeq(s, b, n)) = IF b <= n THEN n - b + 1 ELSE 0
          /\ \A j \in 1 .. n - b + 1 : SubSeq(s, b, n)[j] = s[b + j - 1]
      BY <2>1, PieceEntries
    <2>3. \A j \in 1 .. n - k : j \in 1 .. n - b + 1 /\ b + j - 1 = k + j
      BY <1>1, <1>2
    <2> QED
      BY <2>2, <2>3, <1>1, <1>2
  <1>a. PICK l \in Seq(Instance), r \in Seq(Instance) :
            l = SubSeq(s, 1, a) /\ r = SubSeq(s, b, n)
    BY <1>5, <1>6
  <1>b. Len(l) = k - 1 /\ \A j \in 1 .. a : l[j] = s[j]
    BY <1>a, <1>5, <1>2
  <1>c. Len(r) = n - k /\ \A j \in 1 .. n - k : r[j] = s[k + j]
    BY <1>a, <1>6
  <1>7. /\ l \o r \in Seq(Instance)
        /\ Len(l \o r) = Len(l) + Len(r)
        /\ \A j \in 1 .. Len(l) + Len(r) :
               (l \o r)[j] = IF j <= Len(l) THEN l[j] ELSE r[j - Len(l)]
    BY ConcatProperties
  <1>8. Len(l) = k - 1 /\ Len(r) = n - k /\ Len(l) + Len(r) = n - 1
    BY <1>1, <1>b, <1>c
  <1>9. \A j \in 1 .. n - 1 : (l \o r)[j] = IF j < k THEN s[j] ELSE s[j + 1]
    <2> SUFFICES ASSUME NEW j \in 1 .. n - 1
                 PROVE  (l \o r)[j] = IF j < k THEN s[j] ELSE s[j + 1]
      OBVIOUS
    <2>1. (l \o r)[j] = IF j <= Len(l) THEN l[j] ELSE r[j - Len(l)]
      BY <1>7, <1>8
    <2>2. CASE j < k
      <3>1. a = Len(l) /\ a = k - 1 /\ k \in Int
        BY <1>1, <1>2, <1>8
      <3>2. j \in 1 .. a
        BY <2>2, <3>1
      <3> QED
        BY <2>1, <2>2, <3>1, <3>2, <1>b
    <2>3. CASE ~ (j < k)
      <3>1. j - (k - 1) \in 1 .. n - k /\ k + (j - (k - 1)) = j + 1 /\ ~ (j <= k - 1)
        BY <2>3, <1>1
      <3>2. (l \o r)[j] = r[j - (k - 1)]
        BY <2>1, <3>1, <1>8
      <3>3. r[j - (k - 1)] = s[k + (j - (k - 1))]
        BY <3>1, <1>c
      <3> QED
        BY <2>3, <3>1, <3>2, <3>3
    <2> QED
      BY <2>2, <2>3
  <1> QED
    BY <1>1, <1>3, <1>a, <1>7, <1>8, <1>9

\* RemoveEntryList.
LEMMA UnlinkedLinks ==
    ASSUME NEW T, NEW s, Links(s, T), NEW i \in T
    PROVE  Links(Unlinked(s, i), T \ {i})
  <1> DEFINE r == Unlinked(s, i)
             k == Index(s, i)
  <1>1. s \in Seq(Instance) /\ i \in ToSet(s)
    BY DEF Links
  <1>2. k \in 1 .. Len(s) /\ s[k] = i /\ Len(s) \in Nat /\ DOMAIN s = 1 .. Len(s)
    BY <1>1, IndexInList, LenProperties
  <1>3. /\ r \in Seq(Instance) /\ Len(r) = Len(s) - 1
        /\ \A j \in 1 .. Len(s) - 1 : r[j] = IF j < k THEN s[j] ELSE s[j + 1]
    BY <1>1, UnlinkedEntries
  <1>4. DOMAIN r = 1 .. Len(s) - 1
    BY <1>3, LenProperties
  <1> HIDE DEF r, k
  <1>5. \A a, b \in 1 .. Len(s) : s[a] = s[b] => a = b
    BY <1>2 DEF Links, IsInjective
  <1>6. IsInjective(r)
    <2> SUFFICES ASSUME NEW a \in DOMAIN r, NEW b \in DOMAIN r, r[a] = r[b]
                 PROVE  a = b
      BY DEF IsInjective
    <2>1. a \in 1 .. Len(s) /\ a + 1 \in 1 .. Len(s) /\ b \in 1 .. Len(s) /\ b + 1 \in 1 .. Len(s)
      BY <1>2, <1>4
    <2>2. CASE a < k /\ b < k
      BY <2>1, <2>2, <1>3, <1>4, <1>5
    <2>3. CASE a < k /\ ~ (b < k)
      <3>1. s[a] = s[b + 1]
        BY <2>3, <1>3, <1>4
      <3>2. a = b + 1
        BY <3>1, <2>1, <1>5
      <3> QED
        BY <3>2, <2>1, <2>3, <1>2
    <2>4. CASE ~ (a < k) /\ b < k
      <3>1. s[a + 1] = s[b]
        BY <2>4, <1>3, <1>4
      <3>2. a + 1 = b
        BY <3>1, <2>1, <1>5
      <3> QED
        BY <3>2, <2>1, <2>4, <1>2
    <2>5. CASE ~ (a < k) /\ ~ (b < k)
      <3>1. s[a + 1] = s[b + 1]
        BY <2>5, <1>3, <1>4
      <3>2. a + 1 = b + 1
        BY <3>1, <2>1, <1>5
      <3> QED
        BY <3>2, <2>1
    <2> QED
      BY <2>2, <2>3, <2>4, <2>5
  <1>7. ToSet(r) \subseteq T \ {i}
    <2> SUFFICES ASSUME NEW j \in 1 .. Len(s) - 1
                 PROVE  r[j] \in T /\ r[j] # i
      BY <1>4 DEF ToSet
    <2>1. j \in 1 .. Len(s) /\ j + 1 \in 1 .. Len(s)
      BY <1>2
    <2>2. \A x \in 1 .. Len(s) : s[x] \in T
      BY <1>2 DEF Links, ToSet
    <2>3. CASE j < k
      BY <2>1, <2>2, <2>3, <1>2, <1>3, <1>5
    <2>4. CASE ~ (j < k)
      <3>1. r[j] = s[j + 1] /\ j + 1 # k
        BY <2>1, <2>4, <1>2, <1>3
      <3> QED
        BY <3>1, <2>1, <2>2, <1>2, <1>5
    <2> QED
      BY <2>3, <2>4
  <1>8. T \ {i} \subseteq ToSet(r)
    <2> SUFFICES ASSUME NEW x \in T, x # i
                 PROVE  x \in ToSet(r)
      OBVIOUS
    <2>1. PICK j \in 1 .. Len(s) : s[j] = x
      BY <1>2 DEF Links, ToSet
    <2>2. j # k
      BY <2>1, <1>2
    <2>3. CASE j < k
      <3>1. j \in 1 .. Len(s) - 1 /\ r[j] = x
        BY <2>1, <2>3, <1>2, <1>3
      <3> QED
        BY <3>1, <1>4 DEF ToSet
    <2>4. CASE j > k
      <3>1. j - 1 \in 1 .. Len(s) - 1 /\ ~ (j - 1 < k) /\ (j - 1) + 1 = j
        BY <2>1, <2>4, <1>2
      <3>2. r[j - 1] = x
        BY <3>1, <2>1, <1>3
      <3> QED
        BY <3>1, <3>2, <1>4 DEF ToSet
    <2> QED
      BY <2>1, <2>2, <2>3, <2>4, <1>2
  <1> QED
    BY <1>3, <1>6, <1>7, <1>8 DEF Links, r

\* What LocateHandle has still to return: the nodes behind the position.
LEMMA AfterNodes ==
    ASSUME NEW T, NEW s, Links(s, T), NEW x \in T \cup {None}
    PROVE  /\ Place(s, x) \in 0 .. Len(s)
           /\ Place(s, x) # 0 => s[Place(s, x)] = x
           /\ After(s, x) \in Seq(Instance)
           /\ Len(After(s, x)) = Len(s) - Place(s, x)
           /\ \A j \in 1 .. Len(s) - Place(s, x) : After(s, x)[j] = s[Place(s, x) + j]
           /\ ToSet(After(s, x)) = {s[j] : j \in Place(s, x) + 1 .. Len(s)}
  <1> DEFINE p == Place(s, x)
             r == After(s, x)
  <1>1. s \in Seq(Instance) /\ Len(s) \in Nat /\ DOMAIN s = 1 .. Len(s)
    BY LenProperties DEF Links
  <1>2. x # None => Index(s, x) \in 1 .. Len(s) /\ s[Index(s, x)] = x
    BY <1>1, IndexInList DEF Links
  <1>3. p \in 0 .. Len(s) /\ (p # 0 => s[p] = x)
    BY <1>1, <1>2 DEF Place
  <1>4. /\ r \in Seq(Instance) /\ Len(r) = Len(s) - p
        /\ \A j \in 1 .. Len(s) - p : r[j] = s[p + j]
    <2>1. CASE x = None
      BY <2>1, <1>1 DEF Place, After
    <2>2. CASE x # None
      <3>0. p + 1 \in Int /\ Len(s) \in Int
        BY <1>1, <1>3
      <3>1. PICK b \in Int, n \in Int : b = p + 1 /\ n = Len(s)
        BY <3>0
      <3>2. r = SubSeq(s, b, n)
        BY <2>2, <3>1 DEF After, Place
      <3>3. \A j \in b .. n : s[j] \in Instance
        BY <3>1, <1>1, <1>3, ElementOfSeq
      <3>4. Len(SubSeq(s, b, n)) = IF b <= n THEN n - b + 1 ELSE 0
        BY <3>3, SubSeqProperties
      <3>5. \A j \in 1 .. n - b + 1 : SubSeq(s, b, n)[j] = s[b + j - 1]
        BY <3>3, SubSeqProperties
      <3>6. SubSeq(s, b, n) \in Seq(Instance)
        BY <3>3, SubSeqProperties
      <3> HIDE DEF r, p
      <3>7. Len(r) = Len(s) - p
        BY <3>1, <3>2, <3>4, <1>1, <1>3
      <3>8. \A j \in 1 .. Len(s) - p : j \in 1 .. n - b + 1 /\ b + j - 1 = p + j
        BY <3>1, <1>1, <1>3
      <3> QED
        BY <3>2, <3>5, <3>6, <3>7, <3>8
    <2> QED
      BY <2>1, <2>2
  <1>5. DOMAIN r = 1 .. Len(s) - p
    BY <1>4, LenProperties
  <1> HIDE DEF r, p
  <1>6. ToSet(r) \subseteq {s[j] : j \in p + 1 .. Len(s)}
    <2> SUFFICES ASSUME NEW j \in 1 .. Len(s) - p
                 PROVE  r[j] \in {s[k] : k \in p + 1 .. Len(s)}
      BY <1>5 DEF ToSet
    <2>1. p + j \in p + 1 .. Len(s)
      BY <1>1, <1>3
    <2> QED
      BY <2>1, <1>4
  <1>7. {s[j] : j \in p + 1 .. Len(s)} \subseteq ToSet(r)
    <2> SUFFICES ASSUME NEW j \in p + 1 .. Len(s)
                 PROVE  s[j] \in ToSet(r)
      OBVIOUS
    <2>1. j - p \in 1 .. Len(s) - p /\ p + (j - p) = j
      BY <1>1, <1>3
    <2>2. r[j - p] = s[j]
      BY <2>1, <1>4
    <2> QED
      BY <2>1, <2>2, <1>5 DEF ToSet
  <1>8. ToSet(r) = {s[j] : j \in p + 1 .. Len(s)}
    BY <1>6, <1>7
  <1> QED
    BY <1>3, <1>4, <1>8 DEF r, p

\* A node put at the tail is still to be located.
LEMMA AfterTail ==
    ASSUME NEW T, NEW s, Links(s, T), NEW x \in T \cup {None},
           NEW i \in Instance, i \notin T
    PROVE  ToSet(After(Append(s, i), x)) = ToSet(After(s, x)) \cup {i}
  <1> DEFINE r == Append(s, i)
             p == Place(s, x)
  <1>1. s \in Seq(Instance) /\ Len(s) \in Nat
    BY LenProperties DEF Links
  <1>2. /\ r \in Seq(Instance) /\ Len(r) = Len(s) + 1 /\ r[Len(s) + 1] = i
        /\ \A k \in 1 .. Len(s) : r[k] = s[k]
    BY <1>1, AppendProperties
  <1>3. Links(r, T \cup {i})
    BY TailLinks
  <1> HIDE DEF r
  <1>4. p \in 0 .. Len(s) /\ (p # 0 => s[p] = x)
    BY AfterNodes
  <1>5. Place(r, x) = p
    <2>1. CASE x = None
      BY <2>1 DEF Place
    <2>2. CASE x # None
      <3>1. p \in 1 .. Len(s) /\ s[p] = x
        BY <2>2, <1>1, IndexInList DEF Place, Links
      <3>2. p \in 1 .. Len(r) /\ r[p] = x
        BY <3>1, <1>1, <1>2
      <3>3. Index(r, r[p]) = p
        BY <3>2, <1>2, <1>3, IndexOfNode DEF Links
      <3> QED
        BY <2>2, <3>2, <3>3 DEF Place
    <2> QED
      BY <2>1, <2>2
  <1>6. ToSet(After(r, x)) = {r[j] : j \in p + 1 .. Len(s) + 1}
    BY <1>2, <1>3, <1>5, AfterNodes
  <1>7. ToSet(After(s, x)) = {s[j] : j \in p + 1 .. Len(s)}
    BY AfterNodes
  <1> HIDE DEF p
  <1>8. \A j \in p + 1 .. Len(s) + 1 :
            \/ j = Len(s) + 1 /\ r[j] = i
            \/ j \in p + 1 .. Len(s) /\ r[j] = s[j]
    BY <1>1, <1>2, <1>4
  <1>9. /\ Len(s) + 1 \in p + 1 .. Len(s) + 1 /\ r[Len(s) + 1] = i
        /\ \A j \in p + 1 .. Len(s) : j \in p + 1 .. Len(s) + 1 /\ r[j] = s[j]
    BY <1>1, <1>2, <1>4
  <1>10. {r[j] : j \in p + 1 .. Len(s) + 1} = {s[j] : j \in p + 1 .. Len(s)} \cup {i}
    BY <1>8, <1>9
  <1> QED
    BY <1>6, <1>7, <1>10 DEF r

\* The position that CoreRemoveInterfaceFromProtocol moves to.
Before(s, i) == IF Index(s, i) = 1 THEN None ELSE s[Index(s, i) - 1]

\* A node taken off is not located any more, and no other node is lost or
\* located a second time: the position backs up over it.
LEMMA AfterUnlinked ==
    ASSUME NEW T, NEW s, Links(s, T), None \notin T, NEW x \in T \cup {None}, NEW i \in T,
           NEW y, y = IF x = i THEN Before(s, i) ELSE x
    PROVE  /\ y \in (T \ {i}) \cup {None}
           /\ ToSet(After(Unlinked(s, i), y)) = ToSet(After(s, x)) \ {i}
  <1> DEFINE r == Unlinked(s, i)
             k == Index(s, i)
             p == Place(s, x)
             q == IF p < k THEN p ELSE p - 1
  <1>1. s \in Seq(Instance) /\ Len(s) \in Nat /\ i \in ToSet(s) /\ DOMAIN s = 1 .. Len(s)
    BY LenProperties DEF Links
  <1>2. k \in 1 .. Len(s) /\ s[k] = i
    BY <1>1, IndexInList
  <1>3. /\ r \in Seq(Instance) /\ Len(r) = Len(s) - 1
        /\ \A j \in 1 .. Len(s) - 1 : r[j] = IF j < k THEN s[j] ELSE s[j + 1]
    BY <1>1, UnlinkedEntries
  <1>4. Links(r, T \ {i})
    BY UnlinkedLinks
  <1>5. p \in 0 .. Len(s) /\ (p # 0 => s[p] = x) /\ (p = 0 <=> x = None)
    <2>1. p \in 0 .. Len(s) /\ (p # 0 => s[p] = x)
      BY AfterNodes
    <2>2. x # None => p \in 1 .. Len(s)
      BY <1>1, IndexInList DEF Place, Links
    <2> QED
      BY <2>1, <2>2 DEF Place
  <1>6. \A a, b \in 1 .. Len(s) : s[a] = s[b] => a = b
    BY <1>1 DEF Links, IsInjective
  <1>7. \A a \in 1 .. Len(s) : s[a] \in T
    BY <1>1 DEF Links, ToSet
  <1>8. x = i <=> p = k
    BY <1>2, <1>5, <1>6
  <1>9. y = IF x = i THEN (IF k = 1 THEN None ELSE s[k - 1]) ELSE x
    BY DEF Before
  <1> HIDE DEF r, k, p
  <1>10. /\ q \in 0 .. Len(s) - 1
         /\ q = 0 => y = None
         /\ q # 0 => r[q] = y
    <2>1. CASE p < k
      BY <2>1, <1>1, <1>2, <1>3, <1>5, <1>8, <1>9
    <2>2. CASE p = k
      <3>1. y = IF k = 1 THEN None ELSE s[k - 1]
        BY <2>2, <1>8, <1>9
      <3>2. k # 1 => k - 1 \in 1 .. Len(s) - 1 /\ k - 1 < k
        BY <1>1, <1>2
      <3>3. k # 1 => r[k - 1] = s[k - 1]
        BY <3>2, <1>3
      <3> QED
        BY <2>2, <3>1, <3>3, <1>1, <1>2
    <2>3. CASE p > k
      <3>1. p - 1 \in 1 .. Len(s) - 1 /\ ~ (p - 1 < k) /\ (p - 1) + 1 = p
        BY <2>3, <1>1, <1>2, <1>5
      <3>2. r[p - 1] = s[p]
        BY <3>1, <1>3
      <3>3. y = x
        BY <2>3, <1>2, <1>5, <1>8, <1>9
      <3> QED
        BY <2>3, <3>1, <3>2, <3>3, <1>2, <1>5
    <2> QED
      BY <2>1, <2>2, <2>3, <1>2, <1>5
  <1> HIDE DEF q
  <1>11. DOMAIN r = 1 .. Len(s) - 1 /\ ToSet(r) = T \ {i}
    BY <1>3, <1>4, LenProperties DEF Links
  <1>12. y \in (T \ {i}) \cup {None}
    <2>1. q # 0 => q \in DOMAIN r
      BY <1>1, <1>10, <1>11
    <2>2. q # 0 => r[q] \in T \ {i}
      BY <2>1, <1>11 DEF ToSet
    <2> QED
      BY <2>2, <1>10
  <1>13. Place(r, y) = q
    <2>1. CASE q = 0
      BY <2>1, <1>10 DEF Place
    <2>2. CASE q # 0
      <3>1. q \in 1 .. Len(r) /\ r[q] = y
        BY <2>2, <1>1, <1>3, <1>10
      <3>2. Index(r, y) = q
        BY <3>1, <1>3, <1>4, IndexOfNode DEF Links
      <3>3. y # None
        <4>1. q \in DOMAIN r
          BY <3>1, <1>1, <1>3, <1>11
        <4>2. r[q] \in T \ {i}
          BY <4>1, <1>11 DEF ToSet
        <4> QED
          BY <4>2, <3>1
      <3> QED
        BY <3>2, <3>3 DEF Place
    <2> QED
      BY <2>1, <2>2
  <1>14. ToSet(After(r, y)) = {r[j] : j \in q + 1 .. Len(s) - 1}
    <2>0. PICK U : U = T \ {i}
      OBVIOUS
    <2>a. Links(r, U) /\ y \in U \cup {None}
      BY <2>0, <1>4, <1>12
    <2>1. ToSet(After(r, y)) = {r[j] : j \in Place(r, y) + 1 .. Len(r)}
      BY <2>a, AfterNodes
    <2>2. Len(r) = Len(s) - 1
      BY <1>3
    <2>3. Place(r, y) + 1 .. Len(r) = q + 1 .. Len(s) - 1
      BY <2>2, <1>13
    <2>4. {r[j] : j \in Place(r, y) + 1 .. Len(r)} = {r[j] : j \in q + 1 .. Len(s) - 1}
      BY <2>3
    <2> QED
      BY <2>1, <2>4
  <1>15. ToSet(After(s, x)) = {s[j] : j \in p + 1 .. Len(s)}
    BY AfterNodes DEF p
  <1>16. \A j \in q + 1 .. Len(s) - 1 : r[j] \in {s[m] : m \in p + 1 .. Len(s)} \ {i}
    <2> SUFFICES ASSUME NEW j \in q + 1 .. Len(s) - 1
                 PROVE  \E m \in p + 1 .. Len(s) : r[j] = s[m] /\ m # k
      BY <1>2, <1>5, <1>6
    <2>1. j \in 1 .. Len(s) - 1
      BY <1>1, <1>10
    <2>2. CASE j < k
      <3>1. j \in p + 1 .. Len(s) /\ j # k
        BY <2>1, <2>2, <1>1, <1>2, <1>5 DEF q
      <3> QED
        BY <2>1, <2>2, <3>1, <1>3
    <2>3. CASE ~ (j < k)
      <3>1. j + 1 \in p + 1 .. Len(s) /\ j + 1 # k
        BY <2>1, <2>3, <1>1, <1>2, <1>5 DEF q
      <3> QED
        BY <2>1, <2>3, <3>1, <1>3
    <2> QED
      BY <2>2, <2>3
  <1>17. \A m \in p + 1 .. Len(s) : s[m] # i => \E j \in q + 1 .. Len(s) - 1 : r[j] = s[m]
    <2> SUFFICES ASSUME NEW m \in p + 1 .. Len(s), s[m] # i
                 PROVE  \E j \in q + 1 .. Len(s) - 1 : r[j] = s[m]
      OBVIOUS
    <2>1. m # k /\ m \in 1 .. Len(s)
      BY <1>1, <1>2, <1>5
    <2>2. CASE m < k
      <3>1. m \in q + 1 .. Len(s) - 1 /\ m \in 1 .. Len(s) - 1
        BY <2>1, <2>2, <1>1, <1>2, <1>5 DEF q
      <3> QED
        BY <2>2, <3>1, <1>3
    <2>3. CASE m > k
      <3>1. /\ m - 1 \in q + 1 .. Len(s) - 1 /\ m - 1 \in 1 .. Len(s) - 1
            /\ ~ (m - 1 < k) /\ (m - 1) + 1 = m
        BY <2>1, <2>3, <1>1, <1>2, <1>5 DEF q
      <3>2. r[m - 1] = s[m]
        BY <3>1, <1>3
      <3> QED
        BY <3>1, <3>2
    <2> QED
      BY <2>1, <2>2, <2>3, <1>2
  <1>18. {r[j] : j \in q + 1 .. Len(s) - 1} = {s[j] : j \in p + 1 .. Len(s)} \ {i}
    BY <1>16, <1>17
  <1> QED
    BY <1>12, <1>14, <1>15, <1>18 DEF r

\* LocateHandle returns the node behind the position and moves on to it.
LEMMA AfterLocated ==
    ASSUME NEW T, NEW s, Links(s, T), None \notin T, NEW x \in T \cup {None},
           After(s, x) # <<>>
    PROVE  /\ Head(After(s, x)) \in T
           /\ ToSet(After(s, Head(After(s, x)))) = ToSet(After(s, x)) \ {Head(After(s, x))}
  <1> DEFINE p == Place(s, x)
             y == s[p + 1]
  <1>1. s \in Seq(Instance) /\ Len(s) \in Nat /\ DOMAIN s = 1 .. Len(s)
    BY LenProperties DEF Links
  <1>2. /\ p \in 0 .. Len(s)
        /\ After(s, x) \in Seq(Instance)
        /\ Len(After(s, x)) = Len(s) - p
        /\ \A j \in 1 .. Len(s) - p : After(s, x)[j] = s[p + j]
        /\ ToSet(After(s, x)) = {s[j] : j \in p + 1 .. Len(s)}
    BY AfterNodes
  <1> HIDE DEF p
  <1>3. Len(s) - p \in Nat \ {0}
    BY <1>2, EmptySeq
  <1>a. p \in 0 .. Len(s)
    BY <1>2
  <1>b. Len(s) \in Nat
    BY <1>1
  <1>4. p + 1 \in 1 .. Len(s) /\ 1 \in 1 .. Len(s) - p
    BY <1>a, <1>b, <1>3
  <1>5. Head(After(s, x)) = y
    <2>1. Head(After(s, x)) = After(s, x)[1]
      BY <1>2, <1>3
    <2> QED
      BY <2>1, <1>2, <1>4
  <1>6. y \in T /\ y # None
    BY <1>1, <1>4 DEF Links, ToSet
  <1>7. Place(s, y) = p + 1
    BY <1>1, <1>4, <1>6, IndexOfNode DEF Place, Links
  <1>8. ToSet(After(s, y)) = {s[j] : j \in (p + 1) + 1 .. Len(s)}
    BY <1>6, <1>7, AfterNodes
  <1>9. \A a, b \in 1 .. Len(s) : s[a] = s[b] => a = b
    BY <1>1 DEF Links, IsInjective
  <1> HIDE DEF y
  <1>10. {s[j] : j \in (p + 1) + 1 .. Len(s)} = {s[j] : j \in p + 1 .. Len(s)} \ {y}
    <2>1. ASSUME NEW j \in (p + 1) + 1 .. Len(s)
          PROVE  j \in p + 1 .. Len(s) /\ s[j] # y
      BY <1>1, <1>2, <1>4, <1>9 DEF y
    <2>2. ASSUME NEW j \in p + 1 .. Len(s), s[j] # y
          PROVE  j \in (p + 1) + 1 .. Len(s)
      BY <2>2, <1>1, <1>2 DEF y
    <2> QED
      BY <2>1, <2>2
  <1> QED
    BY <1>2, <1>5, <1>6, <1>8, <1>10

\* Nothing is left to be located exactly at the end of the list.
LEMMA AfterEnd ==
    ASSUME NEW T, NEW s, Links(s, T), NEW x \in T \cup {None}, After(s, x) = <<>>
    PROVE  ToSet(After(s, x)) = {}
  BY EmptySeq DEF ToSet

(***************************************************************************)
(* The inductive invariant.                                                *)
(***************************************************************************)

\* The two lists a structure is on: that of its protocol and that of the one
\* handle it is installed on.
ListsOK ==
    /\ of \in [Instance -> Protocol \cup {None}]
    /\ byProtocol \in [Protocol -> Seq(Instance)]
    /\ \A p \in Protocol : Links(byProtocol[p], {i \in Instance : of[i] = p})
    /\ protocols \in [Handle -> Seq(Instance)]
    /\ \A h \in Handle : Links(protocols[h], On(h))
    /\ \A h \in Handle : \A i \in On(h) : of[i] # None
    /\ \A i \in Instance : of[i] # None => \E h \in Handle : i \in On(h)
    /\ \A h, g \in Handle : \A i \in On(h) \cap On(g) : h = g

\* Registrations; a free record has nothing to locate.
RegistrationsOK ==
    /\ registered \in [Notify -> Protocol \cup {None}]
    /\ position \in [Notify -> Instance \cup {None}]
    /\ unseen \in [Notify -> SUBSET Instance]
    /\ signalled \subseteq Notify
    /\ \A n \in Notify : registered[n] = None => unseen[n] = {}
    /\ PositionIsExact

\* Only drivers open BY_DRIVER.
OpensOK ==
    /\ open \in [Instance -> SUBSET Opener]
    /\ \A i \in Instance : \A o \in Drives(i) : o.agent \in Driver

\* What a frame carries: a structure exactly when it works on one; where
\* InstallProtocolInterface is to add one; the record of a notification function;
\* and who opens what.
GoodFrame ==
    {f \in Frame : /\ f.pc \in Locked <=> f.inst # None
                   /\ f.pc = "add" => f.han \in Handle /\ f.prot \in Protocol
                   /\ f.pc = "notify" => f.agent \in Notify \cup {None}
                   /\ f.pc = "open" => /\ f.agent \in Driver \cup Application
                                       /\ f.attr \in Attributes
                                       /\ "driver" \in f.attr => f.agent \in Driver}

\* A structure that is to be taken off its lists is held by no call below.
Shaped(s) ==
    /\ s \in Seq(GoodFrame) /\ s # <<>>
    /\ s[1].pc = "boot"
    /\ \A k \in 2 .. Len(s) : s[k].pc # "boot"
    /\ \A j, k \in 1 .. Len(s) :
           j < k /\ s[k].pc \in {"disconnect", "reinstall"} => s[j].inst # s[k].inst

\* The structures that calls work on are installed.
Held(s, o) == \A k \in 1 .. Len(s) : s[k].pc \in Locked => o[s[k].inst] # None

\* A call in progress tells a registration for protocol p.
Telling(s, n, p) ==
    \E k \in 1 .. Len(s) : \/ s[k].pc = "notify" /\ s[k].agent = n
                           \/ s[k].pc = "tell" /\ s[k].prot = p

Noticed == \A n \in Notify : unseen[n] # {} =>
               n \in signalled \/ Telling(stack, n, registered[n])

StackOK == Shaped(stack) /\ Held(stack, of) /\ calls \in Nat

IInv == ListsOK /\ RegistrationsOK /\ OpensOK /\ StackOK /\ Noticed /\ OneDriver

(***************************************************************************)
(* Stacks.                                                                 *)
(***************************************************************************)

\* A call.
LEMMA PushFrame ==
    ASSUME NEW s, Shaped(s), NEW o, Held(s, o), NEW f \in GoodFrame, f.pc # "boot",
           f.pc \in Locked => o[f.inst] # None,
           f.pc \in {"disconnect", "reinstall"} => \A k \in 1 .. Len(s) : s[k].inst # f.inst
    PROVE  /\ Shaped(Append(s, f))
           /\ Held(Append(s, f), o)
           /\ \A n, p : Telling(s, n, p) => Telling(Append(s, f), n, p)
           /\ \A n, p : f.pc = "notify" /\ f.agent = n => Telling(Append(s, f), n, p)
           /\ \A n, p : f.pc = "tell" /\ f.prot = p => Telling(Append(s, f), n, p)
  <1> DEFINE r == Append(s, f)
  <1>1. s \in Seq(GoodFrame) /\ Len(s) \in Nat \ {0}
    BY EmptySeq DEF Shaped
  <1>2. /\ r \in Seq(GoodFrame) /\ r # <<>> /\ Len(r) = Len(s) + 1
        /\ \A k \in 1 .. Len(s) : r[k] = s[k]
        /\ r[Len(s) + 1] = f
    BY <1>1, AppendProperties
  <1> HIDE DEF r
  <1>3. \A k \in 1 .. Len(r) : \/ k \in 1 .. Len(s) /\ r[k] = s[k]
                               \/ k = Len(s) + 1 /\ r[k] = f
    BY <1>1, <1>2
  <1>4. \A k \in 1 .. Len(s) : k \in 1 .. Len(r)
    BY <1>1, <1>2
  <1>5. r[1].pc = "boot" /\ \A k \in 2 .. Len(r) : r[k].pc # "boot"
    BY <1>1, <1>2, <1>3 DEF Shaped
  <1>6. \A j, k \in 1 .. Len(r) :
            j < k /\ r[k].pc \in {"disconnect", "reinstall"} => r[j].inst # r[k].inst
    <2> SUFFICES ASSUME NEW j \in 1 .. Len(r), NEW k \in 1 .. Len(r), j < k,
                        r[k].pc \in {"disconnect", "reinstall"}
                 PROVE  r[j].inst # r[k].inst
      OBVIOUS
    <2>1. j \in 1 .. Len(s) /\ r[j] = s[j]
      BY <1>1, <1>2
    <2>2. CASE k \in 1 .. Len(s) /\ r[k] = s[k]
      BY <2>1, <2>2 DEF Shaped
    <2>3. CASE k = Len(s) + 1 /\ r[k] = f
      BY <2>1, <2>3
    <2> QED
      BY <2>2, <2>3, <1>3
  <1>7. Shaped(r)
    BY <1>2, <1>5, <1>6 DEF Shaped
  <1>8. Held(r, o)
    BY <1>3 DEF Held
  <1>9. \A n, p : Telling(s, n, p) => Telling(r, n, p)
    BY <1>2, <1>4 DEF Telling
  <1>10. Len(s) + 1 \in 1 .. Len(r)
    BY <1>1, <1>2
  <1>11. \A n, p : f.pc = "notify" /\ f.agent = n => Telling(r, n, p)
    BY <1>2, <1>10 DEF Telling
  <1>12. \A n, p : f.pc = "tell" /\ f.prot = p => Telling(r, n, p)
    BY <1>2, <1>10 DEF Telling
  <1> QED
    BY <1>7, <1>8, <1>9, <1>11, <1>12 DEF r

\* The running call, unless it is the boot flow, returns.
LEMMA PopFrame ==
    ASSUME NEW s, Shaped(s), NEW o, Held(s, o), Last(s).pc # "boot"
    PROVE  /\ Shaped(Front(s))
           /\ Held(Front(s), o)
           /\ Len(s) \in Nat /\ Len(s) >= 2
           /\ Len(Front(s)) = Len(s) - 1
           /\ \A k \in 1 .. Len(s) - 1 : Front(s)[k] = s[k]
           /\ \A n, p : Telling(s, n, p) =>
                  \/ Telling(Front(s), n, p)
                  \/ Last(s).pc = "notify" /\ Last(s).agent = n
                  \/ Last(s).pc = "tell" /\ Last(s).prot = p
  <1> DEFINE r == Front(s)
  <1>1. s \in Seq(GoodFrame) /\ Len(s) \in Nat \ {0}
    BY EmptySeq DEF Shaped
  <1>2. Len(s) # 1
    BY DEF Shaped, Last
  <1>a. Len(s) - 1 \in Nat \ {0}
    BY <1>1, <1>2
  <1>3. PICK m \in Nat \ {0} : m = Len(s) - 1
    BY <1>a
  <1>4. Len(s) = m + 1
    BY <1>1, <1>3
  <1>5. r = SubSeq(s, 1, m)
    BY <1>3 DEF Front
  <1>6. \A k \in 1 .. m : s[k] \in GoodFrame
    BY <1>1, <1>4, ElementOfSeq
  <1>7. r \in Seq(GoodFrame) /\ Len(r) = m /\ \A k \in 1 .. m : r[k] = s[k]
    <2>1. SubSeq(s, 1, m) \in Seq(GoodFrame)
      BY <1>6, SubSeqProperties
    <2>2. Len(SubSeq(s, 1, m)) = IF 1 <= m THEN m - 1 + 1 ELSE 0
      BY <1>6, SubSeqProperties
    <2>3. \A k \in 1 .. m - 1 + 1 : SubSeq(s, 1, m)[k] = s[1 + k - 1]
      BY <1>6, SubSeqProperties
    <2>4. \A k \in 1 .. m : k \in 1 .. m - 1 + 1 /\ 1 + k - 1 = k
      OBVIOUS
    <2> QED
      BY <1>5, <2>1, <2>2, <2>3, <2>4
  <1> HIDE DEF r
  <1>8. r # <<>>
    BY <1>7
  <1>9. \A k \in 1 .. m : k \in 1 .. Len(s)
    BY <1>4
  <1>10. r[1].pc = "boot" /\ \A k \in 2 .. m : r[k].pc # "boot"
    <2>1. 1 \in 1 .. m /\ \A k \in 2 .. m : k \in 1 .. m /\ k \in 2 .. Len(s)
      BY <1>4
    <2> QED
      BY <2>1, <1>7 DEF Shaped
  <1>11. Shaped(r)
    BY <1>7, <1>8, <1>9, <1>10 DEF Shaped
  <1>12. Held(r, o)
    BY <1>7, <1>9 DEF Held
  <1>13. ASSUME NEW n, NEW p, Telling(s, n, p)
         PROVE  \/ Telling(r, n, p)
                \/ Last(s).pc = "notify" /\ Last(s).agent = n
                \/ Last(s).pc = "tell" /\ Last(s).prot = p
    <2>1. PICK k \in 1 .. Len(s) : \/ s[k].pc = "notify" /\ s[k].agent = n
                                   \/ s[k].pc = "tell" /\ s[k].prot = p
      BY <1>13 DEF Telling
    <2>2. CASE k = Len(s)
      BY <2>1, <2>2 DEF Last
    <2>3. CASE k # Len(s)
      <3>1. k \in 1 .. m
        BY <2>3, <1>4
      <3> QED
        BY <2>1, <3>1, <1>7 DEF Telling
    <2> QED
      BY <2>2, <2>3
  <1>14. Len(s) >= 2
    BY <1>4
  <1> QED
    BY <1>1, <1>3, <1>7, <1>11, <1>12, <1>13, <1>14 DEF r

\* The running call.
LEMMA TopFrame ==
    ASSUME NEW s, Shaped(s)
    PROVE  /\ Len(s) \in Nat \ {0}
           /\ Last(s) \in GoodFrame /\ Last(s) \in Frame
           /\ \A o : Held(s, o) /\ Last(s).pc \in Locked => o[Last(s).inst] # None
           /\ DOMAIN s = 1 .. Len(s)
  <1>1. s \in Seq(GoodFrame) /\ Len(s) \in Nat \ {0} /\ DOMAIN s = 1 .. Len(s)
    BY EmptySeq, LenProperties DEF Shaped
  <1>2. Len(s) \in 1 .. Len(s)
    BY <1>1
  <1>3. Last(s) \in GoodFrame
    BY <1>1, <1>2, ElementOfSeq DEF Last
  <1>4. Last(s) \in Frame
    BY <1>3 DEF GoodFrame
  <1>5. \A o : Held(s, o) /\ Last(s).pc \in Locked => o[Last(s).inst] # None
    BY <1>2 DEF Held, Last
  <1> QED
    BY <1>1, <1>3, <1>4, <1>5

(***************************************************************************)
(* What the locked sections do to the database.                            *)
(***************************************************************************)

\* The structures of a protocol, as a list.
LEMMA ProtocolLinks ==
    ASSUME ListsOK, NEW p \in Protocol
    PROVE  /\ Links(byProtocol[p], {i \in Instance : of[i] = p})
           /\ ToSet(byProtocol[p]) = {i \in Instance : of[i] = p}
           /\ byProtocol[p] \in Seq(Instance)
           /\ None \notin {i \in Instance : of[i] = p}
           /\ p # None
  BY HandleAssumption DEF ListsOK, Links

\* A structure that is installed is on one handle.
LEMMA HandleOfInstalled ==
    ASSUME ListsOK, NEW i \in Instance, of[i] # None
    PROVE  /\ HandleOf(i) \in Handle /\ i \in On(HandleOf(i))
           /\ \A h \in Handle : i \in On(h) => h = HandleOf(i)
  <1>1. \E h \in Handle : i \in On(h)
    BY DEF ListsOK
  <1>2. HandleOf(i) \in Handle /\ i \in On(HandleOf(i))
    BY <1>1 DEF HandleOf
  <1> QED
    BY <1>2 DEF ListsOK

LEMMA HandleOfType ==
    ASSUME NEW i
    PROVE  HandleOf(i) \in Handle \cup {None}
  BY DEF HandleOf

\* Installing a structure: every registration for the protocol is signalled.
LEMMA InsertData ==
    ASSUME IInv, NEW h \in Handle, NEW p \in Protocol, NEW i \in Free, Insert(i, h, p),
           UNCHANGED registered
    PROVE  /\ ListsOK' /\ RegistrationsOK' /\ OpensOK' /\ OneDriver'
           /\ \A s : Shaped(s) /\ Held(s, of) => Held(s, of')
           /\ \A n \in Notify : unseen'[n] # {} => n \in signalled' \/ unseen'[n] = unseen[n]
           /\ signalled \subseteq signalled'
  <1> USE DEF IInv
  <1>1. i \in Instance /\ of[i] = None /\ p # None
    BY HandleAssumption DEF Free
  <1>2. /\ of' = [of EXCEPT ![i] = p] /\ of' \in [Instance -> Protocol \cup {None}]
        /\ of'[i] = p /\ \A j \in Instance : j # i => of'[j] = of[j]
    BY <1>1 DEF Insert, ListsOK
  <1>3. \A g \in Handle : i \notin On(g)
    BY <1>1 DEF ListsOK
  <1>4. ASSUME NEW q \in Protocol
        PROVE  /\ q = p => byProtocol'[q] = Append(byProtocol[q], i)
               /\ q # p => byProtocol'[q] = byProtocol[q]
               /\ Links(byProtocol'[q], {j \in Instance : of'[j] = q})
    <2>1. byProtocol'[q] = IF q = p THEN Append(byProtocol[q], i) ELSE byProtocol[q]
      BY DEF Insert, ListsOK
    <2>2. CASE q = p
      <3>1. {j \in Instance : of'[j] = q} = {j \in Instance : of[j] = q} \cup {i}
        BY <2>2, <1>1, <1>2
      <3>2. i \notin {j \in Instance : of[j] = q}
        BY <1>1, <2>2
      <3>3. Links(Append(byProtocol[q], i), {j \in Instance : of[j] = q} \cup {i})
        BY <3>2, <1>1, ProtocolLinks, TailLinks
      <3> QED
        BY <3>1, <3>3, <2>1, <2>2
    <2>3. CASE q # p
      <3>1. {j \in Instance : of'[j] = q} = {j \in Instance : of[j] = q}
        BY <2>3, <1>1, <1>2, HandleAssumption
      <3> QED
        BY <3>1, <2>1, <2>3, ProtocolLinks
    <2> QED
      BY <2>1, <2>2, <2>3
  <1>5. byProtocol' \in [Protocol -> Seq(Instance)]
    BY <1>4 DEF Links, Insert, ListsOK
  <1>6. ASSUME NEW g \in Handle
        PROVE  /\ protocols'[g] \in Seq(Instance)
               /\ Links(protocols'[g], On(g)')
               /\ On(g)' = IF g = h THEN On(g) \cup {i} ELSE On(g)
    <2>1. protocols'[g] = IF g = h THEN <<i>> \o protocols[g] ELSE protocols[g]
      BY DEF Insert, ListsOK
    <2>2. Links(protocols[g], On(g))
      BY DEF ListsOK
    <2>3. CASE g = h
      <3>1. Links(<<i>> \o protocols[g], On(g) \cup {i})
        BY <2>2, <1>1, <1>3, HeadLinks
      <3> QED
        BY <3>1, <2>1, <2>3 DEF Links, On
    <2>4. CASE g # h
      BY <2>1, <2>2, <2>4 DEF Links, On
    <2> QED
      BY <2>3, <2>4
  <1>7. protocols' \in [Handle -> Seq(Instance)]
    BY <1>6 DEF Insert, ListsOK
  <1>8. \A g \in Handle : \A j \in On(g)' : of'[j] # None
    <2> SUFFICES ASSUME NEW g \in Handle, NEW j \in On(g)'
                 PROVE  of'[j] # None
      OBVIOUS
    <2>1. j \in On(g)' /\ On(g)' \subseteq Instance
      BY <1>6, LenProperties, ElementOfSeq DEF Links, ToSet
    <2>2. j = i \/ (j \in On(g) /\ j # i)
      BY <2>1, <1>6
    <2> QED
      BY <2>1, <2>2, <1>1, <1>2 DEF ListsOK
  <1>9. \A j \in Instance : of'[j] # None => \E g \in Handle : j \in On(g)'
    <2> SUFFICES ASSUME NEW j \in Instance, of'[j] # None
                 PROVE  \E g \in Handle : j \in On(g)'
      OBVIOUS
    <2>1. CASE j = i
      BY <2>1, <1>6
    <2>2. CASE j # i
      <3>1. of[j] # None
        BY <2>2, <1>2
      <3>2. PICK g \in Handle : j \in On(g)
        BY <3>1 DEF ListsOK
      <3> QED
        BY <3>2, <1>6
    <2> QED
      BY <2>1, <2>2
  <1>10. \A g, k \in Handle : \A j \in On(g)' \cap On(k)' : g = k
    <2> SUFFICES ASSUME NEW g \in Handle, NEW k \in Handle, NEW j, j \in On(g)', j \in On(k)'
                 PROVE  g = k
      OBVIOUS
    <2>1. CASE j = i
      BY <2>1, <1>3, <1>6
    <2>2. CASE j # i
      <3>1. j \in On(g) /\ j \in On(k)
        BY <2>2, <1>6
      <3> QED
        BY <3>1 DEF ListsOK
    <2> QED
      BY <2>1, <2>2
  <1>11. ListsOK'
    <2>1. \A q \in Protocol : Links(byProtocol'[q], {j \in Instance : of'[j] = q})
      BY <1>4
    <2>2. \A g \in Handle : Links(protocols'[g], On(g)')
      BY <1>6
    <2> QED
      BY <2>1, <2>2, <1>2, <1>5, <1>7, <1>8, <1>9, <1>10 DEF ListsOK, Links, On
  <1>12. ASSUME NEW n \in Notify
         PROVE  /\ unseen'[n] = IF registered[n] = p THEN unseen[n] \cup {i} ELSE unseen[n]
                /\ registered[n] = p => n \in signalled'
    BY DEF Insert, New, Signal, Waiting
  <1>13. PositionIsExact'
    <2> SUFFICES ASSUME NEW n \in Notify, registered[n] # None
                 PROVE  /\ position[n] \in {None} \cup ToSet(byProtocol'[registered[n]])
                        /\ ToSet(After(byProtocol'[registered[n]], position[n])) = unseen'[n]
      BY DEF PositionIsExact, Ahead, Insert
    <2>1. PICK q \in Protocol : q = registered[n]
      BY DEF RegistrationsOK
    <2>2. /\ position[n] \in {None} \cup ToSet(byProtocol[q])
          /\ ToSet(After(byProtocol[q], position[n])) = unseen[n]
      BY <2>1 DEF RegistrationsOK, PositionIsExact, Ahead
    <2>3. CASE q # p
      BY <2>1, <2>2, <2>3, <1>4, <1>12
    <2>4. CASE q = p
      <3>1. PICK T : T = {j \in Instance : of[j] = q}
        OBVIOUS
      <3>2. Links(byProtocol[q], T) /\ position[n] \in T \cup {None} /\ i \notin T
        BY <3>1, <2>2, <1>1, ProtocolLinks
      <3>3. ToSet(After(Append(byProtocol[q], i), position[n]))
                = ToSet(After(byProtocol[q], position[n])) \cup {i}
        BY <3>2, <1>1, AfterTail
      <3>4. ToSet(Append(byProtocol[q], i)) = T \cup {i}
        BY <3>2, <1>1, TailLinks DEF Links
      <3> QED
        BY <3>2, <3>3, <3>4, <2>1, <2>2, <2>4, <1>4, <1>12
    <2> QED
      BY <2>3, <2>4
  <1>14. RegistrationsOK'
    <2>0. \A n \in Notify : unseen[n] \subseteq Instance
      BY DEF RegistrationsOK
    <2>1. \A n \in Notify : unseen'[n] \subseteq Instance
      BY <2>0, <1>1, <1>12
    <2>2. unseen' \in [Notify -> SUBSET Instance]
      BY <2>1 DEF Insert, New
    <2>3. signalled' \subseteq Notify
      BY DEF Insert, Signal, Waiting, RegistrationsOK
    <2>4. \A n \in Notify : registered'[n] = None => unseen'[n] = {}
      BY <1>1, <1>12 DEF RegistrationsOK
    <2> QED
      BY <2>2, <2>3, <2>4, <1>13 DEF RegistrationsOK, Insert
  <1>15. OpensOK' /\ OneDriver'
    <2>1. /\ open' \in [Instance -> SUBSET Opener]
          /\ \A j \in Instance : open'[j] = IF j = i THEN {} ELSE open[j]
      BY DEF Insert, OpensOK
    <2>2. \A j \in Instance : Drives(j)' \subseteq Drives(j)
      BY <2>1 DEF Drives
    <2> QED
      BY <2>1, <2>2 DEF OpensOK, OneDriver
  <1>16. \A s : Shaped(s) /\ Held(s, of) => Held(s, of')
    <2> SUFFICES ASSUME NEW s, Shaped(s), Held(s, of), NEW k \in 1 .. Len(s), s[k].pc \in Locked
                 PROVE  of'[s[k].inst] # None
      BY DEF Held
    <2>1. s[k] \in GoodFrame
      BY ElementOfSeq DEF Shaped
    <2>2. s[k].inst \in Instance /\ of[s[k].inst] # None
      BY <2>1 DEF GoodFrame, Frame, Held
    <2> QED
      BY <2>2, <1>1, <1>2
  <1>17. signalled \subseteq signalled'
    BY DEF Insert, Signal
  <1> QED
    BY <1>11, <1>12, <1>14, <1>15, <1>16, <1>17

\* Backing up: what the registrations have still to locate, but for the
\* structure taken off.
LEMMA BackedUp ==
    ASSUME IInv, NEW i \in Instance, of[i] # None, BackUp(i),
           NEW n \in Notify, registered[n] # None
    PROVE  LET T == {j \in Instance : of[j] = registered[n]}
           IN  /\ registered[n] = of[i] =>
                      /\ position'[n] \in (T \ {i}) \cup {None}
                      /\ ToSet(After(Unlinked(byProtocol[of[i]], i), position'[n])) = unseen[n] \ {i}
               /\ registered[n] # of[i] => position'[n] = position[n] /\ i \notin unseen[n]
  <1> USE DEF IInv
  <1>1. PICK q \in Protocol, p \in Protocol : q = registered[n] /\ p = of[i]
    BY DEF RegistrationsOK, ListsOK
  <1>2. PICK T : T = {j \in Instance : of[j] = q}
    OBVIOUS
  <1>3. /\ Links(byProtocol[q], T) /\ position[n] \in T \cup {None} /\ None \notin T
        /\ ToSet(After(byProtocol[q], position[n])) = unseen[n]
    <2>1. /\ position[n] \in {None} \cup ToSet(byProtocol[q])
          /\ ToSet(After(byProtocol[q], position[n])) = unseen[n]
      BY <1>1 DEF RegistrationsOK, PositionIsExact, Ahead
    <2> QED
      BY <2>1, <1>2, ProtocolLinks
  <1>4. position'[n] = IF position[n] = i THEN Before(byProtocol[p], i) ELSE position[n]
    BY <1>1 DEF BackUp, Before
  <1>5. CASE q = p
    <2>1. i \in T
      BY <1>1, <1>2, <1>5
    <2>2. PICK y : y = position'[n]
      OBVIOUS
    <2>3. y = IF position[n] = i THEN Before(byProtocol[q], i) ELSE position[n]
      BY <2>2, <1>4, <1>5
    <2>4. /\ y \in (T \ {i}) \cup {None}
          /\ ToSet(After(Unlinked(byProtocol[q], i), y))
                 = ToSet(After(byProtocol[q], position[n])) \ {i}
      BY <2>1, <2>3, <1>3, AfterUnlinked
    <2> QED
      BY <2>2, <2>4, <1>1, <1>2, <1>3, <1>5
  <1>6. CASE q # p
    <2>1. i \notin T /\ i # None
      BY <1>1, <1>2, <1>6, HandleAssumption
    <2>2. position'[n] = position[n]
      BY <2>1, <1>3, <1>4
    <2>3. unseen[n] \subseteq T
      <3>1. PICK s, x, m : s = byProtocol[q] /\ x = position[n] /\ m = Place(s, x)
        OBVIOUS
      <3>2. Links(s, T) /\ x \in T \cup {None} /\ unseen[n] = ToSet(After(s, x))
        BY <1>3, <3>1
      <3>3. m \in Nat /\ unseen[n] = {s[j] : j \in m + 1 .. Len(s)}
        <4>1. /\ Place(s, x) \in 0 .. Len(s)
              /\ ToSet(After(s, x)) = {s[j] : j \in Place(s, x) + 1 .. Len(s)}
          BY <3>2, AfterNodes
        <4>2. Len(s) \in Nat
          BY <3>2, LenProperties DEF Links
        <4> QED
          BY <3>1, <3>2, <4>1, <4>2
      <3>4. ToSet(s) = T /\ Len(s) \in Nat /\ DOMAIN s = 1 .. Len(s)
        BY <3>2, LenProperties DEF Links
      <3>5. \A j \in m + 1 .. Len(s) : s[j] \in T
        BY <3>3, <3>4 DEF ToSet
      <3> QED
        BY <3>3, <3>5
    <2> QED
      BY <2>1, <2>2, <2>3, <1>1, <1>6
  <1> QED
    BY <1>5, <1>6

\* The position a registration is backed up to.
LEMMA BackedUpType ==
    ASSUME IInv, NEW i \in Instance, of[i] # None, BackUp(i)
    PROVE  position' \in [Notify -> Instance \cup {None}]
  <1> USE DEF IInv
  <1>1. PICK p \in Protocol : p = of[i]
    BY DEF ListsOK
  <1>2. PICK T : T = {j \in Instance : of[j] = p}
    OBVIOUS
  <1>3. Links(byProtocol[p], T) /\ None \notin T /\ i \in T
    BY <1>1, <1>2, ProtocolLinks
  <1>4. PICK y : y = Before(byProtocol[p], i)
    OBVIOUS
  <1>5. y \in (T \ {i}) \cup {None}
    <2>1. i \in T \cup {None} /\ y = IF i = i THEN Before(byProtocol[p], i) ELSE i
      BY <1>3, <1>4
    <2> QED
      BY <2>1, <1>3, AfterUnlinked
  <1>6. Before(byProtocol[p], i) \in Instance \cup {None}
    BY <1>2, <1>4, <1>5
  <1>7. position' = [n \in Notify |-> IF position[n] = i THEN Before(byProtocol[p], i)
                                      ELSE position[n]]
    BY <1>1 DEF BackUp, Before
  <1> QED
    BY <1>6, <1>7 DEF RegistrationsOK

\* Taking a structure off both lists.
LEMMA DeleteData ==
    ASSUME IInv, NEW i \in Instance, of[i] # None, Delete(i), UNCHANGED <<registered, signalled>>
    PROVE  /\ ListsOK' /\ RegistrationsOK' /\ OpensOK' /\ OneDriver'
           /\ \A j \in Instance : j # i => of'[j] = of[j]
           /\ \A n \in Notify : unseen'[n] # {} => unseen[n] # {}
  <1> USE DEF IInv
  <1>1. PICK p \in Protocol : p = of[i] /\ p # None /\ i # None
    BY HandleAssumption DEF ListsOK
  <1>2. PICK h \in Handle : h = HandleOf(i) /\ i \in On(h) /\ \A g \in Handle : i \in On(g) => g = h
    BY HandleOfInstalled
  <1>3. /\ of' \in [Instance -> Protocol \cup {None}]
        /\ of'[i] = None /\ \A j \in Instance : j # i => of'[j] = of[j]
    BY DEF Delete, ListsOK
  <1>4. ASSUME NEW q \in Protocol
        PROVE  /\ byProtocol'[q] = IF q = p THEN Unlinked(byProtocol[q], i) ELSE byProtocol[q]
               /\ Links(byProtocol'[q], {j \in Instance : of'[j] = q})
    <2>1. byProtocol'[q] = IF q = p THEN Unlinked(byProtocol[q], i) ELSE byProtocol[q]
      BY <1>1 DEF Delete, ListsOK
    <2>2. CASE q = p
      <3>1. {j \in Instance : of'[j] = q} = {j \in Instance : of[j] = q} \ {i}
        BY <2>2, <1>1, <1>3
      <3>2. i \in {j \in Instance : of[j] = q}
        BY <1>1, <2>2
      <3>3. Links(Unlinked(byProtocol[q], i), {j \in Instance : of[j] = q} \ {i})
        BY <3>2, ProtocolLinks, UnlinkedLinks
      <3> QED
        BY <3>1, <3>3, <2>1, <2>2
    <2>3. CASE q # p
      <3>1. {j \in Instance : of'[j] = q} = {j \in Instance : of[j] = q}
        BY <2>3, <1>1, <1>3, HandleAssumption
      <3> QED
        BY <3>1, <2>1, <2>3, ProtocolLinks
    <2> QED
      BY <2>1, <2>2, <2>3
  <1>5. byProtocol' \in [Protocol -> Seq(Instance)]
    BY <1>4 DEF Links, Delete, ListsOK
  <1>6. ASSUME NEW g \in Handle
        PROVE  /\ protocols'[g] \in Seq(Instance)
               /\ Links(protocols'[g], On(g)')
               /\ On(g)' = On(g) \ {i}
    <2>1. protocols'[g] = IF g = h THEN Unlinked(protocols[g], i) ELSE protocols[g]
      BY <1>2 DEF Delete, ListsOK
    <2>2. Links(protocols[g], On(g))
      BY DEF ListsOK
    <2>3. CASE g = h
      <3>1. Links(Unlinked(protocols[g], i), On(g) \ {i})
        BY <2>2, <2>3, <1>2, UnlinkedLinks
      <3> QED
        BY <3>1, <2>1, <2>3 DEF Links, On
    <2>4. CASE g # h
      <3>1. On(g) \ {i} = On(g)
        BY <2>4, <1>2
      <3> QED
        BY <3>1, <2>1, <2>2, <2>4 DEF Links, On
    <2> QED
      BY <2>3, <2>4
  <1>7. protocols' \in [Handle -> Seq(Instance)]
    BY <1>6 DEF Delete, ListsOK
  <1>a. \A g \in Handle : On(g)' = On(g) \ {i}
    BY <1>6
  <1>8. \A g \in Handle : \A j \in On(g)' : of'[j] # None
    <2> SUFFICES ASSUME NEW g \in Handle, NEW j \in On(g)'
                 PROVE  of'[j] # None
      OBVIOUS
    <2>1. j \in On(g) /\ j # i
      BY <1>a
    <2>2. j \in Instance
      BY <2>1, LenProperties, ElementOfSeq DEF Links, ToSet, ListsOK
    <2> QED
      BY <2>1, <2>2, <1>3 DEF ListsOK
  <1>9. \A j \in Instance : of'[j] # None => \E g \in Handle : j \in On(g)'
    <2> SUFFICES ASSUME NEW j \in Instance, of'[j] # None
                 PROVE  \E g \in Handle : j \in On(g)'
      OBVIOUS
    <2>1. j # i /\ of[j] # None
      BY <1>3
    <2>2. PICK g \in Handle : j \in On(g)
      BY <2>1 DEF ListsOK
    <2> QED
      BY <2>1, <2>2, <1>a
  <1>10. \A g, k \in Handle : \A j \in On(g)' \cap On(k)' : g = k
    <2> SUFFICES ASSUME NEW g \in Handle, NEW k \in Handle, NEW j, j \in On(g)', j \in On(k)'
                 PROVE  g = k
      OBVIOUS
    <2>1. j \in On(g) /\ j \in On(k)
      BY <1>a
    <2> QED
      BY <2>1 DEF ListsOK
  <1>11. ListsOK'
    <2>1. \A q \in Protocol : Links(byProtocol'[q], {j \in Instance : of'[j] = q})
      BY <1>4
    <2>2. \A g \in Handle : Links(protocols'[g], On(g)')
      BY <1>6
    <2> QED
      BY <2>1, <2>2, <1>3, <1>5, <1>7, <1>8, <1>9, <1>10 DEF ListsOK, Links, On
  <1>12. \A n \in Notify : unseen'[n] = unseen[n] \ {i}
    BY DEF Delete
  <1>13. PositionIsExact'
    <2> SUFFICES ASSUME NEW n \in Notify, registered[n] # None
                 PROVE  /\ position'[n] \in {None} \cup ToSet(byProtocol'[registered[n]])
                        /\ ToSet(After(byProtocol'[registered[n]], position'[n])) = unseen'[n]
      BY DEF PositionIsExact, Ahead
    <2>1. PICK q \in Protocol : q = registered[n]
      BY DEF RegistrationsOK
    <2>2. PICK T : T = {j \in Instance : of[j] = q}
      OBVIOUS
    <2>3. BackUp(i)
      BY DEF Delete
    <2>4. CASE q = p
      <3>1. /\ position'[n] \in (T \ {i}) \cup {None}
            /\ ToSet(After(Unlinked(byProtocol[p], i), position'[n])) = unseen[n] \ {i}
        BY <2>1, <2>2, <2>3, <2>4, <1>1, BackedUp
      <3>2. byProtocol'[q] = Unlinked(byProtocol[p], i)
        BY <2>4, <1>4
      <3>3. ToSet(byProtocol'[q]) = T \ {i}
        <4>1. i \in T /\ Links(byProtocol[p], T)
          BY <2>2, <2>4, <1>1, ProtocolLinks
        <4> QED
          BY <4>1, <3>2, UnlinkedLinks DEF Links
      <3> QED
        BY <3>1, <3>2, <3>3, <2>1, <1>12
    <2>5. CASE q # p
      <3>1. position'[n] = position[n] /\ i \notin unseen[n]
        BY <2>1, <2>3, <2>5, <1>1, BackedUp
      <3>2. byProtocol'[q] = byProtocol[q]
        BY <2>5, <1>4
      <3>3. /\ position[n] \in {None} \cup ToSet(byProtocol[q])
            /\ ToSet(After(byProtocol[q], position[n])) = unseen[n]
        BY <2>1 DEF RegistrationsOK, PositionIsExact, Ahead
      <3>4. unseen'[n] = unseen[n]
        BY <3>1, <1>12
      <3> QED
        BY <3>1, <3>2, <3>3, <3>4, <2>1
    <2> QED
      BY <2>4, <2>5
  <1>14. RegistrationsOK'
    <2>1. position' \in [Notify -> Instance \cup {None}]
      BY BackedUpType DEF Delete
    <2>2. unseen' \in [Notify -> SUBSET Instance]
      BY <1>12 DEF Delete, RegistrationsOK
    <2> QED
      BY <2>1, <2>2, <1>12, <1>13 DEF RegistrationsOK
  <1>15. OpensOK' /\ OneDriver'
    <2>1. /\ open' \in [Instance -> SUBSET Opener]
          /\ \A j \in Instance : open'[j] = IF j = i THEN {} ELSE open[j]
      BY DEF Delete, OpensOK
    <2>2. \A j \in Instance : Drives(j)' \subseteq Drives(j)
      BY <2>1 DEF Drives
    <2> QED
      BY <2>1, <2>2 DEF OpensOK, OneDriver
  <1>16. \A n \in Notify : unseen'[n] # {} => unseen[n] # {}
    BY <1>12
  <1> QED
    BY <1>3, <1>11, <1>14, <1>15, <1>16

\* A new interface in the place of the old one: to be located once more.
LEMMA RenewData ==
    ASSUME IInv, NEW i \in Instance, of[i] # None, Renew(i), UNCHANGED <<registered, signalled>>
    PROVE  /\ ListsOK' /\ RegistrationsOK' /\ OpensOK' /\ OneDriver'
           /\ \A n \in Notify : unseen'[n] # {} => registered[n] = of[i] \/ unseen'[n] = unseen[n]
  <1> USE DEF IInv
  <1>1. PICK p \in Protocol : p = of[i] /\ p # None /\ i # None
    BY HandleAssumption DEF ListsOK
  <1>2. PICK T : T = {j \in Instance : of[j] = p}
    OBVIOUS
  <1>3. i \in T /\ Links(byProtocol[p], T)
    BY <1>1, <1>2, ProtocolLinks
  <1>4. PICK s : s = Unlinked(byProtocol[p], i)
    OBVIOUS
  <1>5. Links(s, T \ {i})
    BY <1>3, <1>4, UnlinkedLinks
  <1>6. Links(Append(s, i), T)
    <2>1. Links(Append(s, i), (T \ {i}) \cup {i})
      BY <1>5, TailLinks
    <2>2. (T \ {i}) \cup {i} = T
      BY <1>3
    <2> QED
      BY <2>1, <2>2
  <1>7. ASSUME NEW q \in Protocol
        PROVE  /\ byProtocol'[q] = IF q = p THEN Append(s, i) ELSE byProtocol[q]
               /\ Links(byProtocol'[q], {j \in Instance : of[j] = q})
    <2>1. byProtocol'[q] = IF q = p THEN Append(s, i) ELSE byProtocol[q]
      BY <1>1, <1>4 DEF Renew, ListsOK
    <2> QED
      BY <2>1, <1>2, <1>6, ProtocolLinks
  <1>8. ListsOK'
    <2>1. byProtocol' \in [Protocol -> Seq(Instance)]
      BY <1>7 DEF Links, Renew, ListsOK
    <2>2. \A q \in Protocol : Links(byProtocol'[q], {j \in Instance : of[j] = q})
      BY <1>7
    <2>3. of' = of /\ protocols' = protocols
      BY DEF Renew
    <2> QED
      BY <2>1, <2>2, <2>3 DEF ListsOK, Links, On
  <1>9. \A n \in Notify : unseen'[n] = IF registered[n] = p THEN unseen[n] \cup {i} ELSE unseen[n]
    BY <1>1 DEF Renew, New
  <1>10. PositionIsExact'
    <2> SUFFICES ASSUME NEW n \in Notify, registered[n] # None
                 PROVE  /\ position'[n] \in {None} \cup ToSet(byProtocol'[registered[n]])
                        /\ ToSet(After(byProtocol'[registered[n]], position'[n])) = unseen'[n]
      BY DEF PositionIsExact, Ahead
    <2>1. PICK q \in Protocol : q = registered[n]
      BY DEF RegistrationsOK
    <2>2. BackUp(i)
      BY DEF Renew
    <2>3. CASE q = p
      <3>1. /\ position'[n] \in (T \ {i}) \cup {None}
            /\ ToSet(After(s, position'[n])) = unseen[n] \ {i}
        BY <2>1, <2>2, <2>3, <1>1, <1>2, <1>4, BackedUp
      <3>2. ToSet(After(Append(s, i), position'[n])) = (unseen[n] \ {i}) \cup {i}
        <4>1. PICK U : U = T \ {i}
          OBVIOUS
        <4>2. Links(s, U) /\ position'[n] \in U \cup {None} /\ i \notin U
          BY <4>1, <3>1, <1>5
        <4>3. PICK y : y = position'[n]
          OBVIOUS
        <4>4. ToSet(After(Append(s, i), y)) = ToSet(After(s, y)) \cup {i}
          BY <4>2, <4>3, AfterTail
        <4> QED
          BY <4>3, <4>4, <3>1
      <3>3. byProtocol'[q] = Append(s, i) /\ ToSet(byProtocol'[q]) = T
        BY <2>3, <1>6, <1>7 DEF Links
      <3>4. unseen'[n] = (unseen[n] \ {i}) \cup {i}
        BY <2>1, <2>3, <1>9
      <3> QED
        BY <3>1, <3>2, <3>3, <3>4, <2>1
    <2>4. CASE q # p
      <3>1. position'[n] = position[n] /\ i \notin unseen[n]
        BY <2>1, <2>2, <2>4, <1>1, BackedUp
      <3>2. byProtocol'[q] = byProtocol[q] /\ unseen'[n] = unseen[n]
        BY <2>1, <2>4, <1>7, <1>9
      <3>3. /\ position[n] \in {None} \cup ToSet(byProtocol[q])
            /\ ToSet(After(byProtocol[q], position[n])) = unseen[n]
        BY <2>1 DEF RegistrationsOK, PositionIsExact, Ahead
      <3> QED
        BY <3>1, <3>2, <3>3, <2>1
    <2> QED
      BY <2>3, <2>4
  <1>11. RegistrationsOK'
    <2>1. position' \in [Notify -> Instance \cup {None}]
      BY BackedUpType DEF Renew
    <2>2. \A n \in Notify : unseen[n] \subseteq Instance
      BY DEF RegistrationsOK
    <2>3. unseen' \in [Notify -> SUBSET Instance]
      BY <2>2, <1>9 DEF Renew, New
    <2>4. \A n \in Notify : registered[n] = None => unseen'[n] = {}
      BY <1>1, <1>9 DEF RegistrationsOK
    <2> QED
      BY <2>1, <2>3, <2>4, <1>10 DEF RegistrationsOK
  <1>12. OpensOK' /\ OneDriver'
    <2>1. /\ open' \in [Instance -> SUBSET Opener]
          /\ \A j \in Instance : open'[j] = IF j = i THEN {} ELSE open[j]
      BY DEF Renew, OpensOK
    <2>2. \A j \in Instance : Drives(j)' \subseteq Drives(j)
      BY <2>1 DEF Drives
    <2> QED
      BY <2>1, <2>2 DEF OpensOK, OneDriver
  <1>13. \A n \in Notify : unseen'[n] # {} => registered[n] = of[i] \/ unseen'[n] = unseen[n]
    BY <1>1, <1>9
  <1> QED
    BY <1>8, <1>11, <1>12, <1>13

(***************************************************************************)
(* What the steps change.                                                  *)
(***************************************************************************)

\* The database and the registrations as they were.
LEMMA SameDatabase ==
    ASSUME IInv, UNCHANGED <<database, registered>>, signalled' \subseteq Notify
    PROVE  ListsOK' /\ RegistrationsOK'
  BY DEF IInv, database, ListsOK, RegistrationsOK, PositionIsExact, Ahead, On

\* Nothing is opened.
LEMMA FewerOpens ==
    ASSUME IInv, open' \in [Instance -> SUBSET Opener],
           \A i \in Instance : open'[i] \subseteq open[i]
    PROVE  OpensOK' /\ OneDriver'
  <1>1. \A i \in Instance : Drives(i)' \subseteq Drives(i)
    BY DEF Drives
  <1> QED
    BY <1>1 DEF IInv, OpensOK, OneDriver

LEMMA SameOpens ==
    ASSUME IInv, UNCHANGED open
    PROVE  OpensOK' /\ OneDriver'
  BY FewerOpens DEF IInv, OpensOK

\* A driver opens what no driver manages.
LEMMA MoreOpens ==
    ASSUME IInv, NEW i, NEW a \in Driver \cup Application \cup {Core}, NEW attr \in Attributes,
           Opens(i, a, attr), "driver" \in attr => a \in Driver /\ Drives(i) = {}
    PROVE  OpensOK' /\ OneDriver'
  <1> USE DEF IInv
  <1>1. PICK o \in Opener : o = [agent |-> a, attr |-> attr]
    BY DEF Opener
  <1>2. /\ open' \in [Instance -> SUBSET Opener]
        /\ \A j \in Instance : open'[j] = IF j = i THEN open[j] \cup {o} ELSE open[j]
    BY <1>1 DEF Opens, OpensOK
  <1>3. ASSUME NEW j \in Instance
        PROVE  Drives(j)' = IF j = i /\ "driver" \in attr THEN Drives(j) \cup {o} ELSE Drives(j)
    BY <1>1, <1>2 DEF Drives
  <1>4. \A j \in Instance : \A x \in Drives(j)' : x.agent \in Driver
    BY <1>1, <1>3 DEF OpensOK
  <1>5. \A j \in Instance : \A x, y \in Drives(j)' : x = y
    BY <1>3 DEF OneDriver
  <1> QED
    BY <1>2, <1>4, <1>5 DEF OpensOK, OneDriver

\* What a stack keeps for the registrations.
Keeps(s, r) == \A n, p : Telling(s, n, p) => Telling(r, n, p)

\* A call.
LEMMA PushStep ==
    ASSUME IInv, NEW f \in GoodFrame, Push(f), f.pc # "boot",
           f.pc \in Locked => of[f.inst] # None,
           f.pc \in {"disconnect", "reinstall"} => ~ Busy(f.inst)
    PROVE  Shaped(stack') /\ Held(stack', of) /\ Keeps(stack, stack')
  <1>1. Shaped(stack) /\ Held(stack, of) /\ DOMAIN stack = 1 .. Len(stack)
    BY TopFrame DEF IInv, StackOK
  <1>2. f.pc \in {"disconnect", "reinstall"} => \A k \in 1 .. Len(stack) : stack[k].inst # f.inst
    BY <1>1 DEF Busy
  <1>3. stack' = Append(stack, f)
    BY DEF Push
  <1> QED
    BY <1>1, <1>2, <1>3, PushFrame DEF Keeps

\* A return, of a call that tells nobody.
LEMMA PopStep ==
    ASSUME IInv, Pop, Top.pc \notin {"boot", "notify", "tell"}
    PROVE  Shaped(stack') /\ Held(stack', of) /\ Keeps(stack, stack')
  BY PopFrame DEF IInv, StackOK, Pop, Top, Keeps

\* A call goes on, as one that tells nobody either.
LEMMA ReplaceStep ==
    ASSUME IInv, Top.pc \notin {"boot", "notify", "tell"},
           NEW f \in GoodFrame, Replace(f), f.pc \notin Locked \cup {"boot"}
    PROVE  Shaped(stack') /\ Held(stack', of) /\ Keeps(stack, stack')
  <1>1. PICK r : r = Front(stack)
    OBVIOUS
  <1>2. Shaped(r) /\ Held(r, of) /\ Keeps(stack, r)
    BY <1>1, PopFrame DEF IInv, StackOK, Top, Keeps
  <1>3. Shaped(Append(r, f)) /\ Held(Append(r, f), of) /\ Keeps(r, Append(r, f))
    BY <1>2, PushFrame DEF Locked, Keeps
  <1>4. stack' = Append(r, f)
    BY <1>1 DEF Replace
  <1> QED
    BY <1>2, <1>3, <1>4 DEF Keeps

\* Frames of the services.
LEMMA Frames ==
    ASSUME NEW h \in Handle \cup {None}
    PROVE  /\ [NoCall EXCEPT !.pc = "start", !.han = h] \in GoodFrame
           /\ \A p \in Protocol : [NoCall EXCEPT !.pc = "tell", !.prot = p] \in GoodFrame
           /\ \A i \in Instance : i # None =>
                  /\ [NoCall EXCEPT !.pc = "disconnect", !.inst = i] \in GoodFrame
                  /\ [NoCall EXCEPT !.pc = "reinstall", !.inst = i] \in GoodFrame
           /\ \A d \in Driver : [NoCall EXCEPT !.pc = "check", !.han = h, !.agent = d] \in GoodFrame
           /\ \A n \in Notify \cup {None} :
                  [NoCall EXCEPT !.pc = "notify", !.agent = n] \in GoodFrame
           /\ \A p \in Protocol : h # None =>
                  [NoCall EXCEPT !.pc = "add", !.han = h, !.prot = p] \in GoodFrame
  <1> USE DEF GoodFrame, Frame, NoCall, Client, Locked
  <1>1. [NoCall EXCEPT !.pc = "start", !.han = h] \in GoodFrame
    OBVIOUS
  <1>2. \A p \in Protocol : [NoCall EXCEPT !.pc = "tell", !.prot = p] \in GoodFrame
    OBVIOUS
  <1>3. \A i \in Instance : i # None =>
            /\ [NoCall EXCEPT !.pc = "disconnect", !.inst = i] \in GoodFrame
            /\ [NoCall EXCEPT !.pc = "reinstall", !.inst = i] \in GoodFrame
    OBVIOUS
  <1>4. \A d \in Driver : [NoCall EXCEPT !.pc = "check", !.han = h, !.agent = d] \in GoodFrame
    OBVIOUS
  <1>5. \A n \in Notify \cup {None} : [NoCall EXCEPT !.pc = "notify", !.agent = n] \in GoodFrame
    OBVIOUS
  <1>6. \A p \in Protocol : h # None =>
            [NoCall EXCEPT !.pc = "add", !.han = h, !.prot = p] \in GoodFrame
    OBVIOUS
  <1> QED
    BY <1>1, <1>2, <1>3, <1>4, <1>5, <1>6

\* CoreDisconnectController returns an error to its caller.
LEMMA FailsStep ==
    ASSUME IInv, Top.pc \in {"check", "stop"}, Fails
    PROVE  Shaped(stack') /\ Held(stack', of) /\ Keeps(stack, stack')
  <1>1. PICK r : r = Front(stack)
    OBVIOUS
  <1>2. Shaped(r) /\ Held(r, of) /\ Keeps(stack, r)
    BY <1>1, PopFrame DEF IInv, StackOK, Top, Keeps
  <1>3. CASE Last(r).pc = "open"
    <2>1. Shaped(Front(r)) /\ Held(Front(r), of) /\ Keeps(r, Front(r))
      BY <1>2, <1>3, PopFrame DEF Keeps
    <2>2. stack' = Front(r)
      BY <1>1, <1>3 DEF Fails
    <2> QED
      BY <1>2, <2>1, <2>2 DEF Keeps
  <1>4. CASE Last(r).pc \in Locked /\ Last(r).pc # "open"
    <2>1. PICK t : t = Front(r)
      OBVIOUS
    <2>2. Shaped(t) /\ Held(t, of) /\ Keeps(r, t)
      BY <2>1, <1>2, <1>4, PopFrame DEF Keeps, Locked
    <2>a. PICK h \in Handle \cup {None} : h = HandleOf(Last(r).inst)
      BY HandleOfType
    <2>b. PICK f : f = [NoCall EXCEPT !.pc = "start", !.han = h]
      OBVIOUS
    <2>3. f \in GoodFrame /\ f.pc = "start"
      BY <2>b, Frames DEF NoCall
    <2>4. Shaped(Append(t, f)) /\ Held(Append(t, f), of) /\ Keeps(t, Append(t, f))
      BY <2>2, <2>3, PushFrame DEF Locked, Keeps
    <2>5. stack' = Append(t, f)
      BY <1>1, <1>4, <2>1, <2>a, <2>b DEF Fails
    <2> QED
      BY <1>2, <2>2, <2>4, <2>5 DEF Keeps
  <1>5. CASE Last(r).pc \notin Locked
    <2>1. stack' = r
      BY <1>1, <1>5 DEF Fails, Locked
    <2> QED
      BY <1>2, <2>1
  <1> QED
    BY <1>3, <1>4, <1>5

\* A step that leaves the database alone and keeps telling who was told.
LEMMA QuietStep ==
    ASSUME IInv, UNCHANGED <<database, registered>>, OpensOK', OneDriver', calls' \in Nat,
           Shaped(stack'), Held(stack', of), Keeps(stack, stack'),
           signalled' \subseteq Notify,
           \A n \in signalled : n \in signalled' \/ Telling(stack', n, registered[n])
    PROVE  IInv'
  <1>1. ListsOK' /\ RegistrationsOK'
    BY SameDatabase
  <1>2. StackOK'
    BY DEF StackOK, Shaped, Held, database
  <1>3. Noticed'
    <2> SUFFICES ASSUME NEW n \in Notify, unseen[n] # {}
                 PROVE  n \in signalled' \/ Telling(stack', n, registered[n])
      BY DEF Noticed, Telling, database
    <2>1. n \in signalled \/ Telling(stack, n, registered[n])
      BY DEF IInv, Noticed
    <2> QED
      BY <2>1 DEF Keeps
  <1> QED
    BY <1>1, <1>2, <1>3 DEF IInv

(***************************************************************************)
(* Every step keeps the invariant.                                         *)
(***************************************************************************)

LEMMA CallType ==
    ASSUME IInv, Call
    PROVE  calls' \in Nat
  BY DEF IInv, StackOK, Call

\* A call that only pushes a frame.
LEMMA CallStep ==
    ASSUME IInv, UNCHANGED <<database, open, registered>>, calls' \in Nat,
           NEW f \in GoodFrame, Push(f), f.pc # "boot",
           f.pc \in Locked => of[f.inst] # None,
           f.pc \in {"disconnect", "reinstall"} => ~ Busy(f.inst),
           UNCHANGED signalled
    PROVE  IInv'
  <1>1. Shaped(stack') /\ Held(stack', of) /\ Keeps(stack, stack')
    BY PushStep
  <1>2. signalled' \subseteq Notify
    BY DEF IInv, RegistrationsOK
  <1> QED
    BY <1>1, <1>2, SameOpens, QuietStep

LEMMA InstallChecksStep ==
    ASSUME IInv, NEW h \in Handle, NEW p \in Protocol, InstallChecks(h, p)
    PROVE  IInv'
  <1>1. UNCHANGED <<database, registered, signalled>> /\ calls' \in Nat
    BY CallType DEF InstallChecks
  <1>2. CASE Get(h, p) # <<>>
    <2>1. Opens(Head(Get(h, p)), Core, {"get"}) /\ UNCHANGED stack
      BY <1>2 DEF InstallChecks
    <2>2. {"get"} \in Attributes /\ "driver" \notin {"get"}
      BY DEF Attributes
    <2>3. OpensOK' /\ OneDriver'
      BY <2>1, <2>2, MoreOpens
    <2>4. Shaped(stack') /\ Held(stack', of) /\ Keeps(stack, stack') /\ signalled' \subseteq Notify
      BY <1>1, <2>1 DEF IInv, StackOK, Keeps, RegistrationsOK
    <2> QED
      BY <1>1, <2>3, <2>4, QuietStep
  <1>3. CASE Get(h, p) = <<>>
    <2>1. PICK f : f = [NoCall EXCEPT !.pc = "add", !.han = h, !.prot = p]
      OBVIOUS
    <2>2. f \in GoodFrame /\ f.pc = "add"
      BY <2>1, HandleAssumption, Frames DEF NoCall
    <2>3. Push(f) /\ UNCHANGED open
      BY <2>1, <1>3 DEF InstallChecks
    <2> QED
      BY <2>2, <2>3, <1>1, CallStep DEF Locked
  <1> QED
    BY <1>2, <1>3

\* A structure is added: whoever waits for it is signalled.
LEMMA InsertStep ==
    ASSUME IInv, NEW h \in Handle, NEW p \in Protocol, NEW i \in Free, Insert(i, h, p),
           UNCHANGED registered, calls' \in Nat,
           Shaped(stack'), Held(stack', of), Keeps(stack, stack')
    PROVE  IInv'
  <1>1. /\ ListsOK' /\ RegistrationsOK' /\ OpensOK' /\ OneDriver'
        /\ \A s : Shaped(s) /\ Held(s, of) => Held(s, of')
        /\ \A n \in Notify : unseen'[n] # {} => n \in signalled' \/ unseen'[n] = unseen[n]
        /\ signalled \subseteq signalled'
    BY InsertData
  <1>2. StackOK'
    BY <1>1 DEF StackOK, Shaped, Held
  <1>3. Noticed'
    <2> SUFFICES ASSUME NEW n \in Notify, unseen'[n] # {}, n \notin signalled'
                 PROVE  Telling(stack', n, registered[n])
      BY DEF Noticed, Telling
    <2>1. Telling(stack, n, registered[n])
      BY <1>1 DEF IInv, Noticed
    <2> QED
      BY <2>1 DEF Keeps
  <1> QED
    BY <1>1, <1>2, <1>3 DEF IInv

LEMMA InstallAddsStep ==
    ASSUME IInv, InstallAdds
    PROVE  IInv'
  <1>1. Top \in GoodFrame /\ Top.pc = "add"
    BY TopFrame DEF IInv, StackOK, InstallAdds, Top
  <1>2. Top.han \in Handle /\ Top.prot \in Protocol
    BY <1>1 DEF GoodFrame
  <1>3. Shaped(stack') /\ Held(stack', of) /\ Keeps(stack, stack')
    BY <1>1, PopStep DEF InstallAdds
  <1>4. calls' \in Nat /\ UNCHANGED registered
    BY DEF IInv, StackOK, InstallAdds
  <1>5. CASE UNCHANGED <<database, open, signalled>>
    <2>1. signalled' \subseteq Notify
      BY <1>5 DEF IInv, RegistrationsOK
    <2> QED
      BY <2>1, <1>3, <1>4, <1>5, SameOpens, QuietStep
  <1>6. CASE \E i \in Free : Insert(i, Top.han, Top.prot)
    BY <1>6, <1>2, <1>3, <1>4, InsertStep
  <1> QED
    BY <1>5, <1>6 DEF InstallAdds

LEMMA InstallOnNewHandleStep ==
    ASSUME IInv, NEW h \in Handle, NEW p \in Protocol, InstallOnNewHandle(h, p)
    PROVE  IInv'
  <1>1. Shaped(stack') /\ Held(stack', of) /\ Keeps(stack, stack')
    BY DEF IInv, StackOK, Keeps, InstallOnNewHandle
  <1> QED
    BY <1>1, CallType, InsertStep DEF InstallOnNewHandle

LEMMA UninstallSteps ==
    ASSUME IInv, NEW i \in Instance, CallUninstall(i) \/ CallReinstall(i)
    PROVE  IInv'
  <1>1. /\ UNCHANGED <<database, open, registered, signalled>> /\ calls' \in Nat
        /\ i # None /\ of[i] # None /\ ~ Busy(i)
    BY CallType, HandleAssumption DEF CallUninstall, CallReinstall, Free
  <1>2. CASE CallUninstall(i)
    <2>1. PICK f : f = [NoCall EXCEPT !.pc = "disconnect", !.inst = i]
      OBVIOUS
    <2>2. f \in GoodFrame /\ f.pc = "disconnect" /\ f.inst = i
      BY <2>1, <1>1, Frames DEF NoCall
    <2> QED
      BY <2>1, <2>2, <1>1, <1>2, CallStep DEF CallUninstall
  <1>3. CASE CallReinstall(i)
    <2>1. PICK f : f = [NoCall EXCEPT !.pc = "reinstall", !.inst = i]
      OBVIOUS
    <2>2. f \in GoodFrame /\ f.pc = "reinstall" /\ f.inst = i
      BY <2>1, <1>1, Frames DEF NoCall
    <2> QED
      BY <2>1, <2>2, <1>1, <1>3, CallStep DEF CallReinstall
  <1> QED
    BY <1>2, <1>3

LEMMA ConnectSteps ==
    ASSUME IInv, NEW h \in Handle,
           CallConnect(h) \/ \E d \in Driver : CallDisconnect(h, d)
    PROVE  IInv'
  <1>1. UNCHANGED <<database, open, registered, signalled>> /\ calls' \in Nat
    BY CallType DEF CallConnect, CallDisconnect
  <1>2. CASE CallConnect(h)
    <2>1. PICK f : f = [NoCall EXCEPT !.pc = "start", !.han = h]
      OBVIOUS
    <2>2. f \in GoodFrame /\ f.pc = "start"
      BY <2>1, Frames DEF NoCall
    <2> QED
      BY <2>1, <2>2, <1>1, <1>2, CallStep DEF CallConnect, Locked
  <1>3. ASSUME NEW d \in Driver, CallDisconnect(h, d)
        PROVE  IInv'
    <2>1. PICK f : f = [NoCall EXCEPT !.pc = "check", !.han = h, !.agent = d]
      OBVIOUS
    <2>2. f \in GoodFrame /\ f.pc = "check"
      BY <2>1, Frames DEF NoCall
    <2> QED
      BY <2>1, <2>2, <1>1, <1>3, CallStep DEF CallDisconnect, Locked
  <1> QED
    BY <1>2, <1>3

LEMMA DisconnectStep ==
    ASSUME IInv, Disconnect
    PROVE  IInv'
  <1>1. PICK o \in Drives(Top.inst) :
            Push([NoCall EXCEPT !.pc = "check", !.han = HandleOf(Top.inst), !.agent = o.agent])
    BY DEF Disconnect
  <1>2. Top \in GoodFrame /\ Top.pc \in Locked
    BY TopFrame DEF IInv, StackOK, Disconnect, Top
  <1>3. Top.inst \in Instance
    BY <1>2 DEF GoodFrame, Frame
  <1>4. o.agent \in Driver
    BY <1>1, <1>3 DEF IInv, OpensOK
  <1>5. PICK h \in Handle \cup {None} : h = HandleOf(Top.inst)
    BY HandleOfType
  <1>6. PICK f : f = [NoCall EXCEPT !.pc = "check", !.han = h, !.agent = o.agent]
    OBVIOUS
  <1>7. f \in GoodFrame /\ f.pc = "check" /\ Push(f)
    BY <1>1, <1>4, <1>5, <1>6, Frames DEF NoCall
  <1>8. UNCHANGED <<database, open, registered, signalled, calls>> /\ calls \in Nat
    BY DEF Disconnect, IInv, StackOK
  <1> QED
    BY <1>7, <1>8, CallStep DEF Locked

LEMMA StillOpenStep ==
    ASSUME IInv, StillOpen
    PROVE  IInv'
  <1>1. PICK h \in Handle \cup {None} : h = HandleOf(Top.inst)
    BY HandleOfType
  <1>2. PICK f : f = [NoCall EXCEPT !.pc = "start", !.han = h]
    OBVIOUS
  <1>3. f \in GoodFrame /\ f.pc = "start" /\ Replace(f)
    BY <1>1, <1>2, Frames DEF NoCall, StillOpen, Refuse
  <1>4. Top.pc \notin {"boot", "notify", "tell"}
    BY DEF StillOpen
  <1>5. Shaped(stack') /\ Held(stack', of) /\ Keeps(stack, stack')
    BY <1>3, <1>4, ReplaceStep DEF Locked
  <1>6. OpensOK' /\ OneDriver'
    <2>1. /\ open' \in [Instance -> SUBSET Opener]
          /\ \A i \in Instance : open'[i] \subseteq open[i]
      BY DEF StillOpen, Kept, IInv, OpensOK
    <2> QED
      BY <2>1, FewerOpens
  <1>7. signalled' = signalled /\ signalled' \subseteq Notify /\ calls' \in Nat
        /\ UNCHANGED <<database, registered>>
    BY DEF StillOpen, IInv, StackOK, RegistrationsOK
  <1> QED
    BY <1>5, <1>6, <1>7, QuietStep

\* The structure that leaves its lists is held by no other call.
LEMMA UninstallsStep ==
    ASSUME IInv, Uninstalls
    PROVE  IInv'
  <1>1. Top \in GoodFrame /\ Top.pc = "disconnect" /\ Shaped(stack) /\ Held(stack, of)
    BY TopFrame DEF IInv, StackOK, Uninstalls, Top
  <1>2. PICK i \in Instance : i = Top.inst /\ of[i] # None
    BY <1>1, TopFrame DEF GoodFrame, Frame, Locked, Top
  <1>3. /\ ListsOK' /\ RegistrationsOK' /\ OpensOK' /\ OneDriver'
        /\ \A j \in Instance : j # i => of'[j] = of[j]
        /\ \A n \in Notify : unseen'[n] # {} => unseen[n] # {}
    BY <1>2, DeleteData DEF Uninstalls
  <1>4. Shaped(stack') /\ Held(stack', of) /\ Keeps(stack, stack')
    BY <1>1, PopStep DEF Uninstalls
  <1>5. /\ Len(stack) \in Nat /\ Len(stack) >= 2 /\ Len(stack') = Len(stack) - 1
        /\ \A k \in 1 .. Len(stack) - 1 : stack'[k] = stack[k]
    BY <1>1, PopFrame DEF Uninstalls, Pop, Top
  <1>6. ASSUME NEW k \in 1 .. Len(stack'), stack'[k].pc \in Locked
        PROVE  of'[stack'[k].inst] # None
    <2>1. k \in 1 .. Len(stack) - 1 /\ stack'[k] = stack[k]
      BY <1>5
    <2>2. k \in 1 .. Len(stack) /\ Len(stack) \in 1 .. Len(stack) /\ k < Len(stack)
      BY <2>1, <1>5
    <2>3. stack[k].inst # i
      BY <2>2, <1>1, <1>2 DEF Shaped, Top, Last
    <2>4. stack[k] \in GoodFrame
      BY <2>2, <1>1, ElementOfSeq DEF Shaped
    <2>5. stack[k].inst \in Instance
      BY <2>1, <2>4, <1>6 DEF GoodFrame, Frame
    <2>6. of[stack[k].inst] # None
      BY <2>1, <1>4, <1>6 DEF Held
    <2> QED
      BY <2>1, <2>3, <2>5, <2>6, <1>3
  <1>7. StackOK'
    BY <1>4, <1>6 DEF StackOK, Shaped, Held, Uninstalls, IInv
  <1>8. Noticed'
    <2> SUFFICES ASSUME NEW n \in Notify, unseen'[n] # {}
                 PROVE  n \in signalled \/ Telling(stack', n, registered[n])
      BY DEF Noticed, Telling, Uninstalls
    <2>1. n \in signalled \/ Telling(stack, n, registered[n])
      BY <1>3 DEF IInv, Noticed
    <2> QED
      BY <2>1, <1>4 DEF Keeps
  <1> QED
    BY <1>3, <1>7, <1>8 DEF IInv

\* The registrations of a reinstalled protocol are still to be told.
LEMMA ReinstallsStep ==
    ASSUME IInv, Reinstalls
    PROVE  IInv'
  <1>1. Top \in GoodFrame /\ Top.pc = "reinstall" /\ Shaped(stack) /\ Held(stack, of)
    BY TopFrame DEF IInv, StackOK, Reinstalls, Top
  <1>2. PICK i \in Instance : i = Top.inst /\ of[i] # None
    BY <1>1, TopFrame DEF GoodFrame, Frame, Locked, Top
  <1>3. PICK p \in Protocol : p = of[i]
    BY <1>2 DEF IInv, ListsOK
  <1>4. /\ ListsOK' /\ RegistrationsOK' /\ OpensOK' /\ OneDriver'
        /\ \A n \in Notify : unseen'[n] # {} => registered[n] = p \/ unseen'[n] = unseen[n]
    BY <1>2, <1>3, RenewData DEF Reinstalls
  <1>5. PICK h \in Handle \cup {None} : h = HandleOf(i)
    BY HandleOfType
  <1>6. PICK f : f = [NoCall EXCEPT !.pc = "tell", !.prot = p]
    OBVIOUS
  <1>7. PICK g : g = [NoCall EXCEPT !.pc = "start", !.han = h]
    OBVIOUS
  <1>8. /\ f \in GoodFrame /\ f.pc = "tell" /\ f.prot = p
        /\ g \in GoodFrame /\ g.pc = "start"
    BY <1>6, <1>7, Frames DEF NoCall
  <1>9. PICK r : r = Front(stack)
    OBVIOUS
  <1>10. Shaped(r) /\ Held(r, of) /\ Keeps(stack, r)
    BY <1>1, <1>9, PopFrame DEF Top, Keeps
  <1>11. PICK t : t = Append(r, f)
    OBVIOUS
  <1>12. Shaped(t) /\ Held(t, of) /\ Keeps(r, t) /\ \A n : Telling(t, n, p)
    BY <1>8, <1>10, <1>11, PushFrame DEF Locked, Keeps
  <1>13. stack' = Append(t, g)
    BY <1>2, <1>3, <1>5, <1>6, <1>7, <1>9, <1>11 DEF Reinstalls
  <1>14. Shaped(stack') /\ Held(stack', of) /\ Keeps(t, stack')
    BY <1>8, <1>12, <1>13, PushFrame DEF Locked, Keeps
  <1>15. StackOK'
    BY <1>14 DEF StackOK, Shaped, Held, Reinstalls, Renew, IInv
  <1>16. Noticed'
    <2> SUFFICES ASSUME NEW n \in Notify, unseen'[n] # {}
                 PROVE  n \in signalled \/ Telling(stack', n, registered[n])
      BY DEF Noticed, Telling, Reinstalls
    <2>1. CASE registered[n] = p
      BY <2>1, <1>12, <1>14 DEF Keeps
    <2>2. CASE unseen'[n] = unseen[n]
      <3>1. n \in signalled \/ Telling(stack, n, registered[n])
        BY <2>2 DEF IInv, Noticed
      <3> QED
        BY <3>1, <1>10, <1>12, <1>14 DEF Keeps
    <2> QED
      BY <2>1, <2>2, <1>4
  <1> QED
    BY <1>4, <1>15, <1>16 DEF IInv

\* They are told.
LEMMA TellReinstalledStep ==
    ASSUME IInv, TellReinstalled
    PROVE  IInv'
  <1>1. Top.pc = "tell" /\ Shaped(stack) /\ Held(stack, of) /\ stack' = Front(stack)
    BY DEF IInv, StackOK, TellReinstalled, Pop
  <1>2. /\ Shaped(stack') /\ Held(stack', of)
        /\ \A n, p : Telling(stack, n, p) => Telling(stack', n, p) \/ Top.prot = p
    BY <1>1, PopFrame DEF Top
  <1>3. UNCHANGED <<database, open, registered>> /\ calls' \in Nat
        /\ signalled' = signalled \cup Waiting(Top.prot) /\ signalled' \subseteq Notify
    BY DEF TellReinstalled, Signal, Waiting, IInv, StackOK, RegistrationsOK
  <1>4. ListsOK' /\ RegistrationsOK' /\ OpensOK' /\ OneDriver'
    BY <1>3, SameDatabase, SameOpens
  <1>5. StackOK'
    BY <1>2, <1>3 DEF StackOK, Shaped, Held, database
  <1>6. Noticed'
    <2> SUFFICES ASSUME NEW n \in Notify, unseen[n] # {}
                 PROVE  n \in signalled' \/ Telling(stack', n, registered[n])
      BY <1>3 DEF Noticed, Telling, database
    <2>1. n \in signalled \/ Telling(stack, n, registered[n])
      BY DEF IInv, Noticed
    <2>2. Top.prot = registered[n] => n \in signalled'
      BY <1>3 DEF Waiting
    <2> QED
      BY <2>1, <2>2, <1>2, <1>3
  <1> QED
    BY <1>4, <1>5, <1>6 DEF IInv

\* CoreDisconnectController, Stop and Start.
LEMMA DriverSteps ==
    ASSUME IInv, DisconnectChecks \/ StopReturns \/ StartReturns
    PROVE  IInv'
  <1>1. /\ UNCHANGED <<database, open, registered, signalled, calls>>
        /\ calls' \in Nat /\ signalled' \subseteq Notify
        /\ Top.pc \in {"check", "stop", "start"}
    BY DEF DisconnectChecks, StopReturns, StartReturns, IInv, StackOK, RegistrationsOK
  <1>2. Shaped(stack') /\ Held(stack', of) /\ Keeps(stack, stack')
    <2>1. CASE DisconnectChecks /\ Manages(Top.agent, Top.han)
      <3>1. PICK f : f = [Top EXCEPT !.pc = "stop"]
        OBVIOUS
      <3>2. Top \in GoodFrame /\ Top.pc = "check"
        BY <2>1, TopFrame DEF IInv, StackOK, DisconnectChecks, Top
      <3>3. f \in GoodFrame /\ f.pc = "stop"
        BY <3>1, <3>2 DEF GoodFrame, Frame, Client, Locked
      <3>4. Replace(f)
        BY <3>1, <2>1 DEF DisconnectChecks
      <3> QED
        BY <3>2, <3>3, <3>4, ReplaceStep DEF Locked
    <2>2. CASE Fails /\ Top.pc \in {"check", "stop"}
      BY <2>2, FailsStep
    <2>3. CASE Pop
      BY <2>3, <1>1, PopStep
    <2> QED
      BY <2>1, <2>2, <2>3 DEF DisconnectChecks, StopReturns, StartReturns
  <1> QED
    BY <1>1, <1>2, SameOpens, QuietStep

\* OpenProtocol, at once or when the drivers are to be disconnected first.
LEMMA CallOpenStep ==
    ASSUME IInv, NEW i \in Instance, NEW a \in Driver \cup Application, NEW attr \in Attributes,
           CallOpen(i, a, attr)
    PROVE  IInv'
  <1>1. /\ UNCHANGED <<database, registered, signalled>> /\ calls' \in Nat
        /\ signalled' \subseteq Notify /\ i # None /\ of[i] # None
    BY CallType, HandleAssumption DEF CallOpen, IsFound, IInv, RegistrationsOK
  <1>2. "driver" \in attr => a \in Driver
    BY DEF CallOpen, MayOpen
  <1>3. CASE "exclusive" \in attr /\ Drives(i) # {}
    <2>1. PICK f : f = [NoCall EXCEPT !.pc = "open", !.inst = i, !.agent = a, !.attr = attr]
      OBVIOUS
    <2>2. f \in GoodFrame /\ f.pc = "open" /\ f.inst = i
      BY <2>1, <1>1, <1>2 DEF GoodFrame, Frame, NoCall, Locked
    <2>3. Push(f) /\ UNCHANGED open
      BY <2>1, <1>3 DEF CallOpen
    <2> QED
      BY <2>2, <2>3, <1>1, CallStep
  <1>4. CASE ~ ("exclusive" \in attr /\ Drives(i) # {})
    <2>1. Opens(i, a, attr) /\ UNCHANGED stack
      BY <1>4 DEF CallOpen
    <2>2. "driver" \in attr => Drives(i) = {}
      <3>1. attr = {"driver"} \/ "exclusive" \in attr \/ "driver" \notin attr
        BY DEF Attributes
      <3> QED
        BY <3>1, <1>4 DEF CallOpen
    <2>3. OpensOK' /\ OneDriver'
      BY <2>1, <2>2, <1>2, MoreOpens
    <2>4. Shaped(stack') /\ Held(stack', of) /\ Keeps(stack, stack')
      BY <2>1 DEF IInv, StackOK, Keeps
    <2> QED
      BY <1>1, <2>3, <2>4, QuietStep
  <1> QED
    BY <1>3, <1>4

\* The exclusive open goes on when no driver is left.
LEMMA OpenAloneStep ==
    ASSUME IInv, OpenAlone
    PROVE  IInv'
  <1>1. /\ UNCHANGED <<database, registered, signalled>> /\ calls' \in Nat
        /\ signalled' \subseteq Notify /\ Top.pc = "open"
    BY DEF OpenAlone, IInv, StackOK, RegistrationsOK
  <1>2. Top \in GoodFrame
    BY TopFrame DEF IInv, StackOK, Top
  <1>3. Shaped(stack') /\ Held(stack', of) /\ Keeps(stack, stack')
    BY <1>1, PopStep DEF OpenAlone
  <1>4. OpensOK' /\ OneDriver'
    <2>1. CASE Opens(Top.inst, Top.agent, Top.attr)
      <3>1. /\ Top.agent \in Driver \cup Application /\ Top.attr \in Attributes
            /\ "driver" \in Top.attr => Top.agent \in Driver
        BY <1>1, <1>2 DEF GoodFrame
      <3>2. Drives(Top.inst) = {}
        BY DEF OpenAlone
      <3> QED
        BY <2>1, <3>1, <3>2, MoreOpens
    <2>2. CASE UNCHANGED open
      BY <2>2, SameOpens
    <2> QED
      BY <2>1, <2>2 DEF OpenAlone
  <1> QED
    BY <1>1, <1>3, <1>4, QuietStep

LEMMA CloseStep ==
    ASSUME IInv, NEW i \in Instance, NEW o \in open[i], Close(i, o)
    PROVE  IInv'
  <1>1. /\ UNCHANGED <<database, registered, signalled, stack, calls>> /\ calls' \in Nat
        /\ signalled' \subseteq Notify
        /\ open' = [open EXCEPT ![i] = {x \in @ : x.agent # o.agent}]
    BY DEF Close, IInv, StackOK, RegistrationsOK
  <1>2. /\ open' \in [Instance -> SUBSET Opener]
        /\ \A j \in Instance : open'[j] \subseteq open[j]
    BY <1>1 DEF IInv, OpensOK
  <1>3. OpensOK' /\ OneDriver'
    BY <1>2, FewerOpens
  <1>4. Shaped(stack') /\ Held(stack', of) /\ Keeps(stack, stack')
    BY <1>1 DEF IInv, StackOK, Keeps
  <1> QED
    BY <1>1, <1>3, <1>4, QuietStep

\* A new registration starts at the head of its protocol's list, signalled.
LEMMA RegisterStep ==
    ASSUME IInv, NEW n \in Notify, NEW p \in Protocol, Register(n, p)
    PROVE  IInv'
  <1> USE DEF IInv
  <1>1. /\ registered' = [registered EXCEPT ![n] = p]
        /\ position' = [position EXCEPT ![n] = None]
        /\ unseen' = [unseen EXCEPT ![n] = ToSet(byProtocol[p])]
        /\ signalled' = signalled \cup {n}
        /\ UNCHANGED <<protocols, of, byProtocol, open, stack>> /\ calls' \in Nat
        /\ p # None
    BY CallType, HandleAssumption DEF Register
  <1>2. ListsOK'
    BY <1>1 DEF ListsOK, On
  <1>3. PositionIsExact'
    <2> SUFFICES ASSUME NEW m \in Notify, registered'[m] # None
                 PROVE  /\ position'[m] \in {None} \cup ToSet(byProtocol[registered'[m]])
                        /\ ToSet(After(byProtocol[registered'[m]], position'[m])) = unseen'[m]
      BY <1>1 DEF PositionIsExact, Ahead
    <2>1. CASE m = n
      <3>1. registered'[m] = p /\ position'[m] = None /\ unseen'[m] = ToSet(byProtocol[p])
        BY <2>1, <1>1 DEF RegistrationsOK
      <3> QED
        BY <3>1 DEF After
    <2>2. CASE m # n
      <3>1. /\ registered'[m] = registered[m] /\ position'[m] = position[m]
            /\ unseen'[m] = unseen[m]
        BY <2>2, <1>1 DEF RegistrationsOK
      <3> QED
        BY <3>1 DEF RegistrationsOK, PositionIsExact, Ahead
    <2> QED
      BY <2>1, <2>2
  <1>4. RegistrationsOK'
    <2>1. ToSet(byProtocol[p]) \in SUBSET Instance
      BY ProtocolLinks
    <2>2. \A m \in Notify : registered'[m] = None => unseen'[m] = {}
      BY <1>1 DEF RegistrationsOK
    <2> QED
      BY <1>1, <1>3, <2>1, <2>2 DEF RegistrationsOK
  <1>5. OpensOK' /\ OneDriver'
    BY <1>1, SameOpens
  <1>6. StackOK'
    BY <1>1 DEF StackOK, Shaped, Held
  <1>7. Noticed'
    <2> SUFFICES ASSUME NEW m \in Notify, unseen'[m] # {}, m \notin signalled'
                 PROVE  Telling(stack, m, registered'[m])
      BY <1>1 DEF Noticed, Telling
    <2>1. m # n /\ unseen'[m] = unseen[m] /\ registered'[m] = registered[m] /\ m \notin signalled
      BY <1>1 DEF RegistrationsOK
    <2> QED
      BY <2>1 DEF Noticed
  <1> QED
    BY <1>2, <1>4, <1>5, <1>6, <1>7

LEMMA UnregisterStep ==
    ASSUME IInv, NEW n \in Notify, Unregister(n)
    PROVE  IInv'
  <1> USE DEF IInv
  <1>1. /\ registered' = [registered EXCEPT ![n] = None]
        /\ position' = [position EXCEPT ![n] = None]
        /\ unseen' = [unseen EXCEPT ![n] = {}]
        /\ signalled' = signalled \ {n}
        /\ UNCHANGED <<protocols, of, byProtocol, open, stack, calls>>
    BY DEF Unregister
  <1>2. ListsOK'
    BY <1>1 DEF ListsOK, On
  <1>3. PositionIsExact'
    <2> SUFFICES ASSUME NEW m \in Notify, registered'[m] # None
                 PROVE  /\ position'[m] \in {None} \cup ToSet(byProtocol[registered'[m]])
                        /\ ToSet(After(byProtocol[registered'[m]], position'[m])) = unseen'[m]
      BY <1>1 DEF PositionIsExact, Ahead
    <2>1. /\ m # n /\ registered'[m] = registered[m] /\ position'[m] = position[m]
          /\ unseen'[m] = unseen[m]
      BY <1>1 DEF RegistrationsOK
    <2> QED
      BY <2>1 DEF RegistrationsOK, PositionIsExact, Ahead
  <1>4. RegistrationsOK'
    <2>1. \A m \in Notify : registered'[m] = None => unseen'[m] = {}
      BY <1>1 DEF RegistrationsOK
    <2> QED
      BY <1>1, <1>3, <2>1 DEF RegistrationsOK
  <1>5. OpensOK' /\ OneDriver'
    BY <1>1, SameOpens
  <1>6. StackOK'
    BY <1>1 DEF StackOK, Shaped, Held
  <1>7. Noticed'
    <2> SUFFICES ASSUME NEW m \in Notify, unseen'[m] # {}, m \notin signalled'
                 PROVE  Telling(stack, m, registered'[m])
      BY <1>1 DEF Noticed, Telling
    <2>1. m # n /\ unseen'[m] = unseen[m] /\ registered'[m] = registered[m] /\ m \notin signalled
      BY <1>1 DEF RegistrationsOK
    <2> QED
      BY <2>1 DEF Noticed
  <1> QED
    BY <1>2, <1>4, <1>5, <1>6, <1>7

\* A notification function starts: its event is no longer signalled, it runs.
LEMMA PreemptStep ==
    ASSUME IInv, NEW n \in Notify \cup {None}, Preempt(n)
    PROVE  IInv'
  <1>1. /\ UNCHANGED <<database, open, registered, calls>> /\ calls' \in Nat
        /\ signalled' = signalled \ {n} /\ signalled' \subseteq Notify
    BY DEF Preempt, IInv, StackOK, RegistrationsOK
  <1>2. PICK f : f = [NoCall EXCEPT !.pc = "notify", !.agent = n]
    OBVIOUS
  <1>3. f \in GoodFrame /\ f.pc = "notify" /\ f.agent = n /\ Push(f)
    BY <1>2, Frames DEF NoCall, Preempt
  <1>4. Shaped(stack') /\ Held(stack', of) /\ Keeps(stack, stack')
    BY <1>3, PushStep DEF Locked
  <1>5. \A p : Telling(stack', n, p)
    BY <1>3, PushFrame DEF IInv, StackOK, Push, Locked
  <1> QED
    BY <1>1, <1>4, <1>5, SameOpens, QuietStep

\* LocateHandle returns the next structure.
LEMMA LocateStep ==
    ASSUME IInv, Locate
    PROVE  IInv'
  <1> USE DEF IInv
  <1>1. Top \in GoodFrame /\ Top.pc = "notify" /\ Top.agent # None
    BY TopFrame DEF StackOK, Locate, Top
  <1>2. PICK n \in Notify : n = Top.agent
    BY <1>1 DEF GoodFrame
  <1>3. PICK q \in Protocol : q = registered[n]
    BY <1>2 DEF Locate, RegistrationsOK
  <1>4. PICK T : T = {i \in Instance : of[i] = q}
    OBVIOUS
  <1>5. PICK s, x : s = byProtocol[q] /\ x = position[n]
    OBVIOUS
  <1>6. /\ Links(s, T) /\ None \notin T /\ x \in T \cup {None} /\ ToSet(s) = T
        /\ ToSet(After(s, x)) = unseen[n] /\ After(s, x) # <<>>
    <2>1. /\ position[n] \in {None} \cup ToSet(byProtocol[q])
          /\ ToSet(After(byProtocol[q], position[n])) = unseen[n]
      BY <1>3, HandleAssumption DEF RegistrationsOK, PositionIsExact, Ahead
    <2>a. Ahead(n) # <<>>
      BY <1>2 DEF Locate
    <2>2. After(s, x) # <<>>
      BY <2>a, <1>3, <1>5 DEF Ahead
    <2> QED
      BY <2>1, <2>2, <1>4, <1>5, ProtocolLinks
  <1>7. PICK y : y = Head(After(s, x))
    OBVIOUS
  <1>8. y \in T /\ ToSet(After(s, y)) = unseen[n] \ {y}
    BY <1>6, <1>7, AfterLocated
  <1>9. /\ position' = [position EXCEPT ![n] = y]
        /\ unseen' = [unseen EXCEPT ![n] = @ \ {y}]
        /\ UNCHANGED <<protocols, of, byProtocol, open, registered, signalled, stack, calls>>
    BY <1>2, <1>3, <1>5, <1>7 DEF Locate, Ahead
  <1>10. ListsOK'
    BY <1>9 DEF ListsOK, On
  <1>11. PositionIsExact'
    <2> SUFFICES ASSUME NEW m \in Notify, registered[m] # None
                 PROVE  /\ position'[m] \in {None} \cup ToSet(byProtocol[registered[m]])
                        /\ ToSet(After(byProtocol[registered[m]], position'[m])) = unseen'[m]
      BY <1>9 DEF PositionIsExact, Ahead
    <2>1. CASE m = n
      <3>1. position'[m] = y /\ unseen'[m] = unseen[n] \ {y} /\ byProtocol[registered[m]] = s
        BY <2>1, <1>3, <1>5, <1>9 DEF RegistrationsOK
      <3> QED
        BY <3>1, <1>6, <1>8
    <2>2. CASE m # n
      <3>1. position'[m] = position[m] /\ unseen'[m] = unseen[m]
        BY <2>2, <1>9 DEF RegistrationsOK
      <3> QED
        BY <3>1 DEF RegistrationsOK, PositionIsExact, Ahead
    <2> QED
      BY <2>1, <2>2
  <1>12. RegistrationsOK'
    <2>1. y \in Instance
      BY <1>4, <1>8
    <2>2. \A m \in Notify : unseen'[m] \subseteq unseen[m]
      BY <1>9 DEF RegistrationsOK
    <2>a. position' \in [Notify -> Instance \cup {None}]
      BY <2>1, <1>9 DEF RegistrationsOK
    <2>b. \A m \in Notify : unseen'[m] \subseteq Instance
      BY <2>2 DEF RegistrationsOK
    <2>c. unseen' \in [Notify -> SUBSET Instance]
      BY <2>b, <1>9 DEF RegistrationsOK
    <2>3. /\ position' \in [Notify -> Instance \cup {None}]
          /\ unseen' \in [Notify -> SUBSET Instance]
      BY <2>a, <2>c
    <2>4. \A m \in Notify : registered[m] = None => unseen'[m] = {}
      BY <2>2 DEF RegistrationsOK
    <2> QED
      BY <2>3, <2>4, <1>9, <1>11 DEF RegistrationsOK
  <1>13. OpensOK' /\ OneDriver'
    BY <1>9, SameOpens
  <1>14. StackOK'
    BY <1>9 DEF StackOK, Shaped, Held
  <1>15. Noticed'
    <2> SUFFICES ASSUME NEW m \in Notify, unseen'[m] # {}
                 PROVE  m \in signalled \/ Telling(stack, m, registered[m])
      BY <1>9 DEF Noticed, Telling
    <2>1. unseen[m] # {}
      BY <1>9 DEF RegistrationsOK
    <2> QED
      BY <2>1 DEF Noticed
  <1> QED
    BY <1>10, <1>12, <1>13, <1>14, <1>15

\* A notification function has located everything when it returns.
LEMMA NotifyReturnsStep ==
    ASSUME IInv, NotifyReturns
    PROVE  IInv'
  <1>1. Top.pc = "notify" /\ Shaped(stack) /\ Held(stack, of) /\ stack' = Front(stack)
    BY DEF IInv, StackOK, NotifyReturns, Pop
  <1>2. /\ Shaped(stack') /\ Held(stack', of)
        /\ \A n, p : Telling(stack, n, p) => Telling(stack', n, p) \/ Top.agent = n
    BY <1>1, PopFrame DEF Top
  <1>3. UNCHANGED <<database, open, registered, signalled>> /\ calls' \in Nat
        /\ signalled' \subseteq Notify
    BY DEF NotifyReturns, IInv, StackOK, RegistrationsOK
  <1>4. ListsOK' /\ RegistrationsOK' /\ OpensOK' /\ OneDriver'
    BY <1>3, SameDatabase, SameOpens
  <1>5. StackOK'
    BY <1>2, <1>3 DEF StackOK, Shaped, Held, database
  <1>6. Noticed'
    <2> SUFFICES ASSUME NEW n \in Notify, unseen[n] # {}
                 PROVE  n \in signalled \/ Telling(stack', n, registered[n])
      BY <1>3 DEF Noticed, Telling, database
    <2>1. n \in signalled \/ Telling(stack, n, registered[n])
      BY DEF IInv, Noticed
    <2>2. Top.agent # n
      <3> SUFFICES ASSUME Top.agent = n PROVE FALSE
        OBVIOUS
      <3>1. n # None
        BY HandleAssumption
      <3>2. registered[n] # None
        BY DEF IInv, RegistrationsOK
      <3>3. ToSet(Ahead(n)) = unseen[n]
        BY <3>2 DEF IInv, RegistrationsOK, PositionIsExact
      <3>4. Ahead(n) = <<>>
        BY <3>1, <3>2 DEF NotifyReturns
      <3> QED
        BY <3>3, <3>4 DEF ToSet
    <2> QED
      BY <2>1, <2>2, <1>2
  <1> QED
    BY <1>4, <1>5, <1>6 DEF IInv

LEMMA InitInv == Init => IInv
  <1> SUFFICES ASSUME Init PROVE IInv
    OBVIOUS
  <1> USE DEF Init
  <1>1. <<>> \in Seq(Instance) /\ Links(<<>>, {})
    BY DEF Links, IsInjective, ToSet
  <1>2. ListsOK
    <2>1. \A p \in Protocol : {i \in Instance : of[i] = p} = {}
      BY HandleAssumption
    <2>2. \A h \in Handle : On(h) = {}
      BY <1>1 DEF On, Links
    <2> QED
      BY <2>1, <2>2, <1>1 DEF ListsOK
  <1>3. RegistrationsOK
    BY DEF RegistrationsOK, PositionIsExact
  <1>4. OpensOK /\ OneDriver
    BY DEF OpensOK, OneDriver, Drives
  <1>5. StackOK
    <2>1. NoCall \in GoodFrame /\ NoCall.pc = "boot"
      BY DEF NoCall, GoodFrame, Frame, Client, Locked
    <2>2. /\ stack \in Seq(GoodFrame) /\ stack # <<>> /\ Len(stack) = 1
          /\ stack[1] = NoCall
      BY <2>1
    <2>3. \A k \in 1 .. Len(stack) : k = 1
      BY <2>2
    <2>4. Shaped(stack)
      BY <2>1, <2>2, <2>3 DEF Shaped
    <2>5. Held(stack, of)
      BY <2>1, <2>2, <2>3 DEF Held, Locked
    <2> QED
      BY <2>4, <2>5 DEF StackOK
  <1>6. Noticed
    BY DEF Noticed
  <1> QED
    BY <1>2, <1>3, <1>4, <1>5, <1>6 DEF IInv

LEMMA NextInv == IInv /\ [Next]_vars => IInv'
  <1> SUFFICES ASSUME IInv, [Next]_vars PROVE IInv'
    OBVIOUS
  <1>1. ASSUME NEW h \in Handle, NEW p \in Protocol, InstallChecks(h, p) \/ InstallOnNewHandle(h, p)
        PROVE  IInv'
    BY <1>1, InstallChecksStep, InstallOnNewHandleStep
  <1>2. ASSUME NEW i \in Instance, CallUninstall(i) \/ CallReinstall(i)
        PROVE  IInv'
    BY <1>2, UninstallSteps
  <1>3. ASSUME NEW h \in Handle, CallConnect(h) \/ \E d \in Driver : CallDisconnect(h, d)
        PROVE  IInv'
    BY <1>3, ConnectSteps
  <1>4. CASE InstallAdds \/ Disconnect \/ StillOpen \/ Uninstalls \/ Reinstalls \/ TellReinstalled
    BY <1>4, InstallAddsStep, DisconnectStep, StillOpenStep, UninstallsStep, ReinstallsStep,
       TellReinstalledStep
  <1>5. CASE DisconnectChecks \/ StopReturns \/ StartReturns
    BY <1>5, DriverSteps
  <1>6. ASSUME NEW i \in Instance, NEW a \in Driver \cup Application, NEW attr \in Attributes,
               CallOpen(i, a, attr)
        PROVE  IInv'
    BY <1>6, CallOpenStep
  <1>7. CASE OpenAlone
    BY <1>7, OpenAloneStep
  <1>8. ASSUME NEW i \in Instance, NEW o \in open[i], Close(i, o)
        PROVE  IInv'
    BY <1>8, CloseStep
  <1>9. ASSUME NEW n \in Notify, Unregister(n) \/ \E p \in Protocol : Register(n, p)
        PROVE  IInv'
    BY <1>9, RegisterStep, UnregisterStep
  <1>10. ASSUME NEW n \in Notify \cup {None}, Preempt(n)
         PROVE  IInv'
    BY <1>10, PreemptStep
  <1>11. CASE Locate \/ NotifyReturns
    BY <1>11, LocateStep, NotifyReturnsStep
  <1>12. CASE UNCHANGED vars
    <2>1. UNCHANGED <<database, open, registered, signalled, stack, calls>>
      BY <1>12 DEF vars, database
    <2>2. /\ calls' \in Nat /\ signalled' \subseteq Notify
          /\ Shaped(stack') /\ Held(stack', of) /\ Keeps(stack, stack')
      BY <2>1 DEF IInv, StackOK, RegistrationsOK, Keeps
    <2> QED
      BY <2>1, <2>2, SameOpens, QuietStep
  <1> QED
    BY <1>1, <1>2, <1>3, <1>4, <1>5, <1>6, <1>7, <1>8, <1>9, <1>10, <1>11, <1>12 DEF Next

(***************************************************************************)
(* The theorems.                                                           *)
(***************************************************************************)

\* The invariant holds of every behaviour.
THEOREM Invariance == Spec => []IInv
  <1>1. Init => IInv
    BY InitInv
  <1>2. IInv /\ [Next]_vars => IInv'
    BY NextInv
  <1> QED
    BY <1>1, <1>2, PTL DEF Spec

\* Types, and the two lists of a structure agree: it is on its protocol's list
\* and on the list of exactly one handle, or free and on none
\* (CoreInstallProtocolInterfaceNotify, CoreUninstallProtocolInterface).
THEOREM TypeCorrect == Spec => []TypeOK
  <1>1. IInv => TypeOK
    <2> SUFFICES ASSUME IInv PROVE TypeOK
      OBVIOUS
    <2> USE DEF IInv
    <2>1. \A p \in Protocol : /\ IsInjective(byProtocol[p])
                              /\ ToSet(byProtocol[p]) = {i \in Instance : of[i] = p}
      BY DEF ListsOK, Links
    <2>2. \A h \in Handle : IsInjective(protocols[h])
      BY DEF ListsOK, Links
    <2>3. ASSUME NEW i \in Instance
          PROVE  Cardinality({h \in Handle : i \in On(h)}) = IF i \in Free THEN 0 ELSE 1
      <3>1. CASE of[i] = None
        <4>1. {h \in Handle : i \in On(h)} = {}
          BY <3>1 DEF ListsOK
        <4> QED
          BY <3>1, <4>1, FS_EmptySet DEF Free
      <3>2. CASE of[i] # None
        <4>1. {h \in Handle : i \in On(h)} = {HandleOf(i)}
          BY <3>2, HandleOfInstalled
        <4>2. Cardinality({HandleOf(i)}) = 1
          BY FS_Singleton
        <4> QED
          BY <3>2, <4>1, <4>2 DEF Free
      <3> QED
        BY <3>1, <3>2
    <2>4. stack \in Seq(Frame) /\ stack # <<>> /\ calls \in Nat
      <3>1. GoodFrame \subseteq Frame
        BY DEF GoodFrame
      <3> QED
        BY <3>1, SeqMonotonic DEF StackOK, Shaped
    <2>5. of \in [Instance -> Protocol \cup {None}]
      BY DEF ListsOK
    <2>6. open \in [Instance -> SUBSET Opener] /\ signalled \subseteq Notify
          /\ registered \in [Notify -> Protocol \cup {None}]
      BY DEF OpensOK, RegistrationsOK
    <2> QED
      BY <2>1, <2>2, <2>3, <2>4, <2>5, <2>6 DEF TypeOK
  <1> QED
    BY <1>1, Invariance, PTL

\* What LocateHandle has still to return for a registration is exactly what was
\* (re)installed since it last returned it, whatever is removed in between
\* (CoreRemoveInterfaceFromProtocol backs PROTOCOL_NOTIFY.Position up).
THEOREM PositionCorrect == Spec => []PositionIsExact
  <1>1. IInv => PositionIsExact
    BY DEF IInv, RegistrationsOK
  <1> QED
    BY <1>1, Invariance, PTL

\* A structure a registration has not located is being announced to it
\* (CoreNotifyProtocolEntry, CoreReinstallProtocolInterface).
THEOREM InstallNoticed == Spec => []InstallIsNoticed
  <1>1. IInv => InstallIsNoticed
    <2> SUFFICES ASSUME IInv PROVE InstallIsNoticed
      OBVIOUS
    <2>1. DOMAIN stack = 1 .. Len(stack)
      BY TopFrame DEF IInv, StackOK
    <2> QED
      BY <2>1 DEF IInv, Noticed, Telling, InstallIsNoticed
  <1> QED
    BY <1>1, Invariance, PTL

\* However calls, notification functions, opens and disconnections interleave,
\* at most one driver manages an interface (CoreOpenProtocol).
THEOREM SingleDriver == Spec => []OneDriver
  <1>1. IInv => OneDriver
    BY DEF IInv
  <1> QED
    BY <1>1, Invariance, PTL

=============================================================================
