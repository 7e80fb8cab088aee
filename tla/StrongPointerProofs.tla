------------------------- MODULE StrongPointerProofs -------------------------
(***************************************************************************)
(* Proofs about StrongPointer, for any number of objects and pointers.     *)
(***************************************************************************)
EXTENDS StrongPointer, SequenceTheorems, FiniteSetTheorems, TLAPS

(***************************************************************************)
(* The steps in progress as a sequence with a first step.                  *)
(***************************************************************************)
StepNames == {"inc", "incStore", "dec", "decStore", "release",
              "set", "delete", "destruct", "free", "resume"}
Steps == [do : StepNames, at : Pointer \cup {NULL}, val : Object \cup {NULL} \cup Int]
Work == Seq(Steps)

Free(p) == Step("free", p, NULL)

Has(B, x) == \E i \in DOMAIN B : B[i] = x
Top(B, x) == B # <<>> /\ Head(B) = x
BusyIn(B) == {s \in Pointer : \E i \in DOMAIN B : B[i].do = "set" /\ B[i].at = s}

\* A step in front of others.
LEMMA ConsIs ==
    ASSUME NEW S, NEW x \in S, NEW r \in Seq(S)
    PROVE  /\ Cons(x, r) \in Seq(S) /\ Cons(x, r) # <<>>
           /\ Head(Cons(x, r)) = x /\ Tail(Cons(x, r)) = r
  <1>1. PICK u : u = Cons(x, r)
    OBVIOUS
  <1>2. <<x>> \in Seq(S) /\ Len(<<x>>) = 1 /\ <<x>>[1] = x
    OBVIOUS
  <1>3. Len(r) \in Nat
    BY LenProperties
  <1>4. /\ u \in Seq(S) /\ Len(u) = 1 + Len(r)
        /\ \A i \in 1 .. 1 + Len(r) : u[i] = IF i <= 1 THEN x ELSE r[i - 1]
    BY <1>1, <1>2, ConcatProperties DEF Cons
  <1>5. u # <<>> /\ u[1] = x /\ \A i \in 1 .. Len(r) : u[i + 1] = r[i]
    <2>1. Len(u) # 0
      BY <1>3, <1>4
    <2>2. u[1] = x
      BY <1>3, <1>4
    <2>3. ASSUME NEW i \in 1 .. Len(r)
          PROVE  u[i + 1] = r[i]
      <3>1. i + 1 \in 1 .. 1 + Len(r) /\ ~(i + 1 <= 1) /\ (i + 1) - 1 = i
        BY <1>3
      <3> QED
        BY <1>4, <3>1
    <2> QED
      BY <2>1, <2>2, <2>3
  <1>6. /\ Head(u) = u[1] /\ Tail(u) \in Seq(S) /\ Len(Tail(u)) = Len(u) - 1
        /\ \A i \in 1 .. Len(Tail(u)) : Tail(u)[i] = u[i + 1]
    BY <1>4, <1>5, HeadTailProperties
  <1>7. Tail(u) = r
    <2>1. PICK t : t = Tail(u)
      OBVIOUS
    <2>2. t \in Seq(S) /\ Len(t) = Len(r) /\ \A i \in 1 .. Len(r) : t[i] = r[i]
      BY <1>3, <1>4, <1>5, <1>6, <2>1
    <2> QED
      BY <2>1, <2>2, SeqEqual
  <1> QED
    BY <1>1, <1>4, <1>5, <1>6, <1>7

\* Its elements.
LEMMA ConsAt ==
    ASSUME NEW S, NEW x \in S, NEW r \in Seq(S)
    PROVE  /\ Len(r) \in Nat /\ Len(Cons(x, r)) = Len(r) + 1
           /\ Cons(x, r)[1] = x
           /\ \A i \in DOMAIN r : i \in Int /\ i >= 1 /\ i + 1 \in DOMAIN Cons(x, r) /\ Cons(x, r)[i + 1] = r[i]
           /\ 1 \in DOMAIN Cons(x, r)
           /\ \A i \in DOMAIN Cons(x, r) : i \in Int /\ i >= 1
                 /\ (i # 1 => i - 1 \in DOMAIN r /\ Cons(x, r)[i] = r[i - 1])
  <1>1. PICK u : u = Cons(x, r)
    OBVIOUS
  <1>2. u \in Seq(S) /\ u # <<>> /\ Head(u) = x /\ Tail(u) = r
    BY <1>1, ConsIs
  <1>3. PICK n : n = Len(r)
    OBVIOUS
  <1>4. n \in Nat /\ DOMAIN r = 1 .. n
    BY <1>3, LenProperties
  <1>5. /\ Head(u) = u[1] /\ Len(Tail(u)) = Len(u) - 1 /\ Len(u) \in Nat /\ DOMAIN u = 1 .. Len(u)
        /\ \A i \in 1 .. Len(Tail(u)) : Tail(u)[i] = u[i + 1]
    BY <1>2, HeadTailProperties, LenProperties
  <1>6. Len(u) = n + 1
    <2>1. PICK m : m = Len(u)
      OBVIOUS
    <2>2. m \in Nat /\ n = m - 1
      BY <1>2, <1>3, <1>5, <2>1
    <2> QED
      BY <2>1, <2>2
  <1>7. u[1] = x /\ \A i \in 1 .. n : u[i + 1] = r[i]
    BY <1>2, <1>3, <1>5
  <1>8. \A i \in 1 .. n : i \in Int /\ i >= 1 /\ i + 1 \in 1 .. n + 1
    BY <1>4
  <1>9. ASSUME NEW i \in 1 .. n + 1
        PROVE  i \in Int /\ i >= 1 /\ (i # 1 => i - 1 \in 1 .. n /\ u[i] = r[i - 1])
    <2>1. i \in Int /\ i >= 1
      BY <1>4
    <2>2. i # 1 => i - 1 \in 1 .. n /\ (i - 1) + 1 = i
      BY <1>4
    <2> QED
      BY <1>7, <2>1, <2>2
  <1>10. 1 \in 1 .. n + 1
    BY <1>4
  <1> QED
    BY <1>1, <1>3, <1>4, <1>5, <1>6, <1>7, <1>8, <1>9, <1>10

\* A sequence that has a first step.
LEMMA TopIs ==
    ASSUME NEW S, NEW B \in Seq(S), B # <<>>
    PROVE  Head(B) \in S /\ Tail(B) \in Seq(S) /\ B = Cons(Head(B), Tail(B))
  <1>1. PICK h, t, n : h = Head(B) /\ t = Tail(B) /\ n = Len(B)
    OBVIOUS
  <1>2. /\ n \in Nat /\ n # 0 /\ h \in S /\ t \in Seq(S) /\ h = B[1]
        /\ Len(t) = n - 1 /\ \A i \in 1 .. n - 1 : t[i] = B[i + 1]
    BY <1>1, HeadTailProperties, LenProperties, EmptySeq
  <1>3. PICK u : u = Cons(h, t)
    OBVIOUS
  <1>4. /\ u \in Seq(S) /\ Len(u) = Len(t) + 1 /\ u[1] = h
        /\ \A i \in DOMAIN t : u[i + 1] = t[i]
    <2>1. h \in S /\ t \in Seq(S)
      BY <1>2
    <2>2. Cons(h, t) \in Seq(S)
      BY <2>1, ConsIs
    <2>3. /\ Len(Cons(h, t)) = Len(t) + 1 /\ Cons(h, t)[1] = h
          /\ \A i \in DOMAIN t : Cons(h, t)[i + 1] = t[i]
      BY <2>1, ConsAt
    <2> QED
      BY <1>3, <2>2, <2>3
  <1>5. Len(u) = n /\ DOMAIN t = 1 .. n - 1
    BY <1>2, <1>4, LenProperties
  <1>6. ASSUME NEW i \in 1 .. n
        PROVE  u[i] = B[i]
    <2>1. CASE i = 1
      BY <1>2, <1>4, <2>1
    <2>2. CASE i # 1
      <3>1. i - 1 \in 1 .. n - 1 /\ (i - 1) + 1 = i
        BY <1>2, <2>2
      <3> QED
        BY <1>2, <1>4, <1>5, <3>1
    <2> QED
      BY <2>1, <2>2
  <1> QED
    BY <1>1, <1>2, <1>3, <1>4, <1>5, <1>6, SeqEqual

\* Short sequences.
LEMMA TupleIs ==
    ASSUME NEW S, NEW a \in S, NEW b \in S
    PROVE  <<a, b>> = <<a>> \o <<b>> /\ <<a, b>> = <<>> \o <<a, b>>
  <1>1. <<a>> \in Seq(S) /\ <<b>> \in Seq(S) /\ <<a, b>> \in Seq(S)
    OBVIOUS
  <1>2. <<a, b>> = <<a>> \o <<b>>
    <2>1. Len(<<a>>) = 1 /\ Len(<<b>>) = 1 /\ Len(<<a, b>>) = 2
      OBVIOUS
    <2>2. PICK u : u = <<a>> \o <<b>>
      OBVIOUS
    <2>3. /\ u \in Seq(S) /\ Len(u) = 2
          /\ \A i \in 1 .. 2 : u[i] = IF i <= 1 THEN <<a>>[i] ELSE <<b>>[i - 1]
      BY <1>1, <2>1, <2>2, ConcatProperties
    <2>4. \A i \in 1 .. 2 : u[i] = <<a, b>>[i]
      BY <2>3
    <2> QED
      BY <1>1, <2>1, <2>2, <2>3, <2>4, SeqEqual
  <1>3. <<a, b>> = <<>> \o <<a, b>>
    BY <1>1, ConcatEmptySeq
  <1> QED
    BY <1>2, <1>3

\* Steps that replace the first one.
LEMMA MoreTwo ==
    ASSUME NEW r \in Work, NEW x \in Steps, NEW y \in Steps
    PROVE  <<x, y>> \o r = Cons(x, Cons(y, r))
  <1>1. <<x>> \in Seq(Steps) /\ <<y>> \in Seq(Steps)
    OBVIOUS
  <1>2. <<x>> \o <<y>> = <<x, y>>
    BY TupleIs
  <1>3. (<<x>> \o <<y>>) \o r = <<x>> \o (<<y>> \o r)
    BY <1>1, ConcatAssociative DEF Work
  <1> QED
    BY <1>2, <1>3 DEF Cons

LEMMA MoreThree ==
    ASSUME NEW r \in Work, NEW x \in Steps, NEW y \in Steps, NEW z \in Steps
    PROVE  <<x, y, z>> \o r = Cons(x, Cons(y, Cons(z, r)))
  <1>1. <<x>> \in Seq(Steps) /\ <<y, z>> \in Seq(Steps)
    OBVIOUS
  <1>2. <<x, y, z>> = <<x>> \o <<y, z>>
    OBVIOUS
  <1>3. (<<x>> \o <<y, z>>) \o r = <<x>> \o (<<y, z>> \o r)
    BY <1>1, ConcatAssociative DEF Work
  <1>4. <<y, z>> \o r = Cons(y, Cons(z, r))
    BY MoreTwo
  <1> QED
    BY <1>2, <1>3, <1>4 DEF Cons

\* What a step is.
LEMMA StepIs ==
    ASSUME NEW do, NEW at, NEW val
    PROVE  /\ Step(do, at, val).do = do /\ Step(do, at, val).at = at /\ Step(do, at, val).val = val
           /\ do \in StepNames /\ at \in Pointer \cup {NULL} /\ val \in Object \cup {NULL} \cup Int
              => Step(do, at, val) \in Steps
  BY DEF Step, Steps

\* What a sequence of steps holds that has one more.
LEMMA HasCons ==
    ASSUME NEW x \in Steps, NEW r \in Work
    PROVE  /\ \A y : Has(Cons(x, r), y) <=> y = x \/ Has(r, y)
           /\ BusyIn(Cons(x, r)) = BusyIn(r) \cup {s \in Pointer : x.do = "set" /\ x.at = s}
  <1>1. PICK u : u = Cons(x, r)
    OBVIOUS
  <1>2. /\ u[1] = x /\ 1 \in DOMAIN u
        /\ \A i \in DOMAIN r : i + 1 \in DOMAIN u /\ u[i + 1] = r[i]
        /\ \A i \in DOMAIN u : i # 1 => i - 1 \in DOMAIN r /\ u[i] = r[i - 1]
    BY <1>1, ConsAt DEF Work
  <1>3. \A y : Has(u, y) <=> y = x \/ Has(r, y)
    BY <1>2 DEF Has
  <1>4. BusyIn(u) = BusyIn(r) \cup {s \in Pointer : x.do = "set" /\ x.at = s}
    BY <1>2 DEF BusyIn
  <1> QED
    BY <1>1, <1>3, <1>4

LEMMA HasNone == BusyIn(<<>>) = {} /\ (\A y : ~Has(<<>>, y)) /\ <<>> \in Work
  <1>1. DOMAIN <<>> = {} /\ <<>> \in Work
    BY EmptySeq DEF Work
  <1> QED
    BY <1>1 DEF Has, BusyIn

-----------------------------------------------------------------------------
(* The pattern of an operation that others have interrupted, destructor    *)
(* within destructor: pointers that are still to be written, and objects   *)
(* whose member is still to be released before their memory.               *)

Shape(B) ==
    \A i \in DOMAIN B :
       \/ \E s \in Pointer, x \in Object \cup {NULL} : B[i] = Set(s, x)
       \/ \E p \in Object : B[i] = Free(p)
       \/ \E p \in Object : B[i] = Release(p) /\ i + 1 \in DOMAIN B /\ B[i + 1] = Free(p)
\* An object is destroyed once,
OneFree(B) ==
    \A i, j \in DOMAIN B : B[i].do = "free" /\ B[j] = B[i] => j = i
\* a pointer that is being assigned can only be cleared meanwhile,
InnerClears(B) ==
    \A i, j \in DOMAIN B : i < j /\ B[i].do = "set" /\ B[j].do = "set" /\ B[i].at = B[j].at
                           => B[i].val = NULL
\* and a member is assigned only by the program.
MembersLast(B) ==
    \A i \in DOMAIN B : B[i].do = "set" /\ B[i].at \in Object => i = Len(B)

Pattern(B) == B \in Work /\ Shape(B) /\ OneFree(B) /\ InnerClears(B) /\ MembersLast(B)

\* What may come first.
Fits(x, r) ==
    /\ \/ \E s \in Pointer, y \in Object \cup {NULL} : x = Set(s, y)
       \/ \E p \in Object : x = Free(p)
       \/ \E p \in Object : x = Release(p) /\ Top(r, Free(p))
    /\ x.do = "free" => ~Has(r, x)
    /\ x.do = "set" /\ x.at \in BusyIn(r) => x.val = NULL
    /\ x.do = "set" /\ x.at \in Object => r = <<>>

LEMMA PatternCons ==
    ASSUME NEW x \in Steps, NEW r \in Work
    PROVE  Pattern(Cons(x, r)) <=> Pattern(r) /\ Fits(x, r)
  <1>1. PICK u, n : u = Cons(x, r) /\ n = Len(r)
    OBVIOUS
  <1>2. /\ u \in Work /\ n \in Nat /\ Len(u) = n + 1
        /\ u[1] = x /\ 1 \in DOMAIN u
        /\ \A i \in DOMAIN r : i \in Int /\ i >= 1 /\ i + 1 \in DOMAIN u /\ u[i + 1] = r[i]
        /\ \A i \in DOMAIN u : i \in Int /\ i >= 1 /\ (i # 1 => i - 1 \in DOMAIN r /\ u[i] = r[i - 1])
    <2>1. r \in Seq(Steps)
      BY DEF Work
    <2>2. Cons(x, r) \in Seq(Steps)
      BY <2>1, ConsIs
    <2>3. /\ Len(r) \in Nat /\ Len(Cons(x, r)) = Len(r) + 1
          /\ Cons(x, r)[1] = x
          /\ \A i \in DOMAIN r : i \in Int /\ i >= 1 /\ i + 1 \in DOMAIN Cons(x, r) /\ Cons(x, r)[i + 1] = r[i]
          /\ 1 \in DOMAIN Cons(x, r)
          /\ \A i \in DOMAIN Cons(x, r) : i \in Int /\ i >= 1
                /\ (i # 1 => i - 1 \in DOMAIN r /\ Cons(x, r)[i] = r[i - 1])
      BY <2>1, ConsAt
    <2> QED
      BY <1>1, <2>2, <2>3 DEF Work
  <1>3. r # <<>> => 1 \in DOMAIN r /\ Head(r) = r[1]
    BY HeadTailProperties, LenProperties, EmptySeq DEF Work
  <1>4. r = <<>> => DOMAIN r = {}
    OBVIOUS
  <1>5. \A p : Top(r, Free(p)) <=> 1 \in DOMAIN r /\ r[1] = Free(p)
    BY <1>3, <1>4 DEF Top
  <1>6. Shape(u) <=> /\ Shape(r)
                     /\ \/ \E s \in Pointer, y \in Object \cup {NULL} : x = Set(s, y)
                        \/ \E p \in Object : x = Free(p)
                        \/ \E p \in Object : x = Release(p) /\ Top(r, Free(p))
    <2>1. \A p : 1 + 1 \in DOMAIN u /\ u[1 + 1] = Free(p) <=> Top(r, Free(p))
      <3>1. 1 + 1 \in DOMAIN u => 1 \in DOMAIN r /\ u[1 + 1] = r[1]
        <4>1. 1 + 1 # 1 /\ (1 + 1) - 1 = 1
          OBVIOUS
        <4> QED
          BY <1>2, <4>1
      <3>2. 1 \in DOMAIN r => 1 + 1 \in DOMAIN u /\ u[1 + 1] = r[1]
        BY <1>2
      <3> QED
        BY <1>5, <3>1, <3>2
    <2>2. \A i \in DOMAIN r : \A p : (i + 1) + 1 \in DOMAIN u /\ u[(i + 1) + 1] = Free(p)
                                      <=> i + 1 \in DOMAIN r /\ r[i + 1] = Free(p)
      <3> SUFFICES ASSUME NEW i \in DOMAIN r
                   PROVE  /\ (i + 1) + 1 \in DOMAIN u <=> i + 1 \in DOMAIN r
                          /\ i + 1 \in DOMAIN r => u[(i + 1) + 1] = r[i + 1]
        OBVIOUS
      <3>1. i + 1 \in DOMAIN r => (i + 1) + 1 \in DOMAIN u /\ u[(i + 1) + 1] = r[i + 1]
        BY <1>2
      <3>2. (i + 1) + 1 # 1 /\ ((i + 1) + 1) - 1 = i + 1
        BY <1>2
      <3>3. (i + 1) + 1 \in DOMAIN u => i + 1 \in DOMAIN r
        BY <1>2, <3>2
      <3> QED
        BY <3>1, <3>3
    <2>3. ASSUME Shape(u)
          PROVE  Shape(r)
      <3> SUFFICES ASSUME NEW i \in DOMAIN r
                   PROVE  \/ \E s \in Pointer, y \in Object \cup {NULL} : r[i] = Set(s, y)
                          \/ \E p \in Object : r[i] = Free(p)
                          \/ \E p \in Object : r[i] = Release(p) /\ i + 1 \in DOMAIN r /\ r[i + 1] = Free(p)
        BY DEF Shape
      <3>1. i + 1 \in DOMAIN u /\ u[i + 1] = r[i]
        BY <1>2
      <3> QED
        BY <2>2, <2>3, <3>1 DEF Shape
    <2>4. ASSUME Shape(u)
          PROVE  \/ \E s \in Pointer, y \in Object \cup {NULL} : x = Set(s, y)
                 \/ \E p \in Object : x = Free(p)
                 \/ \E p \in Object : x = Release(p) /\ Top(r, Free(p))
      BY <1>2, <2>1, <2>4 DEF Shape
    <2>5. ASSUME Shape(r),
                 \/ \E s \in Pointer, y \in Object \cup {NULL} : x = Set(s, y)
                 \/ \E p \in Object : x = Free(p)
                 \/ \E p \in Object : x = Release(p) /\ Top(r, Free(p)),
                 NEW j \in DOMAIN u
          PROVE  \/ \E s \in Pointer, y \in Object \cup {NULL} : u[j] = Set(s, y)
                 \/ \E p \in Object : u[j] = Free(p)
                 \/ \E p \in Object : u[j] = Release(p) /\ j + 1 \in DOMAIN u /\ u[j + 1] = Free(p)
      <3>1. CASE j = 1
        BY <1>2, <2>1, <2>5, <3>1
      <3>2. CASE j # 1
        <4>1. PICK i \in DOMAIN r : j = i + 1 /\ u[j] = r[i]
          <5>1. j - 1 \in DOMAIN r /\ u[j] = r[j - 1] /\ j = (j - 1) + 1
            BY <1>2, <3>2
          <5> QED
            BY <5>1
        <4> QED
          BY <2>2, <2>5, <4>1 DEF Shape
      <3> QED
        BY <3>1, <3>2
    <2> QED
      BY <2>3, <2>4, <2>5 DEF Shape
  <1>7. OneFree(u) <=> OneFree(r) /\ (x.do = "free" => ~Has(r, x))
    <2>1. ASSUME OneFree(u)
          PROVE  OneFree(r) /\ (x.do = "free" => ~Has(r, x))
      <3>1. ASSUME NEW i \in DOMAIN r, NEW j \in DOMAIN r, r[i].do = "free", r[j] = r[i]
            PROVE  j = i
        <4>1. i + 1 \in DOMAIN u /\ j + 1 \in DOMAIN u /\ u[i + 1] = r[i] /\ u[j + 1] = r[j]
          BY <1>2
        <4>2. j + 1 = i + 1
          BY <2>1, <3>1, <4>1 DEF OneFree
        <4> QED
          BY <1>2, <4>2
      <3>2. ASSUME x.do = "free", NEW j \in DOMAIN r, r[j] = x
            PROVE  FALSE
        <4>1. j + 1 \in DOMAIN u /\ u[j + 1] = u[1] /\ u[1].do = "free" /\ 1 \in DOMAIN u
          BY <1>2, <3>2
        <4>2. j + 1 = 1
          BY <2>1, <4>1 DEF OneFree
        <4> QED
          BY <1>2, <4>2
      <3> QED
        BY <3>1, <3>2 DEF OneFree, Has
    <2>2. ASSUME OneFree(r), x.do = "free" => ~Has(r, x),
                 NEW i \in DOMAIN u, NEW j \in DOMAIN u, u[i].do = "free", u[j] = u[i]
          PROVE  j = i
      <3>1. CASE i = 1 \/ j = 1
        BY <1>2, <2>2, <3>1 DEF Has
      <3>2. CASE i # 1 /\ j # 1
        <4>1. i - 1 \in DOMAIN r /\ j - 1 \in DOMAIN r /\ u[i] = r[i - 1] /\ u[j] = r[j - 1]
          BY <1>2, <3>2
        <4>2. i - 1 = j - 1
          BY <2>2, <4>1 DEF OneFree
        <4> QED
          BY <1>2, <4>2
      <3> QED
        BY <3>1, <3>2
    <2> QED
      BY <2>1, <2>2 DEF OneFree
  <1>8. ASSUME x.do = "set" => x.at \in Pointer
        PROVE  InnerClears(u) <=> InnerClears(r) /\ (x.do = "set" /\ x.at \in BusyIn(r) => x.val = NULL)
    <2>1. ASSUME InnerClears(u)
          PROVE  InnerClears(r) /\ (x.do = "set" /\ x.at \in BusyIn(r) => x.val = NULL)
      <3>1. ASSUME NEW i \in DOMAIN r, NEW j \in DOMAIN r, i < j,
                   r[i].do = "set", r[j].do = "set", r[i].at = r[j].at
            PROVE  r[i].val = NULL
        <4>1. /\ i + 1 \in DOMAIN u /\ j + 1 \in DOMAIN u /\ u[i + 1] = r[i] /\ u[j + 1] = r[j]
              /\ i \in Int /\ j \in Int
          BY <1>2
        <4>2. i + 1 < j + 1
          BY <3>1, <4>1
        <4> QED
          BY <2>1, <3>1, <4>1, <4>2 DEF InnerClears
      <3>2. ASSUME x.do = "set", NEW j \in DOMAIN r, r[j].do = "set", r[j].at = x.at
            PROVE  x.val = NULL
        <4>1. j + 1 \in DOMAIN u /\ u[j + 1] = r[j] /\ u[1] = x /\ 1 \in DOMAIN u /\ 1 < j + 1
          BY <1>2
        <4> QED
          BY <2>1, <3>2, <4>1 DEF InnerClears
      <3> QED
        BY <3>1, <3>2 DEF InnerClears, BusyIn
    <2>2. ASSUME InnerClears(r), x.do = "set" /\ x.at \in BusyIn(r) => x.val = NULL,
                 NEW i \in DOMAIN u, NEW j \in DOMAIN u, i < j,
                 u[i].do = "set", u[j].do = "set", u[i].at = u[j].at
          PROVE  u[i].val = NULL
      <3>1. j # 1 /\ j - 1 \in DOMAIN r /\ u[j] = r[j - 1] /\ i \in Int /\ j \in Int
        <4>1. j # 1
          BY <1>2, <2>2
        <4> QED
          BY <1>2, <4>1
      <3>2. CASE i = 1
        <4>1. x.do = "set" /\ x.at = u[j].at /\ u[i] = x
          BY <1>2, <2>2, <3>2
        <4>2. x.at \in BusyIn(r)
          BY <1>8, <2>2, <3>1, <4>1 DEF BusyIn
        <4> QED
          BY <2>2, <4>1, <4>2
      <3>3. CASE i # 1
        <4>1. i - 1 \in DOMAIN r /\ u[i] = r[i - 1]
          BY <1>2, <3>3
        <4>2. i - 1 < j - 1
          BY <2>2, <3>1
        <4> QED
          BY <2>2, <3>1, <4>1, <4>2 DEF InnerClears
      <3> QED
        BY <3>2, <3>3
    <2> QED
      BY <2>1, <2>2 DEF InnerClears
  <1>9. MembersLast(u) <=> MembersLast(r) /\ (x.do = "set" /\ x.at \in Object => r = <<>>)
    <2>1. r = <<>> <=> n = 0
      BY <1>1, EmptySeq DEF Work
    <2>2. ASSUME MembersLast(u)
          PROVE  MembersLast(r) /\ (x.do = "set" /\ x.at \in Object => r = <<>>)
      <3>1. ASSUME NEW i \in DOMAIN r, r[i].do = "set", r[i].at \in Object
            PROVE  i = n
        <4>1. i + 1 \in DOMAIN u /\ u[i + 1] = r[i] /\ i \in Int
          BY <1>2
        <4>2. i + 1 = n + 1
          BY <1>2, <2>2, <3>1, <4>1 DEF MembersLast
        <4> QED
          BY <1>2, <4>1, <4>2
      <3>2. ASSUME x.do = "set", x.at \in Object
            PROVE  r = <<>>
        <4>1. 1 = n + 1
          BY <1>2, <2>2, <3>2 DEF MembersLast
        <4> QED
          BY <1>2, <2>1, <4>1
      <3> QED
        BY <1>1, <3>1, <3>2 DEF MembersLast
    <2>3. ASSUME MembersLast(r), x.do = "set" /\ x.at \in Object => r = <<>>,
                 NEW i \in DOMAIN u, u[i].do = "set", u[i].at \in Object
          PROVE  i = Len(u)
      <3>1. CASE i = 1
        BY <1>2, <2>1, <2>3, <3>1
      <3>2. CASE i # 1
        <4>1. i - 1 \in DOMAIN r /\ u[i] = r[i - 1] /\ i \in Int
          BY <1>2, <3>2
        <4>2. i - 1 = n
          BY <1>1, <2>3, <4>1 DEF MembersLast
        <4> QED
          BY <1>2, <4>1, <4>2
      <3> QED
        BY <3>1, <3>2
    <2> QED
      BY <2>2, <2>3 DEF MembersLast
  <1>10. \A s, y : Set(s, y).at = s /\ Set(s, y).do = "set"
    BY StepIs DEF Set
  <1>11. \A p : Free(p).do = "free" /\ Release(p).do = "release"
    BY StepIs DEF Free, Release
  <1>12. CASE \/ \E s \in Pointer, y \in Object \cup {NULL} : x = Set(s, y)
              \/ \E p \in Object : x = Free(p)
              \/ \E p \in Object : x = Release(p) /\ Top(r, Free(p))
    <2>1. x.do = "set" => x.at \in Pointer
      BY <1>10, <1>11, <1>12
    <2> QED
      BY <1>1, <1>2, <1>6, <1>7, <1>8, <1>9, <1>12, <2>1 DEF Pattern, Fits
  <1>13. CASE ~(\/ \E s \in Pointer, y \in Object \cup {NULL} : x = Set(s, y)
                \/ \E p \in Object : x = Free(p)
                \/ \E p \in Object : x = Release(p) /\ Top(r, Free(p)))
    BY <1>1, <1>6, <1>13 DEF Pattern, Fits
  <1> QED
    BY <1>12, <1>13

-----------------------------------------------------------------------------
(* The objects a pointer leads to.                                         *)

\* Where each pointer leads while the pointers of B are busy.
Links(P, B) == [t \in Pointer |-> IF t \in BusyIn(B) THEN NULL ELSE P[t]]

Leading == [Pointer -> Object \cup {NULL}]
ClosedBy(F, g, S) == \A t \in {g} \cup S : F[t] \in S \cup {NULL}
ChainOf(F, g) == {o \in Object : \A S \in SUBSET Object : ClosedBy(F, g, S) => o \in S}

LEMMA NullIs == NULL \notin Object /\ NULL \notin Pointer /\ Object \subseteq Pointer /\ Global \subseteq Pointer
  BY PointerAssumption DEF Pointer

LEMMA LinksAre ==
    ASSUME NEW P \in Leading, NEW B
    PROVE  /\ Links(P, B) \in Leading
           /\ \A t \in Pointer : Links(P, B)[t] = IF t \in BusyIn(B) THEN NULL ELSE P[t]
  BY DEF Links, Leading

\* The chain of a pointer is the least set it does not lead out of.
LEMMA ChainLeast ==
    ASSUME NEW F \in Leading, NEW g \in Pointer
    PROVE  /\ ChainOf(F, g) \subseteq Object
           /\ \A S \in SUBSET Object : ClosedBy(F, g, S) => ChainOf(F, g) \subseteq S
           /\ ClosedBy(F, g, ChainOf(F, g))
  <1>1. PICK C : C = ChainOf(F, g)
    OBVIOUS
  <1>2. C \subseteq Object /\ \A S \in SUBSET Object : ClosedBy(F, g, S) => C \subseteq S
    BY <1>1 DEF ChainOf
  <1>3. ASSUME NEW t \in {g} \cup C
        PROVE  F[t] \in C \cup {NULL}
    <2>1. F[t] \in Object \cup {NULL}
      BY <1>2, <1>3, NullIs DEF Leading
    <2>2. ASSUME NEW S \in SUBSET Object, ClosedBy(F, g, S), F[t] # NULL
          PROVE  F[t] \in S
      <3>1. t \in {g} \cup S
        BY <1>2, <2>2
      <3> QED
        BY <2>2, <3>1 DEF ClosedBy
    <2>3. F[t] # NULL => F[t] \in ChainOf(F, g)
      BY <2>1, <2>2 DEF ChainOf
    <2> QED
      BY <1>1, <2>3
  <1> QED
    BY <1>1, <1>2, <1>3 DEF ClosedBy

\* Something on the chain, or its start, leads to each of its objects.
LEMMA ChainStarts ==
    ASSUME NEW F \in Leading, NEW g \in Pointer, NEW o \in ChainOf(F, g)
    PROVE  \E t \in {g} \cup ChainOf(F, g) : F[t] = o
  <1>1. PICK C : C = ChainOf(F, g)
    OBVIOUS
  <1>2. /\ C \subseteq Object /\ ClosedBy(F, g, C) /\ o \in C
        /\ \A S \in SUBSET Object : ClosedBy(F, g, S) => C \subseteq S
    BY <1>1, ChainLeast
  <1> SUFFICES ASSUME \A t \in {g} \cup C : F[t] # o
               PROVE  FALSE
    BY <1>1
  <1>3. ClosedBy(F, g, C \ {o})
    BY <1>2 DEF ClosedBy
  <1> QED
    BY <1>2, <1>3

\* The chain is no shorter when pointers that led nowhere lead on.
LEMMA ChainGrows ==
    ASSUME NEW F \in Leading, NEW G \in Leading, NEW g \in Pointer,
           \A t \in {g} \cup ChainOf(F, g) : F[t] = NULL \/ G[t] = F[t]
    PROVE  ChainOf(F, g) \subseteq ChainOf(G, g)
  <1>1. PICK C, D : C = ChainOf(F, g) /\ D = ChainOf(G, g)
    OBVIOUS
  <1>2. /\ C \subseteq Object /\ ClosedBy(F, g, C) /\ D \subseteq Object /\ ClosedBy(G, g, D)
        /\ \A S \in SUBSET Object : ClosedBy(F, g, S) => C \subseteq S
    BY <1>1, ChainLeast
  <1>3. ClosedBy(F, g, C \cap D)
    <2> SUFFICES ASSUME NEW t \in {g} \cup (C \cap D), F[t] # NULL
                 PROVE  F[t] \in C /\ F[t] \in D
      BY DEF ClosedBy
    <2>1. F[t] \in C
      BY <1>2 DEF ClosedBy
    <2>2. G[t] = F[t]
      BY <1>1
    <2>3. G[t] \in D \cup {NULL}
      BY <1>2 DEF ClosedBy
    <2> QED
      BY <2>1, <2>2, <2>3
  <1> QED
    BY <1>1, <1>2, <1>3

\* A member stays on a chain when it leads no further itself.
LEMMA ChainKeepsEnd ==
    ASSUME NEW F \in Leading, NEW G \in Leading, NEW g \in Pointer,
           NEW s \in ChainOf(F, g), s # g, \A t \in Pointer : t # s => G[t] = F[t]
    PROVE  s \in ChainOf(G, g)
  <1>1. PICK C, D : C = ChainOf(F, g) /\ D = ChainOf(G, g)
    OBVIOUS
  <1>2. /\ C \subseteq Object /\ D \subseteq Object /\ ClosedBy(G, g, D) /\ s \in C
        /\ \A S \in SUBSET Object : ClosedBy(F, g, S) => C \subseteq S
    BY <1>1, ChainLeast
  <1> SUFFICES ASSUME s \notin D
               PROVE  FALSE
    BY <1>1
  <1>3. ClosedBy(F, g, D)
    <2> SUFFICES ASSUME NEW t \in {g} \cup D
                 PROVE  F[t] \in D \cup {NULL}
      BY DEF ClosedBy
    <2>1. t \in Pointer /\ t # s
      BY <1>2, NullIs
    <2> QED
      BY <1>2, <2>1 DEF ClosedBy
  <1> QED
    BY <1>2, <1>3

\* The operators of the specification, where the pointers of B are busy.
LEMMA ChainIs ==
    ASSUME NEW B, Busy = BusyIn(B), NEW s \in Pointer
    PROVE  Chain(s) = ChainOf(Links(ptr, B), s)
  <1>1. \A t \in Pointer : Follow(t) = Links(ptr, B)[t]
    BY DEF Follow, Links
  <1>2. \A S \in SUBSET Object : Leads(s, S) <=> ClosedBy(Links(ptr, B), s, S)
    BY <1>1, NullIs DEF Leads, ClosedBy
  <1> QED
    BY <1>2 DEF Chain, ChainOf

-----------------------------------------------------------------------------
(* The references in the middle of an operation: P is where the pointers   *)
(* point, A the live objects, B the interrupted operations with the        *)
(* pointer of the operation in progress, and c the counts.                 *)

Counter == [Object -> Int]

\* The pointers whose object is counted: the ones at rest, the members that a
\* destructor has still to release, and the one that is about to be (rel).
Holders(A, B, rel) ==
    {s \in Pointer : \/ s = rel
                     \/ Has(B, Release(s))
                     \/ s \in (Global \cup A) \ BusyIn(B)}
Holding(P, A, B, rel, o) == {s \in Holders(A, B, rel) : P[s] = o}

\* The pointers that will point to an object that is counted for them.
Waiting(B, o) == {s \in Pointer : Has(B, Set(s, o))}

\* An increment or decrement of p that is still to be done.
One(p, o) == IF p = o THEN 1 ELSE 0

\* A pointer that an interrupted operation will write does not lead to a live
\* object any more,
Behind(P, A, B) == B # <<>> => \A s \in BusyIn(Tail(B)) : P[s] \notin A
\* what it will lead to is alive,
Targets(A, B) == \A s \in Pointer, x \in Object : Has(B, Set(s, x)) => x \in A
\* and a member that is assigned stays within reach of the program.
OnChains(P, B) ==
    \A m \in BusyIn(B) \cap Object : \E g \in Global : m \in ChainOf(Links(P, B), g)
Doomed(A, B) == \A p \in Object : Has(B, Free(p)) => p \notin A

\* A counted pointer leads to a live object, except where a destructor clears
\* the pointer whose release runs it.
Held(P, A, B, rel) ==
    \A s \in Holders(A, B, rel) : \/ P[s] \in A \cup {NULL}
                                  \/ s = rel /\ s \in Global /\ Top(B, Set(s, NULL))

\* dc is the object to be decremented, ic to be incremented, del to be deleted.
Counted(P, A, B, rel, dc, ic, c) ==
    \A o \in A : c[o] = Cardinality(Holding(P, A, B, rel, o)) + Cardinality(Waiting(B, o))
                        + One(dc, o) - One(ic, o)
Needed(P, A, B, rel, dc, del) ==
    \A o \in A : Holding(P, A, B, rel, o) = {} /\ Waiting(B, o) = {} /\ dc # o => del = o
Unneeded(P, A, B, rel, dc, del) ==
    del # NULL => /\ del \in A /\ dc # del
                  /\ Holding(P, A, B, rel, del) = {} /\ Waiting(B, del) = {}

\* The count of a dying object is 0, or -1 when its last pointer was cleared
\* again; then no pointer leads to it or that one is being written.
Spent(P, A, B, rel, dc, c) ==
    \A o \in Object \ A :
       /\ c[o] \in {0, -1}
       /\ c[o] = -1 => \A g \in Global : P[g] = o => rel = NULL /\ dc = NULL /\ Top(B, Set(g, NULL))
Single(P, A) ==
    \A g, h \in Global : P[g] = P[h] /\ P[g] \notin A \cup {NULL} => g = h

Mid(P, A, B, rel, dc, ic, del, c) ==
    /\ P \in Leading /\ A \in SUBSET Object /\ c \in Counter
    /\ rel \in Pointer \cup {NULL} /\ dc \in Object \cup {NULL}
    /\ ic \in Object \cup {NULL} /\ del \in Object \cup {NULL}
    /\ Pattern(B)
    /\ Behind(P, A, B) /\ Targets(A, B) /\ OnChains(P, B) /\ Doomed(A, B)
    /\ Held(P, A, B, rel)
    /\ Counted(P, A, B, rel, dc, ic, c)
    /\ Needed(P, A, B, rel, dc, del) /\ Unneeded(P, A, B, rel, dc, del)
    /\ Spent(P, A, B, rel, dc, c)
    /\ Single(P, A)

LEMMA PointersFinite ==
    ASSUME NEW S, S \subseteq Pointer
    PROVE  /\ IsFiniteSet(S) /\ Cardinality(S) \in Nat /\ Cardinality(S) <= Cardinality(Pointer)
           /\ Cardinality(Pointer) \in Nat
           /\ Cardinality(S) = 0 <=> S = {}
           /\ \A x : /\ x \in S => Cardinality(S \ {x}) = Cardinality(S) - 1
                     /\ x \notin S => Cardinality(S \cup {x}) = Cardinality(S) + 1
  <1>1. IsFiniteSet(Pointer)
    BY PointerAssumption, FS_Union DEF Pointer
  <1>2. IsFiniteSet(S) /\ Cardinality(S) <= Cardinality(Pointer)
    BY <1>1, FS_Subset
  <1>3. Cardinality(S) \in Nat /\ Cardinality(Pointer) \in Nat
    BY <1>1, <1>2, FS_CardinalityType
  <1>4. Cardinality(S) = 0 <=> S = {}
    BY <1>2, FS_EmptySet
  <1>5. \A x : x \in S => Cardinality(S \ {x}) = Cardinality(S) - 1
    BY <1>2, FS_RemoveElement
  <1>6. \A x : x \notin S => Cardinality(S \cup {x}) = Cardinality(S) + 1
    BY <1>2, FS_AddElement
  <1> QED
    BY <1>2, <1>3, <1>4, <1>5, <1>6

LEMMA TopCons ==
    ASSUME NEW x \in Steps, NEW r \in Work
    PROVE  \A y : Top(Cons(x, r), y) <=> y = x
  BY ConsIs DEF Top, Work

LEMMA StepsAre ==
    /\ \A s \in Pointer, x \in Object \cup {NULL} : Set(s, x) \in Steps
    /\ \A p \in Object : Free(p) \in Steps
    /\ \A s \in Pointer : Release(s) \in Steps
    /\ \A s, x : Set(s, x).do = "set" /\ Set(s, x).at = s /\ Set(s, x).val = x
    /\ \A p : Free(p).do = "free" /\ Free(p).at = p /\ Release(p).do = "release" /\ Release(p).at = p
    /\ \A s, t, x, y : Set(s, x) = Set(t, y) => s = t /\ x = y
    /\ \A p, q : (Free(p) = Free(q) => p = q) /\ (Release(p) = Release(q) => p = q)
    /\ \A s, x, p : Set(s, x) # Free(p) /\ Set(s, x) # Release(p)
    /\ \A p, q : Free(p) # Release(q)
  <1>1. NULL \in Pointer \cup {NULL} /\ Object \subseteq Pointer /\ {"set", "free", "release"} \subseteq StepNames
    BY NullIs DEF StepNames
  <1>2. /\ \A s, x : Set(s, x).do = "set" /\ Set(s, x).at = s /\ Set(s, x).val = x
        /\ \A p : Free(p).do = "free" /\ Free(p).at = p /\ Release(p).do = "release" /\ Release(p).at = p
    BY StepIs DEF Set, Free, Release
  <1>3. \A s \in Pointer, x \in Object \cup {NULL} : Set(s, x) \in Steps
    BY <1>1, StepIs DEF Set
  <1>4. \A p \in Object : Free(p) \in Steps
    BY <1>1, StepIs DEF Free
  <1>5. \A s \in Pointer : Release(s) \in Steps
    BY <1>1, StepIs DEF Release
  <1>6. "set" # "free" /\ "set" # "release" /\ "free" # "release"
    OBVIOUS
  <1>7. \A s, t, x, y : Set(s, x) = Set(t, y) => s = t /\ x = y
    BY <1>2
  <1>8. \A p, q : (Free(p) = Free(q) => p = q) /\ (Release(p) = Release(q) => p = q)
    BY <1>2
  <1>9. \A s, x, p : Set(s, x) # Free(p) /\ Set(s, x) # Release(p)
    BY <1>2, <1>6
  <1>10. \A p, q : Free(p) # Release(q)
    BY <1>2, <1>6
  <1> QED
    BY <1>2, <1>3, <1>4, <1>5, <1>7, <1>8, <1>9, <1>10

\* What a pattern holds.
LEMMA PatternHas ==
    ASSUME NEW B, Pattern(B)
    PROVE  /\ B \in Work
           /\ BusyIn(B) \subseteq Pointer
           /\ \A s : s \in BusyIn(B) <=> s \in Pointer /\ \E x \in Object \cup {NULL} : Has(B, Set(s, x))
           /\ \A p : Has(B, Release(p)) => p \in Object /\ Has(B, Free(p))
  <1>1. B \in Work /\ Shape(B) /\ BusyIn(B) \subseteq Pointer
    BY DEF Pattern, BusyIn
  <1>2. ASSUME NEW s \in BusyIn(B)
        PROVE  \E x \in Object \cup {NULL} : Has(B, Set(s, x))
    <2>1. PICK i \in DOMAIN B : B[i].do = "set" /\ B[i].at = s
      BY <1>2 DEF BusyIn
    <2>2. PICK t \in Pointer, x \in Object \cup {NULL} : B[i] = Set(t, x)
      BY <1>1, <2>1, StepsAre DEF Shape
    <2> QED
      BY <2>1, <2>2, StepsAre DEF Has
  <1>3. ASSUME NEW s \in Pointer, NEW x, Has(B, Set(s, x))
        PROVE  s \in BusyIn(B)
    BY <1>3, StepsAre DEF Has, BusyIn
  <1>4. ASSUME NEW p, Has(B, Release(p))
        PROVE  p \in Object /\ Has(B, Free(p))
    <2>1. PICK i \in DOMAIN B : B[i] = Release(p)
      BY <1>4 DEF Has
    <2>2. PICK q \in Object : B[i] = Release(q) /\ i + 1 \in DOMAIN B /\ B[i + 1] = Free(q)
      BY <1>1, <2>1, StepsAre DEF Shape
    <2>3. p = q
      BY <2>1, <2>2, StepsAre
    <2> QED
      BY <2>2, <2>3 DEF Has
  <1> QED
    BY <1>1, <1>2, <1>3, <1>4

-----------------------------------------------------------------------------
(* Consequences.                                                           *)

\* What code can reach is alive; the pointers an operation will write are the
\* program's or members of live objects, and are not counted any more.
LEMMA MidFacts ==
    ASSUME NEW P, NEW A, NEW B, NEW rel, NEW dc, NEW ic, NEW del, NEW c,
           Mid(P, A, B, rel, dc, ic, del, c)
    PROVE  /\ \A s \in (Global \cup A) \ BusyIn(B) : P[s] \in A \cup {NULL}
           /\ \A g \in Global : ChainOf(Links(P, B), g) \subseteq A
           /\ BusyIn(B) \subseteq Global \cup A
           /\ \A s \in BusyIn(B) : ~Has(B, Release(s))
           /\ \A s \in Holders(A, B, rel) : s \in BusyIn(B) => s = rel
  <1>1. /\ P \in Leading /\ A \subseteq Object /\ Pattern(B) /\ Held(P, A, B, rel)
        /\ OnChains(P, B) /\ Doomed(A, B)
    BY DEF Mid
  <1>2. ASSUME NEW s \in (Global \cup A) \ BusyIn(B)
        PROVE  P[s] \in A \cup {NULL}
    <2>1. s \in Holders(A, B, rel)
      BY <1>1, NullIs DEF Holders
    <2>2. ASSUME Top(B, Set(s, NULL)), s \in Global
          PROVE  FALSE
      <3>1. B \in Work /\ B # <<>> /\ Head(B) = Set(s, NULL)
        BY <1>1, <2>2, PatternHas DEF Top
      <3>2. Head(B) \in Steps /\ Tail(B) \in Work /\ B = Cons(Head(B), Tail(B))
        BY <3>1, TopIs DEF Work
      <3>3. Has(B, Set(s, NULL))
        BY <3>1, <3>2, HasCons
      <3> QED
        BY <1>1, <1>2, <2>2, <3>3, NullIs, PatternHas
    <2> QED
      BY <1>1, <2>1, <2>2 DEF Held
  <1>3. ASSUME NEW g \in Global
        PROVE  ChainOf(Links(P, B), g) \subseteq A
    <2>1. PICK F : F = Links(P, B)
      OBVIOUS
    <2>2. F \in Leading /\ \A t \in Pointer : F[t] = IF t \in BusyIn(B) THEN NULL ELSE P[t]
      BY <1>1, <2>1, LinksAre
    <2>3. ClosedBy(F, g, A)
      <3> SUFFICES ASSUME NEW t \in {g} \cup A
                   PROVE  F[t] \in A \cup {NULL}
        BY DEF ClosedBy
      <3>1. t \in Pointer /\ t \in Global \cup A
        BY <1>1, NullIs
      <3> QED
        BY <1>2, <2>2, <3>1
    <2>4. A \in SUBSET Object /\ g \in Pointer
      BY <1>1, NullIs
    <2> QED
      BY <2>1, <2>2, <2>3, <2>4, ChainLeast
  <1>4. ASSUME NEW s \in BusyIn(B)
        PROVE  s \in Global \cup A
    <2>1. s \in Pointer
      BY <1>1, <1>4, PatternHas
    <2>2. CASE s \in Object
      BY <1>1, <1>3, <1>4, <2>2 DEF OnChains
    <2> QED
      BY <2>1, <2>2 DEF Pointer
  <1>5. ASSUME NEW s \in BusyIn(B), Has(B, Release(s))
        PROVE  FALSE
    <2>1. s \in Object /\ Has(B, Free(s))
      BY <1>1, <1>5, PatternHas
    <2>2. s \notin A /\ s \notin Global
      BY <1>1, <2>1, PointerAssumption DEF Doomed
    <2> QED
      BY <1>4, <1>5, <2>2
  <1>6. ASSUME NEW s \in Holders(A, B, rel), s \in BusyIn(B)
        PROVE  s = rel
    BY <1>5, <1>6 DEF Holders
  <1> QED
    BY <1>2, <1>3, <1>4, <1>5, <1>6

\* The numbers of references, and a bound for them.
LEMMA HoldingIs ==
    ASSUME NEW P, NEW A, NEW B, NEW rel, NEW o
    PROVE  /\ Holding(P, A, B, rel, o) \subseteq Pointer /\ Waiting(B, o) \subseteq Pointer
           /\ Cardinality(Holding(P, A, B, rel, o)) \in Nat /\ Cardinality(Waiting(B, o)) \in Nat
           /\ Cardinality(Holding(P, A, B, rel, o)) = 0 <=> Holding(P, A, B, rel, o) = {}
           /\ Cardinality(Waiting(B, o)) = 0 <=> Waiting(B, o) = {}
  <1>1. Holding(P, A, B, rel, o) \subseteq Pointer /\ Waiting(B, o) \subseteq Pointer
    BY DEF Holding, Holders, Waiting
  <1> QED
    BY <1>1, PointersFinite

LEMMA MidBound ==
    ASSUME NEW P, NEW A, NEW B, NEW rel, NEW dc, NEW ic, NEW del, NEW c,
           Mid(P, A, B, rel, dc, ic, del, c), rel = NULL \/ dc = NULL, NEW o \in Object
    PROVE  c[o] \in Int /\ -1 <= c[o] /\ c[o] <= Cardinality(Pointer) + 1
  <1>1. PICK n : n = Cardinality(Pointer)
    OBVIOUS
  <1>2. n \in Nat
    BY <1>1, PointersFinite
  <1>3. CASE o \notin A
    <2>1. c[o] \in {0, -1}
      BY <1>3 DEF Mid, Spent
    <2> QED
      BY <1>1, <1>2, <2>1
  <1>4. CASE o \in A
    <2>1. PICK H, W, I : H = Holding(P, A, B, rel, o) /\ W = Waiting(B, o) /\ I = H \cap W
      OBVIOUS
    <2>2. /\ H \subseteq Pointer /\ W \subseteq Pointer /\ IsFiniteSet(H) /\ IsFiniteSet(W)
          /\ Cardinality(H) \in Nat /\ Cardinality(W) \in Nat /\ Cardinality(I) \in Nat
          /\ Cardinality(H \cup W) \in Nat /\ Cardinality(H \cup W) <= n
      <3>1. H \subseteq Pointer /\ W \subseteq Pointer
        BY <2>1, HoldingIs
      <3>2. H \cup W \subseteq Pointer /\ I \subseteq Pointer
        BY <2>1, <3>1
      <3>3. IsFiniteSet(H) /\ IsFiniteSet(W) /\ Cardinality(H) \in Nat /\ Cardinality(W) \in Nat
        BY <3>1, PointersFinite
      <3>4. Cardinality(I) \in Nat
        BY <3>2, PointersFinite
      <3>5. Cardinality(H \cup W) \in Nat /\ Cardinality(H \cup W) <= n
        BY <1>1, <3>2, PointersFinite
      <3> QED
        BY <3>1, <3>3, <3>4, <3>5
    <2>3. Cardinality(H \cup W) = Cardinality(H) + Cardinality(W) - Cardinality(I)
      BY <2>1, <2>2, FS_Union
    <2>4. I \subseteq {rel} /\ (rel = NULL => I = {})
      <3>1. I \subseteq {rel}
        <4> SUFFICES ASSUME NEW s \in I
                     PROVE  s = rel
          OBVIOUS
        <4>1. s \in Holders(A, B, rel) /\ s \in Pointer /\ Has(B, Set(s, o))
          BY <2>1 DEF Holding, Waiting
        <4>2. s \in BusyIn(B)
          BY <4>1, PatternHas DEF Mid
        <4> QED
          BY <4>1, <4>2, MidFacts
      <3> QED
        BY <2>1, <2>2, <3>1, NullIs
    <2>5. Cardinality(I) <= 1 /\ (rel = NULL => Cardinality(I) = 0)
      <3>1. IsFiniteSet({rel}) /\ Cardinality({rel}) = 1 /\ Cardinality({}) = 0
        BY FS_Singleton, FS_EmptySet
      <3>2. Cardinality(I) <= Cardinality({rel})
        BY <2>4, <3>1, FS_Subset
      <3> QED
        BY <2>4, <3>1, <3>2
    <2>6. c[o] = Cardinality(H) + Cardinality(W) + One(dc, o) - One(ic, o)
      BY <1>4, <2>1 DEF Mid, Counted
    <2>7. One(dc, o) \in {0, 1} /\ One(ic, o) \in {0, 1} /\ (dc = NULL => One(dc, o) = 0)
      BY NullIs DEF One
    <2> QED
      BY <1>1, <1>2, <2>2, <2>3, <2>5, <2>6, <2>7
  <1> QED
    BY <1>3, <1>4

-----------------------------------------------------------------------------
(* The steps of an operation.                                              *)

LEMMA OneIs == \A p, o : One(p, o) \in {0, 1} /\ (One(p, o) = 1 <=> p = o)
  BY DEF One

\* The new object of an assignment is counted.
LEMMA CountUp ==
    ASSUME NEW P, NEW A, NEW B, NEW s, NEW o, NEW c,
           Mid(P, A, B, s, NULL, o, NULL, c), o \in A
    PROVE  Mid(P, A, B, s, NULL, NULL, NULL, [c EXCEPT ![o] = c[o] + 1])
  <1>1. PICK d : d = [c EXCEPT ![o] = c[o] + 1]
    OBVIOUS
  <1>2. o \in Object /\ c \in Counter /\ A \subseteq Object
    BY DEF Mid
  <1>3. d \in Counter /\ d[o] = c[o] + 1 /\ \A q \in Object \ {o} : d[q] = c[q]
    BY <1>1, <1>2 DEF Counter
  <1>4. Counted(P, A, B, s, NULL, NULL, d)
    <2> SUFFICES ASSUME NEW q \in A
                 PROVE  d[q] = Cardinality(Holding(P, A, B, s, q)) + Cardinality(Waiting(B, q))
                               + One(NULL, q) - One(NULL, q)
      BY DEF Counted
    <2>1. PICK h, w : h = Cardinality(Holding(P, A, B, s, q)) /\ w = Cardinality(Waiting(B, q))
      OBVIOUS
    <2>2. h \in Nat /\ w \in Nat
      BY <2>1, HoldingIs
    <2>3. c[q] = h + w + One(NULL, q) - One(o, q)
      BY <2>1 DEF Mid, Counted
    <2>4. One(NULL, q) = 0 /\ (q = o => One(o, q) = 1) /\ (q # o => One(o, q) = 0)
      BY <1>2, NullIs, OneIs
    <2> QED
      BY <1>2, <1>3, <2>1, <2>2, <2>3, <2>4
  <1>5. Spent(P, A, B, s, NULL, d)
    BY <1>2, <1>3 DEF Mid, Spent
  <1> QED
    BY <1>1, <1>3, <1>4, <1>5, NullIs DEF Mid

\* A pointer lets go of its object, which is then to be counted down.
LEMMA LetGo ==
    ASSUME NEW P, NEW A, NEW B, NEW s, NEW c,
           Mid(P, A, B, s, NULL, NULL, NULL, c), s \in BusyIn(B)
    PROVE  Mid(P, A, B, NULL, P[s], NULL, NULL, c)
  <1>1. P \in Leading /\ A \subseteq Object /\ s \in Pointer /\ P[s] \in Object \cup {NULL} /\ s # NULL
    BY NullIs, PatternHas DEF Mid, Leading
  <1>2. s \in Holders(A, B, s) /\ Holders(A, B, NULL) = Holders(A, B, s) \ {s}
    <2>1. ~Has(B, Release(s)) /\ s \in BusyIn(B)
      BY MidFacts
    <2> QED
      BY <1>1, <2>1, NullIs DEF Holders
  <1>3. ASSUME NEW o \in Object
        PROVE  /\ P[s] # o => Holding(P, A, B, NULL, o) = Holding(P, A, B, s, o)
               /\ P[s] = o => /\ s \in Holding(P, A, B, s, o)
                              /\ Holding(P, A, B, NULL, o) = Holding(P, A, B, s, o) \ {s}
    BY <1>2 DEF Holding
  <1>4. Held(P, A, B, NULL)
    BY <1>2 DEF Mid, Held
  <1>5. Counted(P, A, B, NULL, P[s], NULL, c)
    <2> SUFFICES ASSUME NEW o \in A
                 PROVE  c[o] = Cardinality(Holding(P, A, B, NULL, o)) + Cardinality(Waiting(B, o))
                               + One(P[s], o) - One(NULL, o)
      BY DEF Counted
    <2>1. PICK h, g, w : /\ h = Cardinality(Holding(P, A, B, s, o)) /\ w = Cardinality(Waiting(B, o))
                         /\ g = Cardinality(Holding(P, A, B, NULL, o))
      OBVIOUS
    <2>2. h \in Nat /\ w \in Nat /\ g \in Nat
      BY <2>1, HoldingIs
    <2>3. c[o] = h + w + One(NULL, o) - One(NULL, o)
      BY <2>1 DEF Mid, Counted
    <2>4. One(NULL, o) = 0 /\ (P[s] = o => One(P[s], o) = 1) /\ (P[s] # o => One(P[s], o) = 0)
      BY <1>1, NullIs, OneIs
    <2>5. P[s] # o => g = h
      BY <1>1, <1>3, <2>1
    <2>6. P[s] = o => g = h - 1
      <3> SUFFICES ASSUME P[s] = o
                   PROVE  g = h - 1
        OBVIOUS
      <3>1. PICK H : H = Holding(P, A, B, s, o)
        OBVIOUS
      <3>2. H \subseteq Pointer /\ s \in H
        BY <1>1, <1>3, <3>1, HoldingIs
      <3>3. Cardinality(H \ {s}) = Cardinality(H) - 1
        BY <3>2, PointersFinite
      <3> QED
        BY <1>1, <1>3, <2>1, <3>1, <3>3
    <2> QED
      BY <2>1, <2>2, <2>3, <2>4, <2>5, <2>6
  <1>6. Needed(P, A, B, NULL, P[s], NULL)
    <2> SUFFICES ASSUME NEW o \in A, Holding(P, A, B, NULL, o) = {}, Waiting(B, o) = {}, P[s] # o
                 PROVE  FALSE
      BY DEF Needed
    <2>1. Holding(P, A, B, s, o) = {}
      BY <1>1, <1>3
    <2> QED
      BY <1>1, <2>1, NullIs DEF Mid, Needed
  <1>7. Spent(P, A, B, NULL, P[s], c)
    BY <1>1 DEF Mid, Spent
  <1> QED
    BY <1>1, <1>4, <1>5, <1>6, <1>7, NullIs DEF Mid, Unneeded

\* The object is counted down: at one it is to be deleted.
LEMMA CountDown ==
    ASSUME NEW P, NEW A, NEW B, NEW p \in Object, NEW c,
           Mid(P, A, B, NULL, p, NULL, NULL, c),
           p \notin A => \E s \in Global : P[s] = p /\ Top(B, Set(s, NULL))
    PROVE  Mid(P, A, B, NULL, NULL, NULL, IF c[p] = 1 THEN p ELSE NULL, [c EXCEPT ![p] = c[p] - 1])
  <1>1. PICK d, del : d = [c EXCEPT ![p] = c[p] - 1] /\ del = IF c[p] = 1 THEN p ELSE NULL
    OBVIOUS
  <1>2. c \in Counter /\ A \subseteq Object /\ p # NULL
    BY NullIs DEF Mid
  <1>3. d \in Counter /\ d[p] = c[p] - 1 /\ c[p] \in Int /\ \A q \in Object \ {p} : d[q] = c[q]
    BY <1>1, <1>2 DEF Counter
  <1>4. ASSUME NEW o \in A
        PROVE  /\ d[o] = Cardinality(Holding(P, A, B, NULL, o)) + Cardinality(Waiting(B, o))
               /\ o = p => (c[p] = 1 <=> Holding(P, A, B, NULL, o) = {} /\ Waiting(B, o) = {})
    <2>1. PICK h, w : h = Cardinality(Holding(P, A, B, NULL, o)) /\ w = Cardinality(Waiting(B, o))
      OBVIOUS
    <2>2. /\ h \in Nat /\ w \in Nat
          /\ h = 0 <=> Holding(P, A, B, NULL, o) = {}
          /\ w = 0 <=> Waiting(B, o) = {}
      BY <2>1, HoldingIs
    <2>3. c[o] = h + w + One(p, o) - One(NULL, o)
      BY <2>1 DEF Mid, Counted
    <2>4. One(NULL, o) = 0 /\ (p = o => One(p, o) = 1) /\ (p # o => One(p, o) = 0)
      BY <1>2, NullIs, OneIs
    <2>5. CASE o = p
      <3>1. c[p] = h + w + 1
        BY <2>2, <2>3, <2>4, <2>5
      <3>2. d[p] = h + w /\ (c[p] = 1 <=> h = 0 /\ w = 0)
        BY <1>3, <2>2, <3>1
      <3> QED
        BY <2>1, <2>2, <2>5, <3>2
    <2>6. CASE o # p
      <3>1. d[o] = h + w
        BY <1>2, <1>3, <2>2, <2>3, <2>4, <2>6
      <3> QED
        BY <2>1, <2>6, <3>1
    <2> QED
      BY <2>5, <2>6
  <1>5. p \notin A => c[p] = 0
    <2> SUFFICES ASSUME p \notin A
                 PROVE  c[p] = 0
      OBVIOUS
    <2>1. \E s \in Global : P[s] = p
      OBVIOUS
    <2> QED
      BY <1>2, <2>1 DEF Mid, Spent
  <1>6. Counted(P, A, B, NULL, NULL, NULL, d)
    <2> SUFFICES ASSUME NEW o \in A
                 PROVE  d[o] = Cardinality(Holding(P, A, B, NULL, o)) + Cardinality(Waiting(B, o))
                               + One(NULL, o) - One(NULL, o)
      BY DEF Counted
    <2>1. PICK h, w : h = Cardinality(Holding(P, A, B, NULL, o)) /\ w = Cardinality(Waiting(B, o))
      OBVIOUS
    <2>2. h \in Nat /\ w \in Nat
      BY <2>1, HoldingIs
    <2>3. One(NULL, o) = 0
      BY <1>2, NullIs, OneIs
    <2> QED
      BY <1>4, <2>1, <2>2, <2>3
  <1>7. Needed(P, A, B, NULL, NULL, del)
    <2> SUFFICES ASSUME NEW o \in A, Holding(P, A, B, NULL, o) = {}, Waiting(B, o) = {}
                 PROVE  del = o
      BY DEF Needed
    <2>1. CASE o = p
      BY <1>1, <1>4, <2>1
    <2>2. CASE o # p
      BY <1>2, <2>2, NullIs DEF Mid, Needed
    <2> QED
      BY <2>1, <2>2
  <1>8. Unneeded(P, A, B, NULL, NULL, del)
    <2> SUFFICES ASSUME del # NULL
                 PROVE  /\ del \in A /\ NULL # del
                        /\ Holding(P, A, B, NULL, del) = {} /\ Waiting(B, del) = {}
      BY DEF Unneeded
    <2>1. del = p /\ c[p] = 1
      BY <1>1
    <2>2. p \in A
      BY <1>5, <2>1
    <2> QED
      BY <1>2, <1>4, <2>1, <2>2
  <1>9. Spent(P, A, B, NULL, NULL, d)
    <2> SUFFICES ASSUME NEW o \in Object \ A
                 PROVE  /\ d[o] \in {0, -1}
                        /\ d[o] = -1 => \A g \in Global : P[g] = o => Top(B, Set(g, NULL))
      BY DEF Spent
    <2>1. CASE o # p
      BY <1>2, <1>3, <2>1 DEF Mid, Spent
    <2>2. CASE o = p
      <3>1. d[o] = -1
        BY <1>3, <1>5, <2>2
      <3>2. PICK s \in Global : P[s] = p /\ Top(B, Set(s, NULL))
        BY <2>2
      <3>3. ASSUME NEW g \in Global, P[g] = o
            PROVE  g = s
        BY <1>2, <2>2, <3>2, <3>3 DEF Mid, Single
      <3> QED
        BY <3>1, <3>2, <3>3
    <2> QED
      BY <2>1, <2>2
  <1> QED
    BY <1>1, <1>3, <1>6, <1>7, <1>8, <1>9 DEF Mid

\* The first step of an operation is one of its steps.
LEMMA HeadIs ==
    ASSUME NEW B \in Work, B # <<>>
    PROVE  /\ Head(B) \in Steps /\ Tail(B) \in Work /\ B = Cons(Head(B), Tail(B))
           /\ \A y : Has(B, y) <=> y = Head(B) \/ Has(Tail(B), y)
           /\ BusyIn(B) = BusyIn(Tail(B)) \cup {s \in Pointer : Head(B).do = "set" /\ Head(B).at = s}
           /\ Pattern(B) => Pattern(Tail(B)) /\ Fits(Head(B), Tail(B))
  <1>1. PICK h, t : h = Head(B) /\ t = Tail(B)
    OBVIOUS
  <1>2. h \in Steps /\ t \in Work /\ B = Cons(h, t)
    BY <1>1, TopIs DEF Work
  <1>3. /\ \A y : Has(B, y) <=> y = h \/ Has(t, y)
        /\ BusyIn(B) = BusyIn(t) \cup {s \in Pointer : h.do = "set" /\ h.at = s}
    BY <1>2, HasCons
  <1>4. Pattern(B) => Pattern(t) /\ Fits(h, t)
    BY <1>2, PatternCons
  <1> QED
    BY <1>1, <1>2, <1>3, <1>4

\* A pointer that only the first step will write.
LEMMA BusyHead ==
    ASSUME NEW B, Pattern(B), NEW s \in BusyIn(B), s \notin BusyIn(Tail(B)) \/ B = <<>>
    PROVE  \E x \in Object \cup {NULL} : Top(B, Set(s, x))
  <1>1. B \in Work /\ B # <<>>
    BY HasNone, PatternHas
  <1>2. s \in Pointer /\ Head(B).do = "set" /\ Head(B).at = s /\ Fits(Head(B), Tail(B))
    BY <1>1, HeadIs
  <1>3. PICK t \in Pointer, x \in Object \cup {NULL} : Head(B) = Set(t, x)
    BY <1>2, StepsAre DEF Fits
  <1> QED
    BY <1>1, <1>2, <1>3, StepsAre DEF Top

\* An object is destroyed: its member is to be released, then its memory.
LEMMA Destroy ==
    ASSUME NEW P, NEW A, NEW B, NEW p \in Object, NEW c,
           Mid(P, A, B, NULL, NULL, NULL, p, c),
           \A t \in Pointer, x \in Object \cup {NULL} : Top(B, Set(t, x)) => P[t] = p
    PROVE  Mid(P, A \ {p}, Cons(Release(p), Cons(Free(p), B)), NULL, NULL, NULL, NULL, c)
  <1>1. PICK D, C, E : D = A \ {p} /\ C = Cons(Free(p), B) /\ E = Cons(Release(p), C)
    OBVIOUS
  <1>2. /\ P \in Leading /\ A \subseteq Object /\ Pattern(B) /\ B \in Work /\ c \in Counter
        /\ p # NULL /\ p \in A /\ Holding(P, A, B, NULL, p) = {} /\ Waiting(B, p) = {}
    BY NullIs, PatternHas DEF Mid, Unneeded
  <1>3. Free(p) \in Steps /\ Release(p) \in Steps /\ p \in Pointer /\ p \notin Global
    BY NullIs, StepsAre, PointerAssumption
  <1>4. C \in Work /\ E \in Work
    BY <1>1, <1>2, <1>3, ConsIs DEF Work
  <1>5. /\ \A y : Has(E, y) <=> y = Release(p) \/ y = Free(p) \/ Has(B, y)
        /\ BusyIn(C) = BusyIn(B) /\ BusyIn(E) = BusyIn(B)
        /\ E # <<>> /\ Tail(E) = C /\ Head(E) = Release(p)
    <2>1. /\ \A y : Has(C, y) <=> y = Free(p) \/ Has(B, y)
          /\ BusyIn(C) = BusyIn(B) \cup {s \in Pointer : Free(p).do = "set" /\ Free(p).at = s}
      BY <1>1, <1>2, <1>3, HasCons
    <2>2. /\ \A y : Has(E, y) <=> y = Release(p) \/ Has(C, y)
          /\ BusyIn(E) = BusyIn(C) \cup {s \in Pointer : Release(p).do = "set" /\ Release(p).at = s}
      BY <1>1, <1>3, <1>4, HasCons
    <2>3. Free(p).do # "set" /\ Release(p).do # "set"
      BY StepsAre
    <2>4. E # <<>> /\ Tail(E) = C /\ Head(E) = Release(p)
      <3>1. PICK x : x = Release(p)
        OBVIOUS
      <3>2. x \in Steps /\ E = Cons(x, C) /\ C \in Seq(Steps)
        BY <1>1, <1>3, <1>4, <3>1 DEF Work
      <3> QED
        BY <3>1, <3>2, ConsIs
    <2> QED
      BY <2>1, <2>2, <2>3, <2>4
  <1>6. Pattern(E)
    <2>1. ~Has(B, Free(p))
      BY <1>2 DEF Mid, Doomed
    <2>2. Fits(Free(p), B)
      BY <2>1, StepsAre DEF Fits
    <2>3. Pattern(C)
      BY <1>1, <1>2, <1>3, <2>2, PatternCons
    <2>4. Top(C, Free(p))
      BY <1>1, <1>2, <1>3, TopCons
    <2>5. Fits(Release(p), C)
      BY <2>4, StepsAre DEF Fits
    <2> QED
      BY <1>1, <1>3, <1>4, <2>3, <2>5, PatternCons
  <1>7. p \notin BusyIn(B)
    <2> SUFFICES ASSUME p \in BusyIn(B)
                 PROVE  FALSE
      OBVIOUS
    <2>1. PICK g \in Global : p \in ChainOf(Links(P, B), g)
      BY DEF Mid, OnChains
    <2>2. PICK F : F = Links(P, B)
      OBVIOUS
    <2>3. F \in Leading /\ \A t \in Pointer : F[t] = IF t \in BusyIn(B) THEN NULL ELSE P[t]
      BY <1>2, <2>2, LinksAre
    <2>4. g \in Pointer
      BY NullIs
    <2>5. PICK t \in {g} \cup ChainOf(F, g) : F[t] = p
      BY <2>1, <2>2, <2>3, <2>4, ChainStarts
    <2>6. t \in Global \cup A
      BY <2>2, <2>5, MidFacts
    <2>7. t \in Pointer
      BY <1>2, <2>6, NullIs
    <2>8. t \notin BusyIn(B) /\ P[t] = p
      BY <1>2, <2>3, <2>5, <2>7
    <2>9. t \in Holding(P, A, B, NULL, p)
      BY <2>6, <2>7, <2>8 DEF Holding, Holders
    <2> QED
      BY <1>2, <2>9
  <1>8. Holders(D, E, NULL) = Holders(A, B, NULL)
    <2>1. \A s : Has(E, Release(s)) <=> s = p \/ Has(B, Release(s))
      BY <1>5, StepsAre
    <2>2. \A s : s \in Global \cup A <=> s \in Global \cup D \/ s = p
      BY <1>1, <1>2
    <2> QED
      BY <1>2, <1>3, <1>5, <1>7, <2>1, <2>2, NullIs DEF Holders
  <1>9. \A o : Holding(P, D, E, NULL, o) = Holding(P, A, B, NULL, o)
    BY <1>8 DEF Holding
  <1>10. \A s, x : Has(E, Set(s, x)) <=> Has(B, Set(s, x))
    BY <1>5, StepsAre
  <1>11. \A o : Waiting(E, o) = Waiting(B, o)
    BY <1>10 DEF Waiting
  <1>12. ASSUME NEW s \in BusyIn(B)
         PROVE  P[s] \notin D /\ (P[s] \in A => \E x \in Object \cup {NULL} : Top(B, Set(s, x)))
    <2>1. CASE B # <<>> /\ s \in BusyIn(Tail(B))
      BY <1>1, <2>1 DEF Mid, Behind
    <2>2. CASE ~(B # <<>> /\ s \in BusyIn(Tail(B)))
      <3>1. \E x \in Object \cup {NULL} : Top(B, Set(s, x))
        BY <1>2, <2>2, BusyHead
      <3>2. s \in Pointer
        BY <1>2, PatternHas
      <3> QED
        BY <1>1, <3>1, <3>2
    <2> QED
      BY <2>1, <2>2
  <1>13. Behind(P, D, E)
    BY <1>5, <1>12 DEF Behind
  <1>14. Targets(D, E)
    <2> SUFFICES ASSUME NEW s \in Pointer, NEW x \in Object, Has(E, Set(s, x))
                 PROVE  x \in D
      BY DEF Targets
    <2>1. Has(B, Set(s, x)) /\ x \in A
      BY <1>10 DEF Mid, Targets
    <2> QED
      BY <1>1, <1>2, <2>1 DEF Waiting
  <1>15. OnChains(P, E)
    <2>1. Links(P, E) = Links(P, B)
      BY <1>5 DEF Links
    <2> QED
      BY <1>5, <2>1 DEF Mid, OnChains
  <1>16. Doomed(D, E)
    BY <1>1, <1>5, StepsAre DEF Mid, Doomed
  <1>17. Held(P, D, E, NULL)
    <2> SUFFICES ASSUME NEW s \in Holders(A, B, NULL)
                 PROVE  P[s] \in D \cup {NULL}
      BY <1>8 DEF Held
    <2>1. s \in Pointer /\ s # NULL
      BY NullIs DEF Holders
    <2>2. P[s] \in A \cup {NULL} /\ P[s] # p
      BY <1>2, <2>1 DEF Mid, Held, Holding
    <2> QED
      BY <1>1, <2>2
  <1>18. Counted(P, D, E, NULL, NULL, NULL, c)
    BY <1>1, <1>9, <1>11 DEF Mid, Counted
  <1>19. Needed(P, D, E, NULL, NULL, NULL)
    BY <1>1, <1>2, <1>9, <1>11, NullIs DEF Mid, Needed
  <1>20. Spent(P, D, E, NULL, NULL, c)
    <2> SUFFICES ASSUME NEW o \in Object \ D
                 PROVE  c[o] \in {0, -1} /\ (c[o] = -1 => \A g \in Global : P[g] # o)
      BY DEF Spent
    <2>1. CASE o = p
      <3>1. c[p] = Cardinality(Holding(P, A, B, NULL, p)) + Cardinality(Waiting(B, p))
                   + One(NULL, p) - One(NULL, p)
        BY <1>2 DEF Mid, Counted
      <3>2. Cardinality(Holding(P, A, B, NULL, p)) = 0 /\ Cardinality(Waiting(B, p)) = 0
        BY <1>2, HoldingIs
      <3>3. One(NULL, p) = 0
        BY <1>2, OneIs
      <3>4. c[p] = 0
        BY <3>1, <3>2, <3>3
      <3> QED
        BY <2>1, <3>4
    <2>2. CASE o # p
      <3>1. c[o] \in {0, -1} /\ (c[o] = -1 => \A g \in Global : P[g] = o => Top(B, Set(g, NULL)))
        BY <1>1, <2>2 DEF Mid, Spent
      <3>2. \A g \in Global : Top(B, Set(g, NULL)) => P[g] = p
        BY NullIs
      <3> QED
        BY <2>2, <3>1, <3>2
    <2> QED
      BY <2>1, <2>2
  <1>21. Single(P, D)
    <2> SUFFICES ASSUME NEW g \in Global, NEW h \in Global, P[g] = P[h], P[g] \notin D \cup {NULL}
                 PROVE  g = h
      BY DEF Single
    <2>1. CASE P[g] = p
      <3>1. ASSUME NEW k \in Global, P[k] = p
            PROVE  \E x \in Object \cup {NULL} : Top(B, Set(k, x))
        <4>1. k \in Pointer
          BY NullIs
        <4>2. k \in BusyIn(B)
          BY <1>2, <3>1, <4>1 DEF Holding, Holders
        <4> QED
          BY <1>2, <1>12, <3>1, <4>2
      <3>2. PICK x, y : Top(B, Set(g, x)) /\ Top(B, Set(h, y))
        BY <2>1, <3>1
      <3> QED
        BY <3>2, StepsAre DEF Top
    <2>2. CASE P[g] # p
      BY <1>1, <2>2 DEF Mid, Single
    <2> QED
      BY <2>1, <2>2
  <1>22. Unneeded(P, D, E, NULL, NULL, NULL)
    BY DEF Unneeded
  <1> QED
    BY <1>1, <1>2, <1>6, <1>13, <1>14, <1>15, <1>16, <1>17, <1>18, <1>19, <1>20, <1>21, <1>22 DEF Mid

\* An assignment or a clear begins: s is to point to x.
LEMMA Begin ==
    ASSUME NEW P, NEW A, NEW B, NEW s, NEW x, NEW c,
           Mid(P, A, B, NULL, NULL, NULL, NULL, c),
           x \in A \cup {NULL}, s \in Global \cup A,
           \A t \in BusyIn(B) : P[t] \notin A,
           s \in BusyIn(B) => x = NULL,
           s \in Object => B = <<>> /\ \E g \in Global : s \in ChainOf(Links(P, B), g),
           s \in Global => \A m \in BusyIn(B) \cap Object : m \notin ChainOf(Links(P, B), s),
           \A g : ~Top(B, Set(g, NULL))
    PROVE  Mid(P, A, Cons(Set(s, x), B), s, NULL, x, NULL, c)
  <1>1. PICK E : E = Cons(Set(s, x), B)
    OBVIOUS
  <1>2. /\ P \in Leading /\ A \subseteq Object /\ Pattern(B) /\ B \in Work /\ c \in Counter
        /\ s \in Pointer /\ s # NULL /\ x \in Object \cup {NULL}
    BY NullIs, PatternHas DEF Mid
  <1>3. Set(s, x) \in Steps /\ Set(s, x).do = "set" /\ Set(s, x).at = s /\ Set(s, x).val = x
    BY <1>2, StepsAre
  <1>4. /\ E \in Work /\ E # <<>> /\ Tail(E) = B /\ Head(E) = Set(s, x)
        /\ \A y : Has(E, y) <=> y = Set(s, x) \/ Has(B, y)
        /\ BusyIn(E) = BusyIn(B) \cup {s}
    <2>1. E \in Work /\ E # <<>> /\ Tail(E) = B /\ Head(E) = Set(s, x)
      BY <1>1, <1>2, <1>3, ConsIs DEF Work
    <2>2. /\ \A y : Has(E, y) <=> y = Set(s, x) \/ Has(B, y)
          /\ BusyIn(E) = BusyIn(B) \cup {t \in Pointer : Set(s, x).do = "set" /\ Set(s, x).at = t}
      BY <1>1, <1>2, <1>3, HasCons
    <2> QED
      BY <1>2, <1>3, <2>1, <2>2
  <1>5. Pattern(E)
    <2>1. Fits(Set(s, x), B)
      BY <1>2, <1>3 DEF Fits
    <2> QED
      BY <1>1, <1>2, <1>3, <2>1, PatternCons
  <1>6. s \notin BusyIn(B) => s \in Holders(A, B, NULL)
    BY <1>2 DEF Holders
  <1>7. Holders(A, E, s) = Holders(A, B, NULL) \cup {s}
    <2>1. \A t : Has(E, Release(t)) <=> Has(B, Release(t))
      BY <1>4, StepsAre
    <2> QED
      BY <1>2, <1>4, <2>1, NullIs DEF Holders
  <1>9. ASSUME NEW o \in A
        PROVE  Holding(P, A, E, s, o) = Holding(P, A, B, NULL, o)
    BY <1>6, <1>7 DEF Holding
  <1>10. ASSUME NEW o \in A
         PROVE  /\ x # o => Waiting(E, o) = Waiting(B, o)
                /\ x = o => s \notin Waiting(B, o) /\ Waiting(E, o) = Waiting(B, o) \cup {s}
    <2>1. \A t : Has(E, Set(t, o)) <=> (t = s /\ x = o) \/ Has(B, Set(t, o))
      BY <1>4, StepsAre
    <2>2. x = o => s \notin BusyIn(B)
      BY <1>2, NullIs
    <2>3. \A t \in Waiting(B, o) : t \in BusyIn(B)
      BY <1>2, PatternHas DEF Waiting
    <2>4. x # o => Waiting(E, o) = Waiting(B, o)
      BY <2>1 DEF Waiting
    <2>5. x = o => Waiting(E, o) = Waiting(B, o) \cup {s}
      BY <1>2, <2>1 DEF Waiting
    <2> QED
      BY <2>2, <2>3, <2>4, <2>5
  <1>11. Behind(P, A, E)
    BY <1>4 DEF Behind
  <1>12. Targets(A, E)
    BY <1>2, <1>4, NullIs, StepsAre DEF Mid, Targets
  <1>13. OnChains(P, E)
    <2> SUFFICES ASSUME NEW m \in BusyIn(E) \cap Object
                 PROVE  \E g \in Global : m \in ChainOf(Links(P, E), g)
      BY DEF OnChains
    <2>1. PICK F, G : F = Links(P, B) /\ G = Links(P, E)
      OBVIOUS
    <2>2. /\ F \in Leading /\ \A t \in Pointer : F[t] = IF t \in BusyIn(B) THEN NULL ELSE P[t]
          /\ G \in Leading /\ \A t \in Pointer : G[t] = IF t \in BusyIn(E) THEN NULL ELSE P[t]
      BY <1>2, <2>1, LinksAre
    <2>3. \A t \in Pointer : t # s => G[t] = F[t]
      BY <1>4, <2>2
    <2>4. CASE s \in Object
      <3>1. m = s
        BY <1>4, <2>4, HasNone
      <3>2. PICK g \in Global : s \in ChainOf(F, g)
        BY <2>1, <2>4
      <3>3. g \in Pointer /\ g # s
        BY <2>4, NullIs, PointerAssumption
      <3>4. s \in ChainOf(G, g)
        BY <2>2, <2>3, <3>2, <3>3, ChainKeepsEnd
      <3> QED
        BY <2>1, <3>1, <3>4
    <2>5. CASE s \notin Object
      <3>1. s \in Global /\ m \in BusyIn(B) \cap Object
        BY <1>2, <1>4, <2>5
      <3>2. PICK g \in Global : m \in ChainOf(F, g)
        BY <2>1, <3>1 DEF Mid, OnChains
      <3>3. g # s /\ g \in Pointer
        BY <2>1, <3>1, <3>2, NullIs
      <3>4. ChainOf(F, g) \subseteq Object
        BY <2>2, <3>3, ChainLeast
      <3>5. \A t \in {g} \cup ChainOf(F, g) : F[t] = NULL \/ G[t] = F[t]
        <4> SUFFICES ASSUME NEW t \in {g} \cup ChainOf(F, g)
                     PROVE  G[t] = F[t]
          OBVIOUS
        <4>1. t \in Pointer /\ t # s
          BY <2>5, <3>3, <3>4, NullIs
        <4> QED
          BY <2>3, <4>1
      <3>6. ChainOf(F, g) \subseteq ChainOf(G, g)
        BY <2>2, <3>3, <3>5, ChainGrows
      <3> QED
        BY <2>1, <3>2, <3>6
    <2> QED
      BY <2>4, <2>5
  <1>14. Doomed(A, E)
    BY <1>4, StepsAre DEF Mid, Doomed
  <1>15. Held(P, A, E, s)
    <2> SUFFICES ASSUME NEW t \in Holders(A, B, NULL) \cup {s}
                 PROVE  \/ P[t] \in A \cup {NULL}
                        \/ t = s /\ s \in Global /\ Top(E, Set(s, NULL))
      BY <1>7 DEF Held
    <2>1. CASE t \in Holders(A, B, NULL)
      <3>1. t \in Pointer /\ t # NULL
        BY <2>1, NullIs DEF Holders
      <3> QED
        BY <2>1, <3>1 DEF Mid, Held
    <2>2. CASE t \notin Holders(A, B, NULL)
      <3>1. t = s /\ s \in BusyIn(B) /\ x = NULL
        BY <1>6, <2>2
      <3>2. s \in Global
        BY <1>2, <3>1, HasNone, NullIs
      <3> QED
        BY <1>4, <3>1, <3>2 DEF Top
    <2> QED
      BY <2>1, <2>2
  <1>16. Counted(P, A, E, s, NULL, x, c)
    <2> SUFFICES ASSUME NEW o \in A
                 PROVE  c[o] = Cardinality(Holding(P, A, E, s, o)) + Cardinality(Waiting(E, o))
                               + One(NULL, o) - One(x, o)
      BY DEF Counted
    <2>1. PICK W, h, w, v : /\ h = Cardinality(Holding(P, A, B, NULL, o)) /\ w = Cardinality(W)
                            /\ v = Cardinality(Waiting(E, o)) /\ W = Waiting(B, o)
      OBVIOUS
    <2>2. h \in Nat /\ w \in Nat /\ v \in Nat /\ W \subseteq Pointer
      BY <2>1, HoldingIs
    <2>3. c[o] = h + w + One(NULL, o) - One(NULL, o)
      BY <2>1 DEF Mid, Counted
    <2>4. One(NULL, o) = 0 /\ (x = o => One(x, o) = 1) /\ (x # o => One(x, o) = 0)
      BY <1>2, NullIs, OneIs
    <2>5. x # o => v = w
      BY <1>10, <2>1
    <2>6. x = o => v = w + 1
      <3> SUFFICES ASSUME x = o
                   PROVE  v = w + 1
        OBVIOUS
      <3>1. s \notin W /\ v = Cardinality(W \cup {s})
        BY <1>10, <2>1
      <3>2. Cardinality(W \cup {s}) = Cardinality(W) + 1
        BY <2>2, <3>1, PointersFinite
      <3> QED
        BY <2>1, <3>1, <3>2
    <2> QED
      BY <1>9, <2>1, <2>2, <2>3, <2>4, <2>5, <2>6
  <1>17. Needed(P, A, E, s, NULL, NULL)
    <2> SUFFICES ASSUME NEW o \in A, Holding(P, A, E, s, o) = {}, Waiting(E, o) = {}
                 PROVE  FALSE
      BY DEF Needed
    <2>1. Holding(P, A, B, NULL, o) = {} /\ Waiting(B, o) = {}
      BY <1>9, <1>10
    <2> QED
      BY <1>2, <2>1, NullIs DEF Mid, Needed
  <1>18. Spent(P, A, E, s, NULL, c)
    BY DEF Mid, Spent
  <1> QED
    BY <1>1, <1>2, <1>5, <1>11, <1>12, <1>13, <1>14, <1>15, <1>16, <1>17, <1>18, NullIs DEF Mid, Unneeded

\* A destructor lets go of its member, whose object is then counted down.
LEMMA LetGoMember ==
    ASSUME NEW P, NEW A, NEW B, NEW p \in Object, NEW c,
           Mid(P, A, B, NULL, NULL, NULL, NULL, c), Top(B, Release(p))
    PROVE  /\ Mid(P, A, Tail(B), NULL, P[p], NULL, NULL, c)
           /\ Top(Tail(B), Free(p)) /\ P[p] \in A \cup {NULL}
  <1>1. PICK T : T = Tail(B)
    OBVIOUS
  <1>2. /\ P \in Leading /\ A \subseteq Object /\ Pattern(B) /\ B \in Work /\ c \in Counter
        /\ B # <<>> /\ Head(B) = Release(p)
    BY PatternHas DEF Mid, Top
  <1>3. /\ T \in Work /\ Pattern(T) /\ Fits(Release(p), T)
        /\ \A y : Has(B, y) <=> y = Release(p) \/ Has(T, y)
        /\ BusyIn(B) = BusyIn(T)
    <2>1. Release(p).do # "set"
      BY StepsAre
    <2> QED
      BY <1>1, <1>2, <2>1, HeadIs
  <1>4. Top(T, Free(p))
    BY <1>3, StepsAre DEF Fits
  <1>5. ~Has(T, Release(p))
    <2> SUFFICES ASSUME Has(T, Release(p))
                 PROVE  FALSE
      OBVIOUS
    <2>1. T # <<>> /\ Head(T) = Free(p)
      BY <1>4 DEF Top
    <2>2. /\ Pattern(Tail(T)) /\ Fits(Free(p), Tail(T))
          /\ Has(T, Release(p)) <=> Release(p) = Free(p) \/ Has(Tail(T), Release(p))
      BY <1>3, <2>1, HeadIs
    <2>3. Has(Tail(T), Free(p))
      BY <2>2, StepsAre, PatternHas
    <2> QED
      BY <2>2, <2>3, StepsAre DEF Fits
  <1>6. p \in Pointer /\ p \notin Global /\ p # NULL /\ p \notin A
    <2>1. Has(B, Free(p))
      BY <1>2, <1>3, PatternHas
    <2> QED
      BY <2>1, NullIs, PointerAssumption DEF Mid, Doomed
  <1>7. p \in Holders(A, B, NULL) /\ Holders(A, T, NULL) = Holders(A, B, NULL) \ {p}
    <2>1. \A s : Has(B, Release(s)) <=> s = p \/ Has(T, Release(s))
      BY <1>3, StepsAre
    <2> QED
      BY <1>3, <1>5, <1>6, <2>1, NullIs DEF Holders
  <1>8. \A s \in Holders(A, B, NULL) : P[s] \in A \cup {NULL}
    <2>1. NULL \notin Holders(A, B, NULL)
      BY NullIs DEF Holders
    <2> QED
      BY <2>1 DEF Mid, Held
  <1>9. \A s, x : Has(B, Set(s, x)) <=> Has(T, Set(s, x))
    BY <1>3, StepsAre
  <1>10. \A o : Waiting(T, o) = Waiting(B, o)
    BY <1>9 DEF Waiting
  <1>11. ASSUME NEW o \in Object
         PROVE  /\ P[p] # o => Holding(P, A, T, NULL, o) = Holding(P, A, B, NULL, o)
                /\ P[p] = o => /\ p \in Holding(P, A, B, NULL, o)
                               /\ Holding(P, A, T, NULL, o) = Holding(P, A, B, NULL, o) \ {p}
    BY <1>7 DEF Holding
  <1>12. Behind(P, A, T)
    <2> SUFFICES ASSUME T # <<>>, NEW s \in BusyIn(Tail(T))
                 PROVE  P[s] \notin A
      BY DEF Behind
    <2>1. s \in BusyIn(T)
      BY <1>3, HeadIs
    <2> QED
      BY <1>1, <1>2, <2>1 DEF Mid, Behind
  <1>13. Targets(A, T)
    BY <1>9 DEF Mid, Targets
  <1>14. OnChains(P, T)
    <2>1. Links(P, T) = Links(P, B)
      BY <1>3 DEF Links
    <2> QED
      BY <1>3, <2>1 DEF Mid, OnChains
  <1>15. Doomed(A, T)
    BY <1>3 DEF Mid, Doomed
  <1>16. Held(P, A, T, NULL)
    BY <1>7, <1>8 DEF Held
  <1>17. Counted(P, A, T, NULL, P[p], NULL, c)
    <2> SUFFICES ASSUME NEW o \in A
                 PROVE  c[o] = Cardinality(Holding(P, A, T, NULL, o)) + Cardinality(Waiting(T, o))
                               + One(P[p], o) - One(NULL, o)
      BY DEF Counted
    <2>1. PICK h, g, w : /\ h = Cardinality(Holding(P, A, B, NULL, o)) /\ w = Cardinality(Waiting(B, o))
                         /\ g = Cardinality(Holding(P, A, T, NULL, o))
      OBVIOUS
    <2>2. h \in Nat /\ w \in Nat /\ g \in Nat
      BY <2>1, HoldingIs
    <2>3. c[o] = h + w + One(NULL, o) - One(NULL, o)
      BY <2>1 DEF Mid, Counted
    <2>4. One(NULL, o) = 0 /\ (P[p] = o => One(P[p], o) = 1) /\ (P[p] # o => One(P[p], o) = 0)
      BY <1>2, NullIs, OneIs
    <2>5. P[p] # o => g = h
      BY <1>2, <1>11, <2>1
    <2>6. P[p] = o => g = h - 1
      <3> SUFFICES ASSUME P[p] = o
                   PROVE  g = h - 1
        OBVIOUS
      <3>1. PICK H : H = Holding(P, A, B, NULL, o)
        OBVIOUS
      <3>2. H \subseteq Pointer /\ p \in H
        BY <1>2, <1>11, <3>1, HoldingIs
      <3>3. Cardinality(H \ {p}) = Cardinality(H) - 1
        BY <3>2, PointersFinite
      <3> QED
        BY <1>2, <1>11, <2>1, <3>1, <3>3
    <2> QED
      BY <1>10, <2>1, <2>2, <2>3, <2>4, <2>5, <2>6
  <1>18. Needed(P, A, T, NULL, P[p], NULL)
    <2> SUFFICES ASSUME NEW o \in A, Holding(P, A, T, NULL, o) = {}, Waiting(T, o) = {}, P[p] # o
                 PROVE  FALSE
      BY DEF Needed
    <2>1. Holding(P, A, B, NULL, o) = {} /\ Waiting(B, o) = {}
      BY <1>2, <1>10, <1>11
    <2> QED
      BY <1>2, <2>1, NullIs DEF Mid, Needed
  <1>19. Spent(P, A, T, NULL, P[p], c)
    <2>1. \A g : ~Top(B, Set(g, NULL))
      BY <1>2, StepsAre DEF Top
    <2> QED
      BY <2>1 DEF Mid, Spent
  <1> QED
    BY <1>1, <1>2, <1>3, <1>4, <1>7, <1>8, <1>12, <1>13, <1>14, <1>15, <1>16, <1>17, <1>18, <1>19, NullIs
       DEF Mid, Unneeded

\* The memory of the object is freed.
LEMMA FreeIt ==
    ASSUME NEW P, NEW A, NEW B, NEW p \in Object, NEW c,
           Mid(P, A, B, NULL, NULL, NULL, NULL, c), Top(B, Free(p))
    PROVE  Mid(P, A, Tail(B), NULL, NULL, NULL, NULL, c) /\ ~Has(Tail(B), Free(p))
  <1>1. PICK T : T = Tail(B)
    OBVIOUS
  <1>2. /\ P \in Leading /\ A \subseteq Object /\ Pattern(B) /\ B \in Work /\ c \in Counter
        /\ B # <<>> /\ Head(B) = Free(p)
    BY PatternHas DEF Mid, Top
  <1>3. /\ T \in Work /\ Pattern(T) /\ Fits(Free(p), T)
        /\ \A y : Has(B, y) <=> y = Free(p) \/ Has(T, y)
        /\ BusyIn(B) = BusyIn(T)
    <2>1. Free(p).do # "set"
      BY StepsAre
    <2> QED
      BY <1>1, <1>2, <2>1, HeadIs
  <1>4. ~Has(T, Free(p))
    BY <1>3, StepsAre DEF Fits
  <1>5. Holders(A, T, NULL) = Holders(A, B, NULL)
    <2>1. \A s : Has(B, Release(s)) <=> Has(T, Release(s))
      BY <1>3, StepsAre
    <2> QED
      BY <1>3, <2>1 DEF Holders
  <1>6. \A o : Holding(P, A, T, NULL, o) = Holding(P, A, B, NULL, o)
    BY <1>5 DEF Holding
  <1>7. \A s, x : Has(B, Set(s, x)) <=> Has(T, Set(s, x))
    BY <1>3, StepsAre
  <1>8. \A o : Waiting(T, o) = Waiting(B, o)
    BY <1>7 DEF Waiting
  <1>9. Behind(P, A, T)
    <2> SUFFICES ASSUME T # <<>>, NEW s \in BusyIn(Tail(T))
                 PROVE  P[s] \notin A
      BY DEF Behind
    <2>1. s \in BusyIn(T)
      BY <1>3, HeadIs
    <2> QED
      BY <1>1, <1>2, <2>1 DEF Mid, Behind
  <1>10. Targets(A, T)
    BY <1>7 DEF Mid, Targets
  <1>11. OnChains(P, T)
    <2>1. Links(P, T) = Links(P, B)
      BY <1>3 DEF Links
    <2> QED
      BY <1>3, <2>1 DEF Mid, OnChains
  <1>12. Doomed(A, T)
    BY <1>3 DEF Mid, Doomed
  <1>13. Held(P, A, T, NULL)
    <2>1. NULL \notin Holders(A, B, NULL)
      BY NullIs DEF Holders
    <2> QED
      BY <1>5, <2>1 DEF Mid, Held
  <1>14. Counted(P, A, T, NULL, NULL, NULL, c)
    BY <1>6, <1>8 DEF Mid, Counted
  <1>15. Needed(P, A, T, NULL, NULL, NULL)
    BY <1>6, <1>8 DEF Mid, Needed
  <1>16. Spent(P, A, T, NULL, NULL, c)
    <2>1. \A g : ~Top(B, Set(g, NULL))
      BY <1>2, StepsAre DEF Top
    <2> QED
      BY <2>1 DEF Mid, Spent
  <1> QED
    BY <1>1, <1>2, <1>3, <1>4, <1>9, <1>10, <1>11, <1>12, <1>13, <1>14, <1>15, <1>16 DEF Mid, Unneeded

\* The pointer is written: the operation is over.
LEMMA SetIt ==
    ASSUME NEW P, NEW A, NEW B, NEW s, NEW x, NEW c,
           Mid(P, A, B, NULL, NULL, NULL, NULL, c), Top(B, Set(s, x)),
           s \in Pointer, x \in Object \cup {NULL}
    PROVE  Mid([P EXCEPT ![s] = x], A, Tail(B), NULL, NULL, NULL, NULL, c)
  <1>1. PICK T, Q : T = Tail(B) /\ Q = [P EXCEPT ![s] = x]
    OBVIOUS
  <1>2. /\ P \in Leading /\ A \subseteq Object /\ Pattern(B) /\ B \in Work /\ c \in Counter
        /\ B # <<>> /\ Head(B) = Set(s, x) /\ s # NULL
    BY NullIs, PatternHas DEF Mid, Top
  <1>3. Q \in Leading /\ Q[s] = x /\ \A t \in Pointer : t # s => Q[t] = P[t]
    BY <1>1, <1>2 DEF Leading
  <1>4. /\ T \in Work /\ Pattern(T) /\ Fits(Set(s, x), T)
        /\ \A y : Has(B, y) <=> y = Set(s, x) \/ Has(T, y)
        /\ BusyIn(B) = BusyIn(T) \cup {s}
    <2>1. Set(s, x).do = "set" /\ Set(s, x).at = s
      BY StepsAre
    <2> QED
      BY <1>1, <1>2, <2>1, HeadIs
  <1>5. s \in BusyIn(T) => x = NULL
    BY <1>4, StepsAre DEF Fits
  <1>6. s \in Global \cup A /\ x \in A \cup {NULL} /\ s \notin Holders(A, B, NULL)
    <2>1. s \in BusyIn(B)
      BY <1>4
    <2>2. s \in Global \cup A /\ s \notin Holders(A, B, NULL)
      BY <1>2, <2>1, MidFacts
    <2>3. x \in A \cup {NULL}
      BY <1>4 DEF Mid, Targets
    <2> QED
      BY <2>2, <2>3
  <1>7. /\ s \in BusyIn(T) => Holders(A, T, NULL) = Holders(A, B, NULL)
        /\ s \notin BusyIn(T) => Holders(A, T, NULL) = Holders(A, B, NULL) \cup {s}
    <2>1. \A t : Has(B, Release(t)) <=> Has(T, Release(t))
      BY <1>4, StepsAre
    <2>2. s \in BusyIn(T) => Holders(A, T, NULL) = Holders(A, B, NULL)
      BY <1>4, <2>1 DEF Holders
    <2>3. s \notin BusyIn(T) => Holders(A, T, NULL) = Holders(A, B, NULL) \cup {s}
      BY <1>4, <1>6, <2>1 DEF Holders
    <2> QED
      BY <2>2, <2>3
  <1>8. Holders(A, B, NULL) \subseteq Pointer /\ Holders(A, T, NULL) \subseteq Pointer
    BY DEF Holders
  <1>9. ASSUME NEW o \in A
        PROVE  /\ x # o => Holding(Q, A, T, NULL, o) = Holding(P, A, B, NULL, o)
               /\ x = o => /\ s \notin Holding(P, A, B, NULL, o)
                           /\ Holding(Q, A, T, NULL, o) = Holding(P, A, B, NULL, o) \cup {s}
    <2>1. o # NULL
      BY <1>2, NullIs
    <2>2. x # o => Holding(Q, A, T, NULL, o) = Holding(P, A, B, NULL, o)
      BY <1>3, <1>6, <1>7, <1>8 DEF Holding
    <2>3. x = o => /\ s \notin Holding(P, A, B, NULL, o)
                   /\ Holding(Q, A, T, NULL, o) = Holding(P, A, B, NULL, o) \cup {s}
      BY <1>3, <1>5, <1>6, <1>7, <1>8, <2>1 DEF Holding
    <2> QED
      BY <2>2, <2>3
  <1>10. ASSUME NEW o \in A
         PROVE  /\ x # o => Waiting(T, o) = Waiting(B, o)
                /\ x = o => s \in Waiting(B, o) /\ Waiting(T, o) = Waiting(B, o) \ {s}
    <2>1. \A t : Has(B, Set(t, o)) <=> (t = s /\ x = o) \/ Has(T, Set(t, o))
      BY <1>4, StepsAre
    <2>2. x = o => ~Has(T, Set(s, o))
      <3> SUFFICES ASSUME x = o, Has(T, Set(s, o))
                   PROVE  FALSE
        OBVIOUS
      <3>1. s \in BusyIn(T)
        BY <1>4, PatternHas
      <3> QED
        BY <1>2, <1>5, <3>1, NullIs
    <2>3. x # o => Waiting(T, o) = Waiting(B, o)
      BY <2>1 DEF Waiting
    <2>4. x = o => s \in Waiting(B, o) /\ Waiting(T, o) = Waiting(B, o) \ {s}
      BY <2>1, <2>2 DEF Waiting
    <2> QED
      BY <2>3, <2>4
  <1>11. Behind(Q, A, T)
    <2> SUFFICES ASSUME T # <<>>, NEW t \in BusyIn(Tail(T))
                 PROVE  Q[t] \notin A
      BY DEF Behind
    <2>1. t \in BusyIn(T) /\ t \in Pointer
      BY <1>4, HeadIs, PatternHas
    <2>2. P[t] \notin A
      BY <1>1, <1>2, <2>1 DEF Mid, Behind
    <2>3. t = s => Q[t] = NULL
      BY <1>3, <1>5, <2>1
    <2> QED
      BY <1>2, <1>3, <2>1, <2>2, <2>3, NullIs
  <1>12. Targets(A, T)
    BY <1>4 DEF Mid, Targets
  <1>13. OnChains(Q, T)
    <2> SUFFICES ASSUME NEW m \in BusyIn(T) \cap Object
                 PROVE  \E g \in Global : m \in ChainOf(Links(Q, T), g)
      BY DEF OnChains
    <2>1. PICK F, G : F = Links(P, B) /\ G = Links(Q, T)
      OBVIOUS
    <2>2. /\ F \in Leading /\ \A t \in Pointer : F[t] = IF t \in BusyIn(B) THEN NULL ELSE P[t]
          /\ G \in Leading /\ \A t \in Pointer : G[t] = IF t \in BusyIn(T) THEN NULL ELSE Q[t]
      BY <1>2, <1>3, <2>1, LinksAre
    <2>3. PICK g \in Global : m \in ChainOf(F, g)
      BY <1>4, <2>1 DEF Mid, OnChains
    <2>4. g \in Pointer /\ ChainOf(F, g) \subseteq Pointer
      BY <2>2, NullIs, ChainLeast
    <2>5. \A t \in Pointer : F[t] = NULL \/ G[t] = F[t]
      BY <1>3, <1>4, <2>2
    <2>6. \A t \in {g} \cup ChainOf(F, g) : F[t] = NULL \/ G[t] = F[t]
      BY <2>4, <2>5
    <2>7. ChainOf(F, g) \subseteq ChainOf(G, g)
      BY <2>2, <2>4, <2>6, ChainGrows
    <2> QED
      BY <2>1, <2>3, <2>7
  <1>14. Doomed(A, T)
    BY <1>4 DEF Mid, Doomed
  <1>15. Held(Q, A, T, NULL)
    <2> SUFFICES ASSUME NEW t \in Holders(A, T, NULL)
                 PROVE  Q[t] \in A \cup {NULL}
      BY DEF Held
    <2>1. t # NULL /\ t \in Pointer
      BY <1>8, NullIs
    <2>2. CASE t = s
      BY <1>3, <1>6, <2>2
    <2>3. CASE t # s
      <3>1. t \in Holders(A, B, NULL)
        BY <1>7, <2>3
      <3> QED
        BY <1>3, <2>1, <2>3, <3>1 DEF Mid, Held
    <2> QED
      BY <2>2, <2>3
  <1>16. Counted(Q, A, T, NULL, NULL, NULL, c)
    <2> SUFFICES ASSUME NEW o \in A
                 PROVE  c[o] = Cardinality(Holding(Q, A, T, NULL, o)) + Cardinality(Waiting(T, o))
                               + One(NULL, o) - One(NULL, o)
      BY DEF Counted
    <2>1. PICK H, W, h, w, g, v : /\ H = Holding(P, A, B, NULL, o) /\ W = Waiting(B, o)
                                  /\ h = Cardinality(H) /\ w = Cardinality(W)
                                  /\ g = Cardinality(Holding(Q, A, T, NULL, o))
                                  /\ v = Cardinality(Waiting(T, o))
      OBVIOUS
    <2>2. h \in Nat /\ w \in Nat /\ g \in Nat /\ v \in Nat /\ H \subseteq Pointer /\ W \subseteq Pointer
      BY <2>1, HoldingIs
    <2>3. c[o] = h + w + One(NULL, o) - One(NULL, o)
      BY <2>1 DEF Mid, Counted
    <2>4. One(NULL, o) \in {0, 1}
      BY OneIs
    <2>5. x # o => g = h /\ v = w
      BY <1>9, <1>10, <2>1
    <2>6. x = o => g = h + 1
      <3>1. Cardinality(H \cup {s}) = Cardinality(H) + 1 \/ s \in H
        BY <2>2, PointersFinite
      <3> QED
        BY <1>9, <2>1, <3>1
    <2>7. x = o => v = w - 1
      <3>1. Cardinality(W \ {s}) = Cardinality(W) - 1 \/ s \notin W
        BY <2>2, PointersFinite
      <3> QED
        BY <1>10, <2>1, <3>1
    <2> QED
      BY <2>1, <2>2, <2>3, <2>4, <2>5, <2>6, <2>7
  <1>17. Needed(Q, A, T, NULL, NULL, NULL)
    <2> SUFFICES ASSUME NEW o \in A, Holding(Q, A, T, NULL, o) = {}, Waiting(T, o) = {}
                 PROVE  FALSE
      BY DEF Needed
    <2>1. Holding(P, A, B, NULL, o) = {} /\ Waiting(B, o) = {}
      BY <1>9, <1>10
    <2> QED
      BY <1>2, <2>1, NullIs DEF Mid, Needed
  <1>18. Spent(Q, A, T, NULL, NULL, c)
    <2> SUFFICES ASSUME NEW o \in Object \ A
                 PROVE  c[o] \in {0, -1} /\ (c[o] = -1 => \A g \in Global : Q[g] # o)
      BY DEF Spent
    <2>1. c[o] \in {0, -1} /\ (c[o] = -1 => \A g \in Global : P[g] = o => Top(B, Set(g, NULL)))
      BY DEF Mid, Spent
    <2>2. ASSUME NEW g \in Global, Q[g] = o, c[o] = -1
          PROVE  FALSE
      <3>1. g # s
        BY <1>3, <1>6, <2>2, NullIs
      <3>2. P[g] = o
        BY <1>3, <2>2, <3>1, NullIs
      <3>3. Head(B) = Set(g, NULL)
        BY <2>1, <2>2, <3>2 DEF Top
      <3> QED
        BY <1>2, <3>1, <3>3, StepsAre
    <2> QED
      BY <2>1, <2>2
  <1>19. Single(Q, A)
    <2> SUFFICES ASSUME NEW g \in Global, NEW h \in Global, Q[g] = Q[h], Q[g] \notin A \cup {NULL}
                 PROVE  g = h
      BY DEF Single
    <2>1. g # s /\ h # s
      BY <1>3, <1>6
    <2>2. P[g] = Q[g] /\ P[h] = Q[h]
      BY <1>3, <2>1, NullIs
    <2> QED
      BY <2>2 DEF Mid, Single
  <1> QED
    BY <1>1, <1>2, <1>3, <1>4, <1>11, <1>12, <1>13, <1>14, <1>15, <1>16, <1>17, <1>18, <1>19 DEF Mid, Unneeded

\* An object is made: it is assigned to one of the program's pointers.
LEMMA Create ==
    ASSUME NEW P, NEW A, NEW o \in Object, NEW s \in Global, NEW c,
           Mid(P, A, <<>>, NULL, NULL, NULL, NULL, c), o \notin A
    PROVE  Mid([P EXCEPT ![o] = NULL], A \cup {o}, Cons(Set(s, o), <<>>), s, NULL, o, NULL,
               [c EXCEPT ![o] = 0])
  <1>1. PICK Q, D, E, d : /\ Q = [P EXCEPT ![o] = NULL] /\ D = A \cup {o}
                          /\ E = Cons(Set(s, o), <<>>) /\ d = [c EXCEPT ![o] = 0]
    OBVIOUS
  <1>2. /\ P \in Leading /\ A \subseteq Object /\ c \in Counter /\ D \subseteq Object
        /\ s \in Pointer /\ s # NULL /\ s \notin Object /\ o \in Pointer /\ o # NULL
        /\ o \in Object \cup {NULL} /\ <<>> \in Work
    BY <1>1, NullIs, HasNone, PointerAssumption DEF Mid
  <1>3. /\ Q \in Leading /\ Q[o] = NULL /\ \A t \in Pointer : t # o => Q[t] = P[t]
        /\ d \in Counter /\ d[o] = 0 /\ \A q \in Object : q # o => d[q] = c[q]
    BY <1>1, <1>2 DEF Leading, Counter
  <1>4. Set(s, o) \in Steps /\ Set(s, o).do = "set" /\ Set(s, o).at = s /\ Set(s, o).val = o
    BY <1>2, StepsAre
  <1>5. /\ E \in Work /\ E # <<>> /\ Tail(E) = <<>>
        /\ \A y : Has(E, y) <=> y = Set(s, o)
        /\ BusyIn(E) = {s}
    <2>1. E \in Work /\ E # <<>> /\ Tail(E) = <<>>
      BY <1>1, <1>2, <1>4, ConsIs DEF Work
    <2>2. /\ \A y : Has(E, y) <=> y = Set(s, o) \/ Has(<<>>, y)
          /\ BusyIn(E) = BusyIn(<<>>) \cup {t \in Pointer : Set(s, o).do = "set" /\ Set(s, o).at = t}
      BY <1>1, <1>2, <1>4, HasCons
    <2>3. BusyIn(<<>>) = {} /\ \A y : ~Has(<<>>, y)
      BY HasNone
    <2> QED
      BY <1>2, <1>4, <2>1, <2>2, <2>3
  <1>6. Pattern(E)
    <2>1. Pattern(<<>>)
      BY DEF Mid
    <2>2. Fits(Set(s, o), <<>>)
      BY <1>2, <1>4, HasNone DEF Fits
    <2> QED
      BY <1>1, <1>2, <1>4, <2>1, <2>2, PatternCons
  <1>7. Holders(A, <<>>, NULL) = Global \cup A /\ Holders(D, E, s) = Global \cup A \cup {o}
    <2>1. \A t : ~Has(E, Release(t)) /\ ~Has(<<>>, Release(t))
      BY <1>5, HasNone, StepsAre
    <2>2. Global \cup A \cup {o} \subseteq Pointer
      BY <1>2, NullIs
    <2>3. Holders(A, <<>>, NULL) = Global \cup A
      BY <2>1, <2>2, HasNone, NullIs DEF Holders
    <2>4. Holders(D, E, s) = Global \cup A \cup {o}
      BY <1>1, <1>2, <1>5, <2>1, <2>2 DEF Holders
    <2> QED
      BY <2>3, <2>4
  <1>8. \A t \in Global \cup A : t \in Pointer /\ t # o /\ t # NULL /\ P[t] \in A \cup {NULL} /\ Q[t] = P[t]
    <2> SUFFICES ASSUME NEW t \in Global \cup A
                 PROVE  t \in Pointer /\ t # o /\ t # NULL /\ P[t] \in A \cup {NULL} /\ Q[t] = P[t]
      OBVIOUS
    <2>1. t \in Pointer /\ t # o /\ t # NULL
      BY <1>2, NullIs, PointerAssumption
    <2>2. P[t] \in A \cup {NULL}
      BY <1>7, <2>1 DEF Mid, Held
    <2> QED
      BY <1>3, <2>1, <2>2
  <1>9. ASSUME NEW q \in A
        PROVE  /\ q # o /\ q \in Object /\ Holding(Q, D, E, s, q) = Holding(P, A, <<>>, NULL, q)
               /\ Waiting(E, q) = {} /\ Waiting(<<>>, q) = {}
    <2>1. q # o /\ q # NULL /\ q \in Object
      BY <1>2, NullIs
    <2>2. Holding(Q, D, E, s, q) = Holding(P, A, <<>>, NULL, q)
      BY <1>3, <1>7, <1>8, <2>1 DEF Holding
    <2>3. Waiting(E, q) = {} /\ Waiting(<<>>, q) = {}
      BY <1>5, <2>1, HasNone, StepsAre DEF Waiting
    <2> QED
      BY <2>1, <2>2, <2>3
  <1>10. Holding(Q, D, E, s, o) = {} /\ Waiting(E, o) = {s}
    <2>1. Holding(Q, D, E, s, o) = {}
      BY <1>2, <1>3, <1>7, <1>8 DEF Holding
    <2>2. Waiting(E, o) = {s}
      BY <1>2, <1>5, StepsAre DEF Waiting
    <2> QED
      BY <2>1, <2>2
  <1>11. Behind(Q, D, E)
    BY <1>5, HasNone DEF Behind
  <1>12. Targets(D, E)
    BY <1>1, <1>5, StepsAre DEF Targets
  <1>13. OnChains(Q, E)
    BY <1>2, <1>5 DEF OnChains
  <1>14. Doomed(D, E)
    BY <1>5, StepsAre DEF Doomed
  <1>15. Held(Q, D, E, s)
    BY <1>1, <1>3, <1>7, <1>8 DEF Held
  <1>16. Counted(Q, D, E, s, NULL, o, d)
    <2> SUFFICES ASSUME NEW q \in D
                 PROVE  d[q] = Cardinality(Holding(Q, D, E, s, q)) + Cardinality(Waiting(E, q))
                               + One(NULL, q) - One(o, q)
      BY DEF Counted
    <2>1. One(NULL, q) = 0 /\ (q = o => One(o, q) = 1) /\ (q # o => One(o, q) = 0)
      BY <1>2, NullIs, OneIs
    <2>2. CASE q = o
      <3>1. Cardinality(Holding(Q, D, E, s, q)) = 0 /\ Cardinality(Waiting(E, q)) = 1
        BY <1>10, <2>2, FS_EmptySet, FS_Singleton
      <3> QED
        BY <1>3, <2>1, <2>2, <3>1
    <2>3. CASE q # o
      <3>1. q \in A
        BY <1>1, <2>3
      <3>2. c[q] = Cardinality(Holding(P, A, <<>>, NULL, q)) + Cardinality(Waiting(<<>>, q))
                   + One(NULL, q) - One(NULL, q)
        BY <3>1 DEF Mid, Counted
      <3> QED
        BY <1>3, <1>9, <2>1, <2>3, <3>1, <3>2
    <2> QED
      BY <2>2, <2>3
  <1>17. Needed(Q, D, E, s, NULL, NULL)
    <2> SUFFICES ASSUME NEW q \in D, Holding(Q, D, E, s, q) = {}, Waiting(E, q) = {}
                 PROVE  FALSE
      BY DEF Needed
    <2>1. q \in A
      BY <1>1, <1>10
    <2>2. Holding(P, A, <<>>, NULL, q) = {} /\ Waiting(<<>>, q) = {}
      BY <1>9, <2>1
    <2> QED
      BY <1>2, <2>1, <2>2, NullIs DEF Mid, Needed
  <1>18. Spent(Q, D, E, s, NULL, d)
    <2> SUFFICES ASSUME NEW q \in Object \ D
                 PROVE  d[q] \in {0, -1} /\ (d[q] = -1 => \A g \in Global : Q[g] # q)
      BY DEF Spent
    <2>1. q # o /\ q \in Object \ A /\ q # NULL
      BY <1>1, NullIs
    <2>2. c[q] \in {0, -1} /\ d[q] = c[q]
      BY <1>3, <2>1 DEF Mid, Spent
    <2>3. \A g \in Global : Q[g] # q
      BY <1>8, <2>1
    <2> QED
      BY <2>2, <2>3
  <1>19. Single(Q, D)
    BY <1>1, <1>8 DEF Single
  <1> QED
    BY <1>1, <1>2, <1>3, <1>6, <1>11, <1>12, <1>13, <1>14, <1>15, <1>16, <1>17, <1>18, <1>19 DEF Mid, Unneeded

\* Nothing points anywhere at first.
LEMMA MidInit ==
    ASSUME NEW P, P = [s \in Pointer |-> NULL], NEW c, c = [o \in Object |-> 0]
    PROVE  Mid(P, {}, <<>>, NULL, NULL, NULL, NULL, c)
  <1>1. P \in Leading /\ c \in Counter /\ \A o \in Object : c[o] = 0
    BY DEF Leading, Counter
  <1>2. DOMAIN <<>> = {} /\ <<>> \in Work
    BY HasNone, EmptySeq
  <1>3. Pattern(<<>>)
    BY <1>2 DEF Pattern, Shape, OneFree, InnerClears, MembersLast
  <1>4. Behind(P, {}, <<>>) /\ Targets({}, <<>>) /\ OnChains(P, <<>>) /\ Doomed({}, <<>>)
    BY HasNone DEF Behind, Targets, OnChains, Doomed
  <1>5. \A s \in Pointer : P[s] = NULL
    OBVIOUS
  <1>6. Held(P, {}, <<>>, NULL)
    BY <1>5 DEF Held, Holders
  <1>7. Single(P, {})
    BY <1>5, NullIs DEF Single
  <1>8. Spent(P, {}, <<>>, NULL, NULL, c)
    BY <1>1 DEF Spent
  <1> QED
    BY <1>1, <1>3, <1>4, <1>6, <1>7, <1>8 DEF Mid, Counted, Needed, Unneeded

-----------------------------------------------------------------------------
(* The stages of an operation: L is the state of the objects' lives and R  *)
(* the steps in progress, those of a notification function apart.          *)

Dying(L, B) == \A p \in Object : L[p] = "dying" <=> Has(B, Free(p))
Base(P, A, L, B, rel, dc, ic, del, c) == Mid(P, A, B, rel, dc, ic, del, c) /\ Dying(L, B)

\* B is the rest of an operation on s; and what B is about still leads to p.
Writing(B, s) == \E x \in Object \cup {NULL} : Top(B, Set(s, x))
Anchor(P, B, p) == \E s \in Pointer : P[s] = p /\ (Top(B, Free(s)) \/ Writing(B, s))

\* Between two operations, or where an interrupted one goes on;
AtRest(P, A, L, R, c) == Base(P, A, L, R, NULL, NULL, NULL, NULL, c)
\* the new object of an assignment is counted,
AtInc(P, A, L, R, c) ==
    \E B \in Work, s \in Pointer, o \in A :
       /\ Top(B, Set(s, o))
       /\ R \in {Cons(Step("inc", o, NULL), Cons(Release(s), B)),
                 Cons(Step("incStore", o, c[o]), Cons(Release(s), B))}
       /\ Base(P, A, L, B, s, NULL, o, NULL, c)
\* the old one is let go of,
AtRelease(P, A, L, R, c) ==
    \E B \in Work, s \in Pointer :
       /\ Writing(B, s)
       /\ R = Cons(Release(s), B)
       /\ Base(P, A, L, B, s, NULL, NULL, NULL, c)
\* counted down, where a dying object can only be the one whose pointer its
\* own destructor clears,
AtDec(P, A, L, R, c) ==
    \E B \in Work, p \in Object :
       /\ Anchor(P, B, p)
       /\ p \notin A => \E s \in Global : P[s] = p /\ Top(B, Set(s, NULL))
       /\ R \in {Cons(Step("dec", p, NULL), B), Cons(Step("decStore", p, c[p]), B)}
       /\ Base(P, A, L, B, NULL, p, NULL, NULL, c)
\* deleted,
AtDelete(P, A, L, R, c) ==
    \E B \in Work, p \in Object :
       /\ Anchor(P, B, p)
       /\ R = Cons(Step("delete", p, NULL), B)
       /\ Base(P, A, L, B, NULL, NULL, NULL, p, c)
\* and its destructor runs.
AtDestruct(P, A, L, R, c) ==
    \E B \in Work, p \in Object :
       /\ Top(B, Release(p))
       /\ R = Cons(Step("destruct", p, NULL), B)
       /\ Base(P, A, L, B, NULL, NULL, NULL, NULL, c)

Working(P, A, L, R, c) ==
    \/ AtRest(P, A, L, R, c) \/ AtInc(P, A, L, R, c) \/ AtRelease(P, A, L, R, c)
    \/ AtDec(P, A, L, R, c) \/ AtDelete(P, A, L, R, c) \/ AtDestruct(P, A, L, R, c)

\* A notification function copies a pointer to o and drops the copy: W is what
\* there is to do and n the counts.
CopyOf(o, R, c, W, n) ==
    \/ /\ n = c
       /\ W \in {Cons(Step("inc", o, NULL), Cons(Step("dec", o, NULL), Cons(Resume, R))),
                 Cons(Step("incStore", o, c[o]), Cons(Step("dec", o, NULL), Cons(Resume, R))),
                 Cons(Resume, R)}
    \/ /\ n = [c EXCEPT ![o] = c[o] + 1]
       /\ W \in {Cons(Step("dec", o, NULL), Cons(Resume, R)),
                 Cons(Step("decStore", o, c[o] + 1), Cons(Resume, R))}
Copying(P, A, R, c, W, n) ==
    \E s \in (Global \cup A) \ BusyIn(R), o \in A : P[s] = o /\ CopyOf(o, R, c, W, n)

Running(P, A, L, W, n) ==
    \E R \in Work, c \in Counter :
       Working(P, A, L, R, c) /\ ((W = R /\ n = c) \/ Copying(P, A, R, c, W, n))

IInv == /\ life \in [Object -> {"none", "alive", "dying"}]
        /\ Running(ptr, Alive, life, todo, count)

\* The steps between the ones of the pattern.
LEMMA PlainSteps ==
    /\ \A o \in Object : Step("inc", o, NULL) \in Steps /\ Step("dec", o, NULL) \in Steps
    /\ \A o \in Object, n \in Int : Step("incStore", o, n) \in Steps /\ Step("decStore", o, n) \in Steps
    /\ \A o \in Object : Step("delete", o, NULL) \in Steps /\ Step("destruct", o, NULL) \in Steps
    /\ \A s \in Pointer : Release(s) \in Steps /\ Release(s).do = "release" /\ Release(s).at = s
    /\ Resume \in Steps /\ Resume.do = "resume"
    /\ \A do, at, val : Step(do, at, val).do = do /\ Step(do, at, val).at = at /\ Step(do, at, val).val = val
  <1>1. \A do, at, val : /\ Step(do, at, val).do = do /\ Step(do, at, val).at = at /\ Step(do, at, val).val = val
                         /\ do \in StepNames /\ at \in Pointer \cup {NULL} /\ val \in Object \cup {NULL} \cup Int
                            => Step(do, at, val) \in Steps
    BY StepIs
  <1>2. {"inc", "incStore", "dec", "decStore", "delete", "destruct", "release", "resume"} \subseteq StepNames
    BY DEF StepNames
  <1>3. Object \subseteq Pointer
    BY NullIs
  <1>4. \A o \in Object : Step("inc", o, NULL) \in Steps /\ Step("dec", o, NULL) \in Steps
    BY <1>1, <1>2, <1>3
  <1>5. \A o \in Object, n \in Int : Step("incStore", o, n) \in Steps /\ Step("decStore", o, n) \in Steps
    BY <1>1, <1>2, <1>3
  <1>6. \A o \in Object : Step("delete", o, NULL) \in Steps /\ Step("destruct", o, NULL) \in Steps
    BY <1>1, <1>2, <1>3
  <1>7. Resume \in Steps /\ Resume.do = "resume"
    BY <1>1, <1>2 DEF Resume
  <1>8. \A s \in Pointer : Release(s) \in Steps /\ Release(s).do = "release" /\ Release(s).at = s
    BY <1>1, <1>2 DEF Release
  <1> QED
    BY <1>1, <1>4, <1>5, <1>6, <1>7, <1>8

LEMMA Plain ==
    ASSUME NEW x \in Steps, x.do \notin {"set", "free"}, NEW r \in Work
    PROVE  /\ Cons(x, r) \in Work /\ Cons(x, r) # <<>> /\ Head(Cons(x, r)) = x /\ Tail(Cons(x, r)) = r
           /\ BusyIn(Cons(x, r)) = BusyIn(r)
           /\ \A p : Has(Cons(x, r), Free(p)) <=> Has(r, Free(p))
           /\ x # Resume => (Has(Cons(x, r), Resume) <=> Has(r, Resume))
  <1>1. PICK u : u = Cons(x, r)
    OBVIOUS
  <1>2. u \in Work /\ u # <<>> /\ Head(u) = x /\ Tail(u) = r
    BY <1>1, ConsIs DEF Work
  <1>3. /\ \A y : Has(u, y) <=> y = x \/ Has(r, y)
        /\ BusyIn(u) = BusyIn(r) \cup {s \in Pointer : x.do = "set" /\ x.at = s}
    BY <1>1, HasCons
  <1>4. \A p : x # Free(p)
    BY StepsAre
  <1> QED
    BY <1>1, <1>2, <1>3, <1>4

LEMMA NoResume ==
    ASSUME NEW B, Pattern(B)
    PROVE  ~Has(B, Resume) /\ (B # <<>> => Head(B).do \in {"set", "free", "release"})
  <1>1. B \in Work
    BY PatternHas
  <1>2. ASSUME Has(B, Resume)
        PROVE  FALSE
    <2>1. PICK i \in DOMAIN B : B[i] = Resume
      BY <1>2 DEF Has
    <2>2. B[i].do \in {"set", "free", "release"}
      BY StepsAre DEF Pattern, Shape
    <2> QED
      BY <2>1, <2>2, PlainSteps
  <1>3. ASSUME B # <<>>
        PROVE  Head(B).do \in {"set", "free", "release"}
    BY <1>1, <1>3, HeadIs, StepsAre DEF Fits
  <1> QED
    BY <1>2, <1>3

\* The pointers in the steps of an operation.
LEMMA TopHas ==
    ASSUME NEW B \in Work, NEW y, Top(B, y)
    PROVE  B # <<>> /\ Head(B) = y /\ Has(B, y)
  BY HeadIs DEF Top

\* What every stage has.
LEMMA WorkingFacts ==
    ASSUME NEW P, NEW A, NEW L, NEW R, NEW c, Working(P, A, L, R, c)
    PROVE  /\ R \in Work /\ ~Has(R, Resume) /\ Dying(L, R)
           /\ \E B, rel, dc, ic, del :
                 /\ Mid(P, A, B, rel, dc, ic, del, c)
                 /\ BusyIn(R) = BusyIn(B)
                 /\ rel = NULL \/ dc = NULL
           /\ R = <<>> => AtRest(P, A, L, R, c)
           /\ R # <<>> => \/ Head(R).do \in {"inc", "incStore"} /\ AtInc(P, A, L, R, c)
                          \/ Head(R).do = "release" /\ AtRelease(P, A, L, R, c)
                          \/ Head(R).do \in {"dec", "decStore"} /\ AtDec(P, A, L, R, c)
                          \/ Head(R).do = "delete" /\ AtDelete(P, A, L, R, c)
                          \/ Head(R).do = "destruct" /\ AtDestruct(P, A, L, R, c)
                          \/ Head(R).do \in {"set", "free", "release"} /\ AtRest(P, A, L, R, c)
  <1>1. CASE AtRest(P, A, L, R, c)
    <2>1. Mid(P, A, R, NULL, NULL, NULL, NULL, c) /\ Dying(L, R) /\ Pattern(R)
      BY <1>1 DEF AtRest, Base, Mid
    <2>2. R \in Work /\ ~Has(R, Resume) /\ (R # <<>> => Head(R).do \in {"set", "free", "release"})
      BY <2>1, PatternHas, NoResume
    <2> QED
      BY <1>1, <2>1, <2>2
  <1>2. ASSUME NEW B \in Work, NEW rel, NEW dc, NEW ic, NEW del,
               Base(P, A, L, B, rel, dc, ic, del, c), rel = NULL \/ dc = NULL,
               NEW x \in Steps, x.do \notin {"set", "free", "resume"}, R = Cons(x, B)
        PROVE  /\ R \in Work /\ ~Has(R, Resume) /\ Dying(L, R) /\ R # <<>> /\ Head(R) = x
               /\ \E C, d, e, f, g : /\ Mid(P, A, C, d, e, f, g, c)
                                     /\ BusyIn(R) = BusyIn(C)
                                     /\ d = NULL \/ e = NULL
    <2>1. Mid(P, A, B, rel, dc, ic, del, c) /\ Dying(L, B) /\ Pattern(B)
      BY <1>2 DEF Base, Mid
    <2>2. ~Has(B, Resume) /\ x # Resume
      BY <1>2, <2>1, NoResume, PlainSteps
    <2>3. /\ R \in Work /\ R # <<>> /\ Head(R) = x /\ BusyIn(R) = BusyIn(B) /\ ~Has(R, Resume)
          /\ \A p : Has(R, Free(p)) <=> Has(B, Free(p))
      BY <1>2, <2>2, Plain
    <2>4. Dying(L, R)
      BY <2>1, <2>3 DEF Dying
    <2> QED
      BY <1>2, <2>1, <2>3, <2>4
  <1>3. CASE AtInc(P, A, L, R, c)
    <2>1. PICK B, s, o, x :
                  /\ B \in Work /\ s \in Pointer /\ o \in A
                  /\ x \in {Step("inc", o, NULL), Step("incStore", o, c[o])}
                  /\ R = Cons(x, Cons(Release(s), B)) /\ Base(P, A, L, B, s, NULL, o, NULL, c)
      BY <1>3 DEF AtInc
    <2>2. o \in Object /\ c[o] \in Int
      BY <2>1 DEF Base, Mid, Counter
    <2>3. x \in Steps /\ x.do \in {"inc", "incStore"}
      BY <2>1, <2>2, PlainSteps
    <2>4. Mid(P, A, B, s, NULL, o, NULL, c) /\ Dying(L, B) /\ Pattern(B)
      BY <2>1 DEF Base, Mid
    <2>5. PICK C : C = Cons(Release(s), B)
      OBVIOUS
    <2>6. Release(s) \in Steps /\ Release(s).do = "release" /\ Release(s) # Resume /\ x # Resume /\ ~Has(B, Resume)
      BY <2>1, <2>3, <2>4, PlainSteps, NoResume
    <2>7. /\ C \in Work /\ BusyIn(C) = BusyIn(B) /\ ~Has(C, Resume)
          /\ \A p : Has(C, Free(p)) <=> Has(B, Free(p))
      BY <2>1, <2>5, <2>6, Plain
    <2>8. /\ R \in Work /\ R # <<>> /\ Head(R) = x /\ BusyIn(R) = BusyIn(B) /\ ~Has(R, Resume)
          /\ \A p : Has(R, Free(p)) <=> Has(B, Free(p))
      BY <2>1, <2>3, <2>5, <2>6, <2>7, Plain
    <2>9. Dying(L, R)
      BY <2>4, <2>8 DEF Dying
    <2> QED
      BY <1>3, <2>3, <2>4, <2>8, <2>9
  <1>4. CASE AtRelease(P, A, L, R, c)
    <2>1. PICK B \in Work, s \in Pointer : R = Cons(Release(s), B) /\ Base(P, A, L, B, s, NULL, NULL, NULL, c)
      BY <1>4 DEF AtRelease
    <2>2. Release(s) \in Steps /\ Release(s).do = "release"
      BY PlainSteps
    <2> QED
      BY <1>2, <1>4, <2>1, <2>2
  <1>5. CASE AtDec(P, A, L, R, c)
    <2>1. PICK B, p, x :
                  /\ B \in Work /\ p \in Object
                  /\ x \in {Step("dec", p, NULL), Step("decStore", p, c[p])}
                  /\ R = Cons(x, B) /\ Base(P, A, L, B, NULL, p, NULL, NULL, c)
      BY <1>5 DEF AtDec
    <2>2. c[p] \in Int
      BY <2>1 DEF Base, Mid, Counter
    <2>3. x \in Steps /\ x.do \in {"dec", "decStore"}
      BY <2>1, <2>2, PlainSteps
    <2> QED
      BY <1>2, <1>5, <2>1, <2>3
  <1>6. CASE AtDelete(P, A, L, R, c)
    <2>1. PICK B \in Work, p \in Object :
                  R = Cons(Step("delete", p, NULL), B) /\ Base(P, A, L, B, NULL, NULL, NULL, p, c)
      BY <1>6 DEF AtDelete
    <2>2. Step("delete", p, NULL) \in Steps /\ Step("delete", p, NULL).do = "delete"
      BY PlainSteps
    <2> QED
      BY <1>2, <1>6, <2>1, <2>2
  <1>7. CASE AtDestruct(P, A, L, R, c)
    <2>1. PICK B \in Work, p \in Object :
                  R = Cons(Step("destruct", p, NULL), B) /\ Base(P, A, L, B, NULL, NULL, NULL, NULL, c)
      BY <1>7 DEF AtDestruct
    <2>2. Step("destruct", p, NULL) \in Steps /\ Step("destruct", p, NULL).do = "destruct"
      BY PlainSteps
    <2> QED
      BY <1>2, <1>7, <2>1, <2>2
  <1> QED
    BY <1>1, <1>3, <1>4, <1>5, <1>6, <1>7 DEF Working

\* What holds in the middle of everything.
LEMMA WorkingHas ==
    ASSUME NEW P, NEW A, NEW L, NEW R, NEW c, Working(P, A, L, R, c)
    PROVE  /\ P \in Leading /\ A \subseteq Object /\ c \in Counter
           /\ \A s \in (Global \cup A) \ BusyIn(R) : P[s] \in A \cup {NULL}
           /\ \A g \in Global : ChainOf(Links(P, R), g) \subseteq A
           /\ \A o \in Object : c[o] \in Int /\ -1 <= c[o] /\ c[o] <= Cardinality(Pointer) + 1
  <1>1. PICK B, rel, dc, ic, del :
                /\ Mid(P, A, B, rel, dc, ic, del, c)
                /\ BusyIn(R) = BusyIn(B)
                /\ rel = NULL \/ dc = NULL
    BY WorkingFacts
  <1>2. P \in Leading /\ A \subseteq Object /\ c \in Counter
    BY <1>1 DEF Mid
  <1>3. Links(P, R) = Links(P, B)
    BY <1>1 DEF Links
  <1>4. /\ \A s \in (Global \cup A) \ BusyIn(B) : P[s] \in A \cup {NULL}
        /\ \A g \in Global : ChainOf(Links(P, B), g) \subseteq A
    BY <1>1, MidFacts
  <1>5. \A o \in Object : c[o] \in Int /\ -1 <= c[o] /\ c[o] <= Cardinality(Pointer) + 1
    BY <1>1, MidBound
  <1> QED
    BY <1>1, <1>2, <1>3, <1>4, <1>5

\* A notification function is there to see.
LEMMA CopyIs ==
    ASSUME NEW o \in Object, NEW R \in Work, NEW c \in Counter, NEW W, NEW n, CopyOf(o, R, c, W, n)
    PROVE  /\ W \in Work /\ W # <<>> /\ Has(W, Resume) /\ BusyIn(W) = BusyIn(R)
           /\ Head(W).do \in {"inc", "incStore", "dec", "decStore", "resume"}
  <1>1. PICK C, D : C = Cons(Resume, R) /\ D = Cons(Step("dec", o, NULL), C)
    OBVIOUS
  <1>2. c[o] \in Int /\ c[o] + 1 \in Int
    BY DEF Counter
  <1>3. Resume \in Steps /\ Resume.do = "resume"
    BY PlainSteps
  <1>4. C \in Work /\ C # <<>> /\ Head(C) = Resume /\ BusyIn(C) = BusyIn(R) /\ Has(C, Resume)
    <2>1. C \in Work /\ C # <<>> /\ Head(C) = Resume /\ BusyIn(C) = BusyIn(R)
      BY <1>1, <1>3, Plain
    <2>2. Has(C, Resume)
      BY <1>1, <1>3, HasCons
    <2> QED
      BY <2>1, <2>2
  <1>5. ASSUME NEW x \in Steps, x.do \in {"inc", "incStore", "dec", "decStore"}, NEW r \in Work, Has(r, Resume)
        PROVE  /\ Cons(x, r) \in Work /\ Cons(x, r) # <<>> /\ Head(Cons(x, r)) = x
               /\ BusyIn(Cons(x, r)) = BusyIn(r) /\ Has(Cons(x, r), Resume)
    <2>1. x # Resume
      BY <1>5, PlainSteps
    <2> QED
      BY <1>5, <2>1, Plain
  <1>6. Step("dec", o, NULL) \in Steps /\ Step("dec", o, NULL).do = "dec"
    BY PlainSteps
  <1>7. D \in Work /\ D # <<>> /\ Head(D) = Step("dec", o, NULL) /\ BusyIn(D) = BusyIn(R) /\ Has(D, Resume)
    BY <1>1, <1>4, <1>5, <1>6
  <1>8. CASE W = C
    BY <1>3, <1>4, <1>8
  <1>9. CASE W = D
    BY <1>6, <1>7, <1>9
  <1>10. ASSUME NEW x, x \in {Step("inc", o, NULL), Step("incStore", o, c[o])}, W = Cons(x, D)
         PROVE  /\ W \in Work /\ W # <<>> /\ Has(W, Resume) /\ BusyIn(W) = BusyIn(R)
                /\ Head(W).do \in {"inc", "incStore", "dec", "decStore", "resume"}
    <2>1. x \in Steps /\ x.do \in {"inc", "incStore"}
      BY <1>2, <1>10, PlainSteps
    <2> QED
      BY <1>5, <1>7, <1>10, <2>1
  <1>11. CASE W = Cons(Step("decStore", o, c[o] + 1), C)
    <2>1. Step("decStore", o, c[o] + 1) \in Steps /\ Step("decStore", o, c[o] + 1).do = "decStore"
      BY <1>2, PlainSteps
    <2> QED
      BY <1>4, <1>5, <1>11, <2>1
  <1> QED
    BY <1>1, <1>8, <1>9, <1>10, <1>11 DEF CopyOf

LEMMA CopyHas ==
    ASSUME NEW P, NEW A, NEW L, NEW R, NEW c, Working(P, A, L, R, c),
           NEW W, NEW n, Copying(P, A, R, c, W, n)
    PROVE  /\ W \in Work /\ W # <<>> /\ Has(W, Resume) /\ BusyIn(W) = BusyIn(R)
           /\ Head(W).do \in {"inc", "incStore", "dec", "decStore", "resume"}
  <1>1. PICK o \in A : CopyOf(o, R, c, W, n)
    BY DEF Copying
  <1>2. o \in Object /\ R \in Work /\ c \in Counter
    BY WorkingHas, WorkingFacts
  <1> QED
    BY <1>1, <1>2, CopyIs

\* The steps in progress as the specification sees them.
LEMMA TodoIs ==
    ASSUME NEW x \in Steps, NEW r \in Work, todo = Cons(x, r)
    PROVE  todo # <<>> /\ todo[1] = x /\ At = x.at /\ Val = x.val /\ Tail(todo) = r
  <1>1. todo # <<>> /\ Tail(todo) = r
    BY ConsIs DEF Work
  <1>2. todo[1] = x
    BY ConsAt DEF Work
  <1> QED
    BY <1>1, <1>2 DEF At, Val

LEMMA TodoHead ==
    ASSUME todo \in Work, todo # <<>>
    PROVE  todo[1] = Head(todo)
  BY HeadTailProperties DEF Work

LEMMA BusyIs == Busy = BusyIn(todo)
  BY DEF Busy, BusyIn

LEMMA InterruptedIs ==
    ASSUME todo \in Work
    PROVE  Interrupted <=> Has(todo, Resume)
  <1>1. ToSet(todo) = {todo[i] : i \in DOMAIN todo}
    BY DEF ToSet, Range
  <1> QED
    BY <1>1 DEF Interrupted, Has

\* Where the steps in progress are those of an operation, and where they are
\* those of a notification function.
LEMMA IInvIs ==
    ASSUME IInv
    PROVE  /\ life \in [Object -> {"none", "alive", "dying"}] /\ todo \in Work
           /\ \E R, c :
                 /\ Working(ptr, Alive, life, R, c)
                 /\ BusyIn(todo) = BusyIn(R)
                 /\ \/ todo = R /\ count = c /\ ~Has(todo, Resume)
                    \/ /\ Copying(ptr, Alive, R, c, todo, count) /\ Has(todo, Resume) /\ todo # <<>>
                       /\ todo[1].do \in {"inc", "incStore", "dec", "decStore", "resume"}
  <1>1. PICK R \in Work, c \in Counter :
               /\ Working(ptr, Alive, life, R, c)
               /\ (todo = R /\ count = c) \/ Copying(ptr, Alive, R, c, todo, count)
    BY DEF IInv, Running
  <1>2. CASE todo = R /\ count = c
    BY <1>1, <1>2, WorkingFacts DEF IInv
  <1>3. CASE Copying(ptr, Alive, R, c, todo, count)
    <2>1. /\ todo \in Work /\ todo # <<>> /\ Has(todo, Resume) /\ BusyIn(todo) = BusyIn(R)
          /\ Head(todo).do \in {"inc", "incStore", "dec", "decStore", "resume"}
      BY <1>1, <1>3, CopyHas
    <2>2. todo[1] = Head(todo)
      BY <2>1, TodoHead
    <2> QED
      BY <1>1, <1>3, <2>1, <2>2 DEF IInv
  <1> QED
    BY <1>1, <1>2, <1>3

\* A step of an operation leads to one of its stages.
LEMMA Goes ==
    ASSUME NEW R, NEW c, Working(ptr', Alive', life', R, c), todo' = R, count' = c,
           life' \in [Object -> {"none", "alive", "dying"}]
    PROVE  IInv'
  <1>1. R \in Work /\ c \in Counter
    BY WorkingFacts, WorkingHas
  <1> QED
    BY <1>1 DEF IInv, Running

\* A step of a notification function.
LEMMA GoesCopying ==
    ASSUME NEW R, NEW c, Working(ptr, Alive, life, R, c), UNCHANGED <<ptr, life>>,
           Copying(ptr, Alive, R, c, todo', count'),
           life \in [Object -> {"none", "alive", "dying"}]
    PROVE  IInv'
  <1>1. R \in Work /\ c \in Counter
    BY WorkingFacts, WorkingHas
  <1>2. ptr' = ptr /\ life' = life /\ Alive' = Alive
    BY DEF Alive
  <1> QED
    BY <1>1, <1>2 DEF IInv, Running

-----------------------------------------------------------------------------
(* What the invariant says between operations and in their middle.         *)

LEMMA IInvTyped == IInv => TypeOK
  <1> SUFFICES ASSUME IInv
               PROVE  TypeOK
    OBVIOUS
  <1>1. PICK R, c : /\ Working(ptr, Alive, life, R, c)
                    /\ \/ count = c
                       \/ Copying(ptr, Alive, R, c, todo, count)
    BY IInvIs
  <1>2. /\ ptr \in Leading /\ Alive \subseteq Object /\ c \in Counter
        /\ \A o \in Object : c[o] \in Int /\ -1 <= c[o] /\ c[o] <= Cardinality(Pointer) + 1
    BY <1>1, WorkingHas
  <1>3. PICK n : n = Cardinality(Pointer)
    OBVIOUS
  <1>4. n \in Nat
    BY <1>3, PointersFinite
  <1>5. \A o \in Object : c[o] \in -1 .. n + 2 /\ c[o] + 1 \in -1 .. n + 2
    BY <1>2, <1>3, <1>4
  <1>6. count \in [Object -> -1 .. n + 2]
    <2>1. CASE count = c
      BY <1>2, <1>5, <2>1 DEF Counter
    <2>2. CASE Copying(ptr, Alive, R, c, todo, count)
      <3>1. PICK o \in Alive : count = c \/ count = [c EXCEPT ![o] = c[o] + 1]
        BY <2>2 DEF Copying, CopyOf
      <3>2. o \in Object
        BY <1>2, <3>1
      <3> QED
        BY <1>2, <1>5, <3>1, <3>2 DEF Counter
    <2> QED
      BY <1>1, <2>1, <2>2
  <1>7. ASSUME NEW i \in DOMAIN todo
        PROVE  todo[i].do \in StepNames /\ todo[i].at \in Pointer \cup {NULL}
    <2>1. todo \in Seq(Steps)
      BY IInvIs DEF Work
    <2>2. todo[i] \in Steps
      BY <2>1, LenProperties, ElementOfSeq
    <2> QED
      BY <2>2 DEF Steps
  <1>8. StepNames \subseteq {"inc", "incStore", "dec", "decStore", "release",
                             "set", "delete", "destruct", "free", "resume"}
    BY DEF StepNames
  <1>9. ptr \in [Pointer -> Object \cup {NULL}] /\ life \in [Object -> {"none", "alive", "dying"}]
    BY <1>2, IInvIs DEF Leading
  <1> QED
    BY <1>3, <1>6, <1>7, <1>8, <1>9 DEF TypeOK

\* At rest the pointers that are counted are all of them.
LEMMA RestIs ==
    ASSUME IInv, todo = <<>>
    PROVE  /\ \A o \in Alive : /\ count[o] = Cardinality(PointersTo(o))
                               /\ PointersTo(o) # {}
           /\ \A o \in Object : life[o] # "dying"
  <1>1. PICK R, c : /\ Working(ptr, Alive, life, R, c)
                    /\ todo = R /\ count = c
    BY IInvIs
  <1>2. Mid(ptr, Alive, <<>>, NULL, NULL, NULL, NULL, count) /\ Dying(life, <<>>)
    BY <1>1, WorkingFacts DEF AtRest, Base
  <1>3. Holders(Alive, <<>>, NULL) = Global \cup Alive
    <2>1. Global \cup Alive \subseteq Pointer
      BY NullIs DEF Alive
    <2> QED
      BY <2>1, HasNone, NullIs DEF Holders
  <1>4. \A o : Holding(ptr, Alive, <<>>, NULL, o) = PointersTo(o) /\ Waiting(<<>>, o) = {}
    BY <1>3, HasNone DEF Holding, PointersTo, Waiting
  <1>5. ASSUME NEW o \in Alive
        PROVE  count[o] = Cardinality(PointersTo(o)) /\ PointersTo(o) # {}
    <2>1. count[o] = Cardinality(Holding(ptr, Alive, <<>>, NULL, o)) + Cardinality(Waiting(<<>>, o))
                     + One(NULL, o) - One(NULL, o)
      BY <1>2 DEF Mid, Counted
    <2>2. o # NULL
      BY NullIs DEF Alive
    <2>3. Cardinality(Holding(ptr, Alive, <<>>, NULL, o)) \in Nat /\ Cardinality(Waiting(<<>>, o)) = 0
      BY <1>4, HoldingIs
    <2>4. One(NULL, o) = 0
      BY <2>2, OneIs
    <2>5. Holding(ptr, Alive, <<>>, NULL, o) # {}
      BY <1>2, <1>4, <2>2 DEF Mid, Needed
    <2> QED
      BY <1>4, <2>1, <2>3, <2>4, <2>5
  <1>6. \A o \in Object : life[o] # "dying"
    BY <1>2, HasNone DEF Dying
  <1> QED
    BY <1>5, <1>6

LEMMA IInvCounts == IInv => CountIsExact
  BY RestIs DEF CountIsExact

LEMMA IInvDeletes == IInv => UnreferencedIsDeleted
  <1> SUFFICES ASSUME IInv, todo = <<>>, NEW o \in Object, PointersTo(o) = {}
               PROVE  life[o] = "none"
    BY DEF UnreferencedIsDeleted
  <1>1. o \notin Alive /\ life[o] # "dying"
    BY RestIs
  <1>2. life[o] \in {"none", "alive", "dying"}
    BY IInvIs
  <1> QED
    BY <1>1, <1>2 DEF Alive

\* A pointer that nothing is modifying leads to a live object.
LEMMA StableIs ==
    ASSUME IInv
    PROVE  /\ \A s \in (Global \cup Alive) \ BusyIn(todo) : ptr[s] \in Alive \cup {NULL}
           /\ Reached \subseteq (Global \cup Alive) \ BusyIn(todo)
           /\ \A s \in Pointer : Chain(s) = ChainOf(Links(ptr, todo), s)
  <1>1. PICK R, c : Working(ptr, Alive, life, R, c) /\ BusyIn(todo) = BusyIn(R)
    BY IInvIs
  <1>2. \A s \in (Global \cup Alive) \ BusyIn(todo) : ptr[s] \in Alive \cup {NULL}
    BY <1>1, WorkingHas
  <1>3. \A s \in Pointer : Chain(s) = ChainOf(Links(ptr, todo), s)
    BY BusyIs, ChainIs
  <1>4. ASSUME NEW g \in Global
        PROVE  Chain(g) \subseteq Alive
    <2>1. ChainOf(Links(ptr, R), g) \subseteq Alive
      BY <1>1, WorkingHas
    <2>2. Links(ptr, R) = Links(ptr, todo)
      BY <1>1 DEF Links
    <2> QED
      BY <1>3, <2>1, <2>2, NullIs
  <1> QED
    BY <1>2, <1>3, <1>4, BusyIs DEF Reached

LEMMA IInvStable == IInv => StablePointsToLive
  BY StableIs, BusyIs DEF StablePointsToLive, Stable

-----------------------------------------------------------------------------
(* Every step keeps the invariant.                                         *)

LEMMA IInvInit == Init => IInv
  <1> SUFFICES ASSUME Init
               PROVE  IInv
    OBVIOUS
  <1>1. Alive = {} /\ life \in [Object -> {"none", "alive", "dying"}]
    BY DEF Init, Alive
  <1>2. Mid(ptr, {}, <<>>, NULL, NULL, NULL, NULL, count)
    BY MidInit DEF Init
  <1>3. Dying(life, <<>>)
    BY HasNone DEF Dying, Init
  <1>4. Working(ptr, Alive, life, <<>>, count)
    BY <1>1, <1>2, <1>3 DEF Working, AtRest, Base
  <1>5. <<>> \in Work /\ count \in Counter
    BY <1>2, HasNone DEF Mid
  <1> QED
    BY <1>1, <1>4, <1>5 DEF IInv, Running, Init

\* The step a notification function takes tells how far it is.
LEMMA CopyHeads ==
    ASSUME NEW o \in Object, NEW R \in Work, NEW c \in Counter, NEW W, NEW n, CopyOf(o, R, c, W, n),
           NEW C, C = Cons(Resume, R), NEW D, D = Cons(Step("dec", o, NULL), C)
    PROVE  /\ C \in Work /\ D \in Work
           /\ Head(W).do = "inc" => W = Cons(Step("inc", o, NULL), D) /\ n = c
           /\ Head(W).do = "incStore" => W = Cons(Step("incStore", o, c[o]), D) /\ n = c
           /\ Head(W).do = "dec" => W = D /\ n = [c EXCEPT ![o] = c[o] + 1]
           /\ Head(W).do = "decStore" => W = Cons(Step("decStore", o, c[o] + 1), C)
                                         /\ n = [c EXCEPT ![o] = c[o] + 1]
           /\ Head(W).do = "resume" => W = C /\ n = c
  <1>1. C \in Work /\ D \in Work /\ Head(C).do = "resume" /\ Head(D).do = "dec"
    BY PlainSteps, Plain
  <1>2. c[o] \in Int /\ c[o] + 1 \in Int
    BY DEF Counter
  <1>3. /\ Head(Cons(Step("inc", o, NULL), D)).do = "inc"
        /\ Head(Cons(Step("incStore", o, c[o]), D)).do = "incStore"
        /\ Head(Cons(Step("decStore", o, c[o] + 1), C)).do = "decStore"
    <2>1. Step("inc", o, NULL) \in Steps /\ Step("inc", o, NULL).do = "inc"
      BY PlainSteps
    <2>2. Step("incStore", o, c[o]) \in Steps /\ Step("incStore", o, c[o]).do = "incStore"
      BY <1>2, PlainSteps
    <2>3. Step("decStore", o, c[o] + 1) \in Steps /\ Step("decStore", o, c[o] + 1).do = "decStore"
      BY <1>2, PlainSteps
    <2> QED
      BY <1>1, <2>1, <2>2, <2>3, Plain
  <1> QED
    BY <1>1, <1>3 DEF CopyOf

LEMMA IncReadKeeps == IInv /\ IncRead => IInv'
  <1> SUFFICES ASSUME IInv, IncRead
               PROVE  IInv'
    OBVIOUS
  <1>1. PICK R, c : /\ Working(ptr, Alive, life, R, c)
                    /\ \/ todo = R /\ count = c
                       \/ Copying(ptr, Alive, R, c, todo, count)
    BY IInvIs
  <1>2. /\ ptr' = ptr /\ life' = life /\ count' = count /\ Alive' = Alive
        /\ todo # <<>> /\ todo[1].do = "inc" /\ todo \in Work /\ Head(todo) = todo[1]
        /\ life \in [Object -> {"none", "alive", "dying"}]
    BY IInvIs, TodoHead DEF IncRead, Do, Alive
  <1>3. R \in Work /\ c \in Counter /\ Alive \subseteq Object
    BY <1>1, WorkingFacts, WorkingHas
  <1>4. ASSUME NEW o \in Object, NEW r \in Work, todo = Cons(Step("inc", o, NULL), r)
        PROVE  todo' = Cons(Step("incStore", o, count[o]), r)
    <2>1. At = o /\ Tail(todo) = r
      BY <1>4, TodoIs, PlainSteps
    <2> QED
      BY <2>1 DEF IncRead, Do, Cons
  <1>5. CASE todo = R /\ count = c
    <2>1. AtInc(ptr, Alive, life, R, c)
      BY <1>1, <1>2, <1>5, WorkingFacts
    <2>2. PICK B, s, o, x :
                  /\ B \in Work /\ s \in Pointer /\ o \in Alive /\ Top(B, Set(s, o))
                  /\ x \in {Step("inc", o, NULL), Step("incStore", o, c[o])}
                  /\ R = Cons(x, Cons(Release(s), B)) /\ Base(ptr, Alive, life, B, s, NULL, o, NULL, c)
      BY <2>1 DEF AtInc
    <2>3. PICK C : C = Cons(Release(s), B)
      OBVIOUS
    <2>4. C \in Work /\ o \in Object
      BY <1>3, <2>2, <2>3, PlainSteps, Plain
    <2>5. x = Step("inc", o, NULL)
      <3>1. x \in Steps /\ x.do = "inc"
        <4>1. x \in Steps
          BY <1>3, <2>2, <2>4, PlainSteps DEF Counter
        <4> QED
          BY <1>2, <1>5, <2>2, <2>3, <2>4, <4>1, TodoIs
      <3> QED
        BY <2>2, <3>1, PlainSteps
    <2>6. todo' = Cons(Step("incStore", o, c[o]), C)
      BY <1>4, <1>5, <2>2, <2>3, <2>4, <2>5
    <2>7. AtInc(ptr, Alive, life, todo', c)
      BY <2>2, <2>3, <2>6 DEF AtInc
    <2> QED
      BY <1>2, <1>5, <2>7, Goes DEF Working
  <1>6. CASE Copying(ptr, Alive, R, c, todo, count)
    <2>1. PICK s \in (Global \cup Alive) \ BusyIn(R), o \in Alive :
                  ptr[s] = o /\ CopyOf(o, R, c, todo, count)
      BY <1>6 DEF Copying
    <2>2. PICK C, D : C = Cons(Resume, R) /\ D = Cons(Step("dec", o, NULL), C)
      OBVIOUS
    <2>3. o \in Object
      BY <1>3, <2>1
    <2>4. D \in Work /\ todo = Cons(Step("inc", o, NULL), D) /\ count = c
      BY <1>2, <1>3, <2>1, <2>2, <2>3, CopyHeads
    <2>5. todo' = Cons(Step("incStore", o, c[o]), D)
      BY <1>4, <2>3, <2>4
    <2>6. CopyOf(o, R, c, todo', count')
      BY <1>2, <2>2, <2>4, <2>5 DEF CopyOf
    <2>7. Copying(ptr, Alive, R, c, todo', count')
      BY <2>1, <2>6 DEF Copying
    <2> QED
      BY <1>1, <1>2, <2>7, GoesCopying
  <1> QED
    BY <1>1, <1>5, <1>6

LEMMA IncStoreKeeps == IInv /\ IncStore => IInv'
  <1> SUFFICES ASSUME IInv, IncStore
               PROVE  IInv'
    OBVIOUS
  <1>1. PICK R, c : /\ Working(ptr, Alive, life, R, c)
                    /\ \/ todo = R /\ count = c
                       \/ Copying(ptr, Alive, R, c, todo, count)
    BY IInvIs
  <1>2. /\ ptr' = ptr /\ life' = life /\ Alive' = Alive
        /\ todo # <<>> /\ todo[1].do = "incStore" /\ todo \in Work /\ Head(todo) = todo[1]
        /\ life \in [Object -> {"none", "alive", "dying"}]
    BY IInvIs, TodoHead DEF IncStore, Do, Alive
  <1>3. R \in Work /\ c \in Counter /\ Alive \subseteq Object
    BY <1>1, WorkingFacts, WorkingHas
  <1>4. ASSUME NEW o \in Object, NEW n \in Int, NEW r \in Work, todo = Cons(Step("incStore", o, n), r)
        PROVE  todo' = r /\ count' = [count EXCEPT ![o] = n + 1]
    <2>1. At = o /\ Val = n /\ Tail(todo) = r
      BY <1>4, TodoIs, PlainSteps
    <2>2. <<>> \o r = r
      BY ConcatEmptySeq DEF Work
    <2> QED
      BY <2>1, <2>2 DEF IncStore, Do
  <1>5. CASE todo = R /\ count = c
    <2>1. AtInc(ptr, Alive, life, R, c)
      BY <1>1, <1>2, <1>5, WorkingFacts
    <2>2. PICK B, s, o, x :
                  /\ B \in Work /\ s \in Pointer /\ o \in Alive /\ Top(B, Set(s, o))
                  /\ x \in {Step("inc", o, NULL), Step("incStore", o, c[o])}
                  /\ R = Cons(x, Cons(Release(s), B)) /\ Base(ptr, Alive, life, B, s, NULL, o, NULL, c)
      BY <2>1 DEF AtInc
    <2>3. PICK C, d : C = Cons(Release(s), B) /\ d = [c EXCEPT ![o] = c[o] + 1]
      OBVIOUS
    <2>4. C \in Work /\ o \in Object /\ c[o] \in Int
      BY <1>3, <2>2, <2>3, PlainSteps, Plain DEF Counter
    <2>5. x = Step("incStore", o, c[o])
      <3>1. x \in Steps
        BY <2>2, <2>4, PlainSteps
      <3>2. x.do = "incStore"
        BY <1>2, <1>5, <2>2, <2>3, <2>4, <3>1, TodoIs
      <3> QED
        BY <2>2, <3>2, PlainSteps
    <2>6. todo' = C /\ count' = d
      BY <1>4, <1>5, <2>2, <2>3, <2>4, <2>5
    <2>7. Mid(ptr, Alive, B, s, NULL, NULL, NULL, d) /\ Dying(life, B)
      BY <2>2, <2>3, CountUp DEF Base
    <2>8. AtRelease(ptr, Alive, life, C, d)
      BY <2>2, <2>3, <2>4, <2>7 DEF AtRelease, Base, Writing
    <2> QED
      BY <1>2, <2>6, <2>8, Goes DEF Working
  <1>6. CASE Copying(ptr, Alive, R, c, todo, count)
    <2>1. PICK s \in (Global \cup Alive) \ BusyIn(R), o \in Alive :
                  ptr[s] = o /\ CopyOf(o, R, c, todo, count)
      BY <1>6 DEF Copying
    <2>2. PICK C, D : C = Cons(Resume, R) /\ D = Cons(Step("dec", o, NULL), C)
      OBVIOUS
    <2>3. o \in Object /\ c[o] \in Int
      BY <1>3, <2>1 DEF Counter
    <2>4. D \in Work /\ todo = Cons(Step("incStore", o, c[o]), D) /\ count = c
      BY <1>2, <1>3, <2>1, <2>2, <2>3, CopyHeads
    <2>5. todo' = D /\ count' = [c EXCEPT ![o] = c[o] + 1]
      BY <1>4, <2>3, <2>4
    <2>6. CopyOf(o, R, c, todo', count')
      BY <2>2, <2>5 DEF CopyOf
    <2>7. Copying(ptr, Alive, R, c, todo', count')
      BY <2>1, <2>6 DEF Copying
    <2> QED
      BY <1>1, <1>2, <2>7, GoesCopying
  <1> QED
    BY <1>1, <1>5, <1>6

LEMMA DecReadKeeps == IInv /\ DecRead => IInv'
  <1> SUFFICES ASSUME IInv, DecRead
               PROVE  IInv'
    OBVIOUS
  <1>1. PICK R, c : /\ Working(ptr, Alive, life, R, c)
                    /\ \/ todo = R /\ count = c
                       \/ Copying(ptr, Alive, R, c, todo, count)
    BY IInvIs
  <1>2. /\ ptr' = ptr /\ life' = life /\ count' = count /\ Alive' = Alive
        /\ todo # <<>> /\ todo[1].do = "dec" /\ todo \in Work /\ Head(todo) = todo[1]
        /\ life \in [Object -> {"none", "alive", "dying"}]
    BY IInvIs, TodoHead DEF DecRead, Do, Alive
  <1>3. R \in Work /\ c \in Counter /\ Alive \subseteq Object
    BY <1>1, WorkingFacts, WorkingHas
  <1>4. ASSUME NEW o \in Object, NEW r \in Work, todo = Cons(Step("dec", o, NULL), r)
        PROVE  todo' = Cons(Step("decStore", o, count[o]), r)
    <2>1. At = o /\ Tail(todo) = r
      BY <1>4, TodoIs, PlainSteps
    <2> QED
      BY <2>1 DEF DecRead, Do, Cons
  <1>5. CASE todo = R /\ count = c
    <2>1. AtDec(ptr, Alive, life, R, c)
      BY <1>1, <1>2, <1>5, WorkingFacts
    <2>2. PICK B, p, x :
                  /\ B \in Work /\ p \in Object /\ Anchor(ptr, B, p)
                  /\ p \notin Alive => \E s \in Global : ptr[s] = p /\ Top(B, Set(s, NULL))
                  /\ x \in {Step("dec", p, NULL), Step("decStore", p, c[p])}
                  /\ R = Cons(x, B) /\ Base(ptr, Alive, life, B, NULL, p, NULL, NULL, c)
      BY <2>1 DEF AtDec
    <2>3. x = Step("dec", p, NULL)
      <3>1. x \in Steps
        BY <1>3, <2>2, PlainSteps DEF Counter
      <3>2. x.do = "dec"
        BY <1>2, <1>5, <2>2, <3>1, TodoIs
      <3> QED
        BY <2>2, <3>2, PlainSteps
    <2>4. todo' = Cons(Step("decStore", p, c[p]), B)
      BY <1>4, <1>5, <2>2, <2>3
    <2>5. AtDec(ptr, Alive, life, todo', c)
      BY <2>2, <2>4 DEF AtDec
    <2> QED
      BY <1>2, <1>5, <2>5, Goes DEF Working
  <1>6. CASE Copying(ptr, Alive, R, c, todo, count)
    <2>1. PICK s \in (Global \cup Alive) \ BusyIn(R), o \in Alive :
                  ptr[s] = o /\ CopyOf(o, R, c, todo, count)
      BY <1>6 DEF Copying
    <2>2. PICK C, D : C = Cons(Resume, R) /\ D = Cons(Step("dec", o, NULL), C)
      OBVIOUS
    <2>3. o \in Object /\ c[o] \in Int
      BY <1>3, <2>1 DEF Counter
    <2>4. C \in Work /\ todo = D /\ count = [c EXCEPT ![o] = c[o] + 1]
      BY <1>2, <1>3, <2>1, <2>2, <2>3, CopyHeads
    <2>5. count[o] = c[o] + 1
      BY <1>3, <2>3, <2>4 DEF Counter
    <2>6. todo' = Cons(Step("decStore", o, c[o] + 1), C)
      BY <1>4, <2>2, <2>3, <2>4, <2>5
    <2>7. CopyOf(o, R, c, todo', count')
      BY <1>2, <2>2, <2>4, <2>6 DEF CopyOf
    <2>8. Copying(ptr, Alive, R, c, todo', count')
      BY <2>1, <2>7 DEF Copying
    <2> QED
      BY <1>1, <1>2, <2>8, GoesCopying
  <1> QED
    BY <1>1, <1>5, <1>6

\* An object that a pointer at rest leads to has been counted.
LEMMA CountedHolds ==
    ASSUME NEW P, NEW A, NEW L, NEW R, NEW c, Working(P, A, L, R, c),
           NEW s \in (Global \cup A) \ BusyIn(R), P[s] \in A
    PROVE  c[P[s]] \in Int /\ c[P[s]] >= 1
  <1>1. PICK o : o = P[s]
    OBVIOUS
  <1>2. ASSUME NEW B, NEW rel, NEW dc, NEW ic, NEW del, Mid(P, A, B, rel, dc, ic, del, c),
               s \notin BusyIn(B), ic = NULL \/ Waiting(B, ic) # {}
        PROVE  c[o] \in Int /\ c[o] >= 1
    <2>1. A \subseteq Object /\ o \in A /\ s \in Pointer /\ o # NULL
      BY <1>1, <1>2, NullIs DEF Mid
    <2>2. s \in Holding(P, A, B, rel, o)
      BY <1>1, <1>2, <2>1 DEF Holding, Holders
    <2>3. PICK h, w : h = Cardinality(Holding(P, A, B, rel, o)) /\ w = Cardinality(Waiting(B, o))
      OBVIOUS
    <2>4. /\ h \in Nat /\ w \in Nat /\ h # 0
          /\ w = 0 <=> Waiting(B, o) = {}
      BY <2>2, <2>3, HoldingIs
    <2>5. c[o] = h + w + One(dc, o) - One(ic, o)
      BY <1>2, <2>1, <2>3 DEF Mid, Counted
    <2>6. One(dc, o) \in {0, 1} /\ One(ic, o) \in {0, 1} /\ (One(ic, o) = 1 => ic = o)
      BY OneIs
    <2>7. One(ic, o) = 1 => w # 0
      BY <1>2, <2>1, <2>4, <2>6
    <2> QED
      BY <2>4, <2>5, <2>6, <2>7
  <1>3. ASSUME NEW B \in Work, NEW x \in Steps, x.do \notin {"set", "free"}, R = Cons(x, B)
        PROVE  s \notin BusyIn(B)
    BY <1>3, Plain
  <1>4. CASE AtRest(P, A, L, R, c)
    BY <1>1, <1>2, <1>4 DEF AtRest, Base
  <1>5. CASE AtInc(P, A, L, R, c)
    <2>1. PICK B, t, q, x :
                  /\ B \in Work /\ t \in Pointer /\ q \in A /\ Top(B, Set(t, q))
                  /\ x \in {Step("inc", q, NULL), Step("incStore", q, c[q])}
                  /\ R = Cons(x, Cons(Release(t), B)) /\ Base(P, A, L, B, t, NULL, q, NULL, c)
      BY <1>5 DEF AtInc
    <2>2. PICK C : C = Cons(Release(t), B)
      OBVIOUS
    <2>3. C \in Work /\ BusyIn(C) = BusyIn(B)
      BY <2>1, <2>2, PlainSteps, Plain
    <2>4. x \in Steps /\ x.do \in {"inc", "incStore"}
      <3>1. q \in Object /\ c[q] \in Int
        BY <2>1 DEF Base, Mid, Counter
      <3> QED
        BY <2>1, <3>1, PlainSteps
    <2>5. s \notin BusyIn(B)
      BY <1>3, <2>1, <2>2, <2>3, <2>4
    <2>6. t \in Waiting(B, q)
      BY <2>1, TopHas DEF Waiting
    <2> QED
      BY <1>1, <1>2, <2>1, <2>5, <2>6 DEF Base
  <1>6. CASE AtRelease(P, A, L, R, c)
    <2>1. PICK B \in Work, t \in Pointer : R = Cons(Release(t), B) /\ Base(P, A, L, B, t, NULL, NULL, NULL, c)
      BY <1>6 DEF AtRelease
    <2>2. s \notin BusyIn(B)
      BY <1>3, <2>1, PlainSteps
    <2> QED
      BY <1>1, <1>2, <2>1, <2>2 DEF Base
  <1>7. CASE AtDec(P, A, L, R, c)
    <2>1. PICK B, p, x :
                  /\ B \in Work /\ p \in Object
                  /\ x \in {Step("dec", p, NULL), Step("decStore", p, c[p])}
                  /\ R = Cons(x, B) /\ Base(P, A, L, B, NULL, p, NULL, NULL, c)
      BY <1>7 DEF AtDec
    <2>2. x \in Steps /\ x.do \in {"dec", "decStore"}
      <3>1. c[p] \in Int
        BY <2>1 DEF Base, Mid, Counter
      <3> QED
        BY <2>1, <3>1, PlainSteps
    <2>3. s \notin BusyIn(B)
      BY <1>3, <2>1, <2>2
    <2> QED
      BY <1>1, <1>2, <2>1, <2>3 DEF Base
  <1>8. CASE AtDelete(P, A, L, R, c)
    <2>1. PICK B \in Work, p \in Object :
                  R = Cons(Step("delete", p, NULL), B) /\ Base(P, A, L, B, NULL, NULL, NULL, p, c)
      BY <1>8 DEF AtDelete
    <2>2. s \notin BusyIn(B)
      BY <1>3, <2>1, PlainSteps
    <2> QED
      BY <1>1, <1>2, <2>1, <2>2 DEF Base
  <1>9. CASE AtDestruct(P, A, L, R, c)
    <2>1. PICK B \in Work, p \in Object :
                  R = Cons(Step("destruct", p, NULL), B) /\ Base(P, A, L, B, NULL, NULL, NULL, NULL, c)
      BY <1>9 DEF AtDestruct
    <2>2. s \notin BusyIn(B)
      BY <1>3, <2>1, PlainSteps
    <2> QED
      BY <1>1, <1>2, <2>1, <2>2 DEF Base
  <1> QED
    BY <1>4, <1>5, <1>6, <1>7, <1>8, <1>9 DEF Working

LEMMA DecStoreKeeps == IInv /\ DecStore => IInv'
  <1> SUFFICES ASSUME IInv, DecStore
               PROVE  IInv'
    OBVIOUS
  <1>1. PICK R, c : /\ Working(ptr, Alive, life, R, c) /\ BusyIn(todo) = BusyIn(R)
                    /\ \/ todo = R /\ count = c
                       \/ Copying(ptr, Alive, R, c, todo, count)
    BY IInvIs
  <1>2. /\ ptr' = ptr /\ life' = life /\ Alive' = Alive
        /\ todo # <<>> /\ todo[1].do = "decStore" /\ todo \in Work /\ Head(todo) = todo[1]
        /\ life \in [Object -> {"none", "alive", "dying"}]
    BY IInvIs, TodoHead DEF DecStore, Do, Alive
  <1>3. R \in Work /\ c \in Counter /\ Alive \subseteq Object
    BY <1>1, WorkingFacts, WorkingHas
  <1>4. ASSUME NEW o \in Object, NEW n \in Int, NEW r \in Work, todo = Cons(Step("decStore", o, n), r)
        PROVE  /\ todo' = IF n = 1 THEN Cons(Step("delete", o, NULL), r) ELSE r
               /\ count' = [count EXCEPT ![o] = n - 1]
    <2>1. At = o /\ Val = n /\ Tail(todo) = r
      BY <1>4, TodoIs, PlainSteps
    <2>2. <<>> \o r = r
      BY ConcatEmptySeq DEF Work
    <2>3. todo' = (IF n = 1 THEN <<Step("delete", o, NULL)>> ELSE <<>>) \o r
      BY <2>1 DEF DecStore, Do
    <2>4. count' = [count EXCEPT ![o] = n - 1]
      BY <2>1 DEF DecStore
    <2> QED
      BY <2>2, <2>3, <2>4 DEF Cons
  <1>5. CASE todo = R /\ count = c
    <2>1. AtDec(ptr, Alive, life, R, c)
      BY <1>1, <1>2, <1>5, WorkingFacts
    <2>2. PICK B, p, x :
                  /\ B \in Work /\ p \in Object /\ Anchor(ptr, B, p)
                  /\ p \notin Alive => \E s \in Global : ptr[s] = p /\ Top(B, Set(s, NULL))
                  /\ x \in {Step("dec", p, NULL), Step("decStore", p, c[p])}
                  /\ R = Cons(x, B) /\ Base(ptr, Alive, life, B, NULL, p, NULL, NULL, c)
      BY <2>1 DEF AtDec
    <2>3. c[p] \in Int
      BY <1>3, <2>2 DEF Counter
    <2>4. x = Step("decStore", p, c[p])
      <3>1. x \in Steps
        BY <2>2, <2>3, PlainSteps
      <3>2. x.do = "decStore"
        BY <1>2, <1>5, <2>2, <3>1, TodoIs
      <3> QED
        BY <2>2, <3>2, PlainSteps
    <2>5. PICK d : d = [c EXCEPT ![p] = c[p] - 1]
      OBVIOUS
    <2>6. count' = d /\ todo' = IF c[p] = 1 THEN Cons(Step("delete", p, NULL), B) ELSE B
      BY <1>4, <1>5, <2>2, <2>3, <2>4, <2>5
    <2>7. Mid(ptr, Alive, B, NULL, NULL, NULL, IF c[p] = 1 THEN p ELSE NULL, d) /\ Dying(life, B)
      BY <2>2, <2>5, CountDown DEF Base
    <2>8. Working(ptr, Alive, life, todo', d)
      <3>1. CASE c[p] = 1
        <4>1. AtDelete(ptr, Alive, life, todo', d)
          BY <2>2, <2>6, <2>7, <3>1 DEF AtDelete, Base
        <4> QED
          BY <4>1 DEF Working
      <3>2. CASE c[p] # 1
        <4>1. AtRest(ptr, Alive, life, todo', d)
          BY <2>6, <2>7, <3>2 DEF AtRest, Base
        <4> QED
          BY <4>1 DEF Working
      <3> QED
        BY <3>1, <3>2
    <2> QED
      BY <1>2, <2>6, <2>8, Goes
  <1>6. CASE Copying(ptr, Alive, R, c, todo, count)
    <2>1. PICK s \in (Global \cup Alive) \ BusyIn(R), o \in Alive :
                  ptr[s] = o /\ CopyOf(o, R, c, todo, count)
      BY <1>6 DEF Copying
    <2>2. PICK C, D : C = Cons(Resume, R) /\ D = Cons(Step("dec", o, NULL), C)
      OBVIOUS
    <2>3. o \in Object /\ c[o] \in Int /\ c[o] + 1 \in Int /\ c[o] >= 1
      BY <1>1, <1>3, <2>1, CountedHolds
    <2>4. C \in Work /\ todo = Cons(Step("decStore", o, c[o] + 1), C) /\ count = [c EXCEPT ![o] = c[o] + 1]
      BY <1>2, <1>3, <2>1, <2>2, <2>3, CopyHeads
    <2>5. c[o] + 1 # 1 /\ (c[o] + 1) - 1 = c[o]
      BY <2>3
    <2>6. todo' = C /\ count' = [count EXCEPT ![o] = c[o]]
      BY <1>4, <2>3, <2>4, <2>5
    <2>7. count' = c
      BY <1>3, <2>3, <2>4, <2>6 DEF Counter
    <2>8. CopyOf(o, R, c, todo', count')
      BY <2>2, <2>6, <2>7 DEF CopyOf
    <2>9. Copying(ptr, Alive, R, c, todo', count')
      BY <2>1, <2>8 DEF Copying
    <2> QED
      BY <1>1, <1>2, <2>9, GoesCopying
  <1> QED
    BY <1>1, <1>5, <1>6

LEMMA ReturnFromNotifyKeeps == IInv /\ ReturnFromNotify => IInv'
  <1> SUFFICES ASSUME IInv, ReturnFromNotify
               PROVE  IInv'
    OBVIOUS
  <1>1. PICK R, c : /\ Working(ptr, Alive, life, R, c)
                    /\ \/ todo = R /\ count = c
                       \/ Copying(ptr, Alive, R, c, todo, count)
    BY IInvIs
  <1>2. /\ ptr' = ptr /\ life' = life /\ count' = count /\ Alive' = Alive
        /\ todo # <<>> /\ todo[1].do = "resume" /\ todo \in Work /\ Head(todo) = todo[1]
        /\ life \in [Object -> {"none", "alive", "dying"}]
    BY IInvIs, TodoHead DEF ReturnFromNotify, Do, Alive
  <1>3. R \in Work /\ c \in Counter /\ Alive \subseteq Object
    BY <1>1, WorkingFacts, WorkingHas
  <1>4. todo # R
    BY <1>1, <1>2, WorkingFacts
  <1>5. PICK s \in (Global \cup Alive) \ BusyIn(R), o \in Alive :
                ptr[s] = o /\ CopyOf(o, R, c, todo, count)
    BY <1>1, <1>4 DEF Copying
  <1>6. PICK C, D : C = Cons(Resume, R) /\ D = Cons(Step("dec", o, NULL), C)
    OBVIOUS
  <1>7. todo = C /\ count = c
    BY <1>2, <1>3, <1>5, <1>6, CopyHeads
  <1>8. Tail(todo) = R
    BY <1>3, <1>6, <1>7, TodoIs, PlainSteps
  <1>9. <<>> \o R = R
    BY <1>3, ConcatEmptySeq DEF Work
  <1>10. todo' = R
    BY <1>8, <1>9 DEF ReturnFromNotify, Do
  <1> QED
    BY <1>1, <1>2, <1>7, <1>10, Goes

\* The other steps are those of operations.
LEMMA WorkingHere ==
    ASSUME IInv, todo # <<>>, todo[1].do \in {"release", "set", "delete", "destruct", "free"}
    PROVE  /\ Working(ptr, Alive, life, todo, count)
           /\ Head(todo) = todo[1] /\ todo \in Work
           /\ life \in [Object -> {"none", "alive", "dying"}]
  <1>1. /\ todo \in Work /\ life \in [Object -> {"none", "alive", "dying"}]
        /\ Working(ptr, Alive, life, todo, count)
    BY IInvIs
  <1> QED
    BY <1>1, TodoHead

LEMMA ReleaseOldKeeps == IInv /\ ReleaseOld => IInv'
  <1> SUFFICES ASSUME IInv, ReleaseOld
               PROVE  IInv'
    OBVIOUS
  <1>1. /\ ptr' = ptr /\ life' = life /\ count' = count /\ Alive' = Alive
        /\ todo # <<>> /\ todo[1].do = "release"
    BY DEF ReleaseOld, Do, Alive
  <1>2. /\ Working(ptr, Alive, life, todo, count)
        /\ Head(todo) = todo[1] /\ todo \in Work
        /\ life \in [Object -> {"none", "alive", "dying"}]
    BY <1>1, WorkingHere
  <1>3. ptr \in Leading /\ Alive \subseteq Object
    BY <1>2, WorkingHas
  <1>4. ASSUME NEW s \in Pointer, NEW r \in Work, todo = Cons(Release(s), r)
        PROVE  /\ ptr[s] \in Object \cup {NULL}
               /\ todo' = IF ptr[s] = NULL THEN r ELSE Cons(Step("dec", ptr[s], NULL), r)
    <2>1. At = s /\ Tail(todo) = r
      BY <1>4, TodoIs, PlainSteps
    <2>2. todo' = Dec(ptr[s]) \o r
      BY <2>1 DEF ReleaseOld, Do
    <2>3. <<>> \o r = r
      BY ConcatEmptySeq DEF Work
    <2>4. ptr[s] \in Object \cup {NULL}
      BY <1>3 DEF Leading
    <2> QED
      BY <2>2, <2>3, <2>4 DEF Dec, Cons
  <1>5. AtRelease(ptr, Alive, life, todo, count) \/ AtRest(ptr, Alive, life, todo, count)
    BY <1>1, <1>2, WorkingFacts
  <1>6. ASSUME NEW B \in Work, NEW s \in Pointer, todo = Cons(Release(s), B),
               Base(ptr, Alive, life, B, NULL, ptr[s], NULL, NULL, count),
               Anchor(ptr, B, ptr[s]),
               ptr[s] \notin Alive \cup {NULL} => \E g \in Global : ptr[g] = ptr[s] /\ Top(B, Set(g, NULL))
        PROVE  Working(ptr, Alive, life, todo', count)
    <2>1. /\ ptr[s] \in Object \cup {NULL}
          /\ todo' = IF ptr[s] = NULL THEN B ELSE Cons(Step("dec", ptr[s], NULL), B)
      BY <1>4, <1>6
    <2>2. CASE ptr[s] = NULL
      <3>1. AtRest(ptr, Alive, life, todo', count)
        BY <1>6, <2>1, <2>2 DEF AtRest
      <3> QED
        BY <3>1 DEF Working
    <2>3. CASE ptr[s] # NULL
      <3>1. AtDec(ptr, Alive, life, todo', count)
        BY <1>6, <2>1, <2>3 DEF AtDec
      <3> QED
        BY <3>1 DEF Working
    <2> QED
      BY <2>2, <2>3
  <1>7. CASE AtRelease(ptr, Alive, life, todo, count)
    <2>1. PICK B \in Work, s \in Pointer :
                  /\ Writing(B, s) /\ todo = Cons(Release(s), B)
                  /\ Base(ptr, Alive, life, B, s, NULL, NULL, NULL, count)
      BY <1>7 DEF AtRelease
    <2>2. Mid(ptr, Alive, B, s, NULL, NULL, NULL, count) /\ Dying(life, B) /\ Pattern(B)
      BY <2>1 DEF Base, Mid
    <2>3. s \in BusyIn(B)
      <3>1. PICK x \in Object \cup {NULL} : Has(B, Set(s, x))
        BY <2>1, TopHas DEF Writing
      <3> QED
        BY <2>2, <3>1, PatternHas
    <2>4. Base(ptr, Alive, life, B, NULL, ptr[s], NULL, NULL, count)
      BY <2>2, <2>3, LetGo DEF Base
    <2>5. Anchor(ptr, B, ptr[s])
      BY <2>1 DEF Anchor
    <2>6. ptr[s] \notin Alive \cup {NULL} => s \in Global /\ Top(B, Set(s, NULL))
      <3>1. s \in Holders(Alive, B, s)
        BY DEF Holders
      <3> QED
        BY <2>2, <3>1 DEF Mid, Held
    <2>7. Working(ptr, Alive, life, todo', count)
      BY <1>6, <2>1, <2>4, <2>5, <2>6
    <2> QED
      BY <1>1, <1>2, <2>7, Goes
  <1>8. CASE AtRest(ptr, Alive, life, todo, count)
    <2>1. Mid(ptr, Alive, todo, NULL, NULL, NULL, NULL, count) /\ Dying(life, todo) /\ Pattern(todo)
      BY <1>8 DEF AtRest, Base, Mid
    <2>2. PICK T : T = Tail(todo)
      OBVIOUS
    <2>3. /\ T \in Work /\ todo = Cons(Head(todo), T) /\ Fits(Head(todo), T)
          /\ \A y : Has(todo, y) <=> y = Head(todo) \/ Has(T, y)
      BY <1>1, <1>2, <2>1, <2>2, HeadIs
    <2>4. PICK p \in Object : Head(todo) = Release(p)
      BY <1>1, <1>2, <2>3, StepsAre DEF Fits
    <2>5. Top(todo, Release(p)) /\ p \in Pointer
      BY <1>1, <2>4, NullIs DEF Top
    <2>6. /\ Mid(ptr, Alive, T, NULL, ptr[p], NULL, NULL, count)
          /\ Top(T, Free(p)) /\ ptr[p] \in Alive \cup {NULL}
      BY <2>1, <2>2, <2>5, LetGoMember
    <2>7. Dying(life, T)
      BY <2>1, <2>3, <2>4, StepsAre DEF Dying
    <2>8. Anchor(ptr, T, ptr[p])
      BY <2>5, <2>6 DEF Anchor
    <2>9. Working(ptr, Alive, life, todo', count)
      BY <1>6, <2>3, <2>4, <2>5, <2>6, <2>7, <2>8 DEF Base
    <2> QED
      BY <1>1, <1>2, <2>9, Goes
  <1> QED
    BY <1>5, <1>7, <1>8

LEMMA SetPointerKeeps == IInv /\ SetPointer => IInv'
  <1> SUFFICES ASSUME IInv, SetPointer
               PROVE  IInv'
    OBVIOUS
  <1>1. /\ life' = life /\ count' = count /\ Alive' = Alive
        /\ todo # <<>> /\ todo[1].do = "set"
    BY DEF SetPointer, Do, Alive
  <1>2. /\ Working(ptr, Alive, life, todo, count)
        /\ Head(todo) = todo[1] /\ todo \in Work
        /\ life \in [Object -> {"none", "alive", "dying"}]
    BY <1>1, WorkingHere
  <1>3. /\ Mid(ptr, Alive, todo, NULL, NULL, NULL, NULL, count) /\ Dying(life, todo) /\ Pattern(todo)
    BY <1>1, <1>2, WorkingFacts DEF AtRest, Base, Mid
  <1>4. PICK T : T = Tail(todo)
    OBVIOUS
  <1>5. /\ T \in Work /\ todo = Cons(Head(todo), T) /\ Fits(Head(todo), T)
        /\ \A y : Has(todo, y) <=> y = Head(todo) \/ Has(T, y)
    BY <1>1, <1>2, <1>3, <1>4, HeadIs
  <1>6. PICK s \in Pointer, x \in Object \cup {NULL} : Head(todo) = Set(s, x)
    BY <1>1, <1>2, <1>5, StepsAre DEF Fits
  <1>7. todo' = T /\ ptr' = [ptr EXCEPT ![s] = x]
    <2>1. Set(s, x) \in Steps /\ Set(s, x).at = s /\ Set(s, x).val = x
      BY StepsAre
    <2>2. At = s /\ Val = x
      BY <1>5, <1>6, <2>1, TodoIs
    <2>3. <<>> \o T = T
      BY <1>5, ConcatEmptySeq DEF Work
    <2> QED
      BY <1>4, <2>2, <2>3 DEF SetPointer, Do
  <1>8. Mid(ptr', Alive, T, NULL, NULL, NULL, NULL, count)
    <2>1. Top(todo, Set(s, x))
      BY <1>1, <1>6 DEF Top
    <2> QED
      BY <1>3, <1>4, <1>7, <2>1, SetIt
  <1>9. Dying(life, T)
    BY <1>3, <1>5, <1>6, StepsAre DEF Dying
  <1>10. Working(ptr', Alive', life', T, count)
    BY <1>1, <1>8, <1>9 DEF Working, AtRest, Base
  <1> QED
    BY <1>1, <1>2, <1>7, <1>10, Goes

LEMMA FreeObjectKeeps == IInv /\ FreeObject => IInv'
  <1> SUFFICES ASSUME IInv, FreeObject
               PROVE  IInv'
    OBVIOUS
  <1>1. ptr' = ptr /\ count' = count /\ todo # <<>> /\ todo[1].do = "free"
    BY DEF FreeObject, Do
  <1>2. /\ Working(ptr, Alive, life, todo, count)
        /\ Head(todo) = todo[1] /\ todo \in Work
        /\ life \in [Object -> {"none", "alive", "dying"}]
    BY <1>1, WorkingHere
  <1>3. /\ Mid(ptr, Alive, todo, NULL, NULL, NULL, NULL, count) /\ Dying(life, todo) /\ Pattern(todo)
    BY <1>1, <1>2, WorkingFacts DEF AtRest, Base, Mid
  <1>4. PICK T : T = Tail(todo)
    OBVIOUS
  <1>5. /\ T \in Work /\ todo = Cons(Head(todo), T) /\ Fits(Head(todo), T)
        /\ \A y : Has(todo, y) <=> y = Head(todo) \/ Has(T, y)
    BY <1>1, <1>2, <1>3, <1>4, HeadIs
  <1>6. PICK p \in Object : Head(todo) = Free(p)
    BY <1>1, <1>2, <1>5, StepsAre DEF Fits
  <1>7. todo' = T /\ life' = [life EXCEPT ![p] = "none"]
    <2>1. Free(p) \in Steps /\ Free(p).at = p
      BY StepsAre
    <2>2. At = p
      BY <1>5, <1>6, <2>1, TodoIs
    <2>3. <<>> \o T = T
      BY <1>5, ConcatEmptySeq DEF Work
    <2> QED
      BY <1>4, <2>2, <2>3 DEF FreeObject, Do
  <1>8. Mid(ptr, Alive, T, NULL, NULL, NULL, NULL, count) /\ ~Has(T, Free(p))
    <2>1. Top(todo, Free(p))
      BY <1>1, <1>6 DEF Top
    <2> QED
      BY <1>3, <1>4, <2>1, FreeIt
  <1>9. life[p] = "dying" /\ life' \in [Object -> {"none", "alive", "dying"}]
    BY <1>2, <1>3, <1>5, <1>6, <1>7 DEF Dying
  <1>10. Alive' = Alive
    BY <1>2, <1>7, <1>9 DEF Alive
  <1>11. Dying(life', T)
    BY <1>2, <1>3, <1>5, <1>6, <1>7, <1>8, StepsAre DEF Dying
  <1>12. Working(ptr', Alive', life', T, count)
    BY <1>1, <1>8, <1>10, <1>11 DEF Working, AtRest, Base
  <1> QED
    BY <1>1, <1>7, <1>9, <1>12, Goes

LEMMA DeleteKeeps == IInv /\ Delete => IInv'
  <1> SUFFICES ASSUME IInv, Delete
               PROVE  IInv'
    OBVIOUS
  <1>1. ptr' = ptr /\ count' = count /\ todo # <<>> /\ todo[1].do = "delete"
    BY DEF Delete, Do
  <1>2. /\ Working(ptr, Alive, life, todo, count)
        /\ Head(todo) = todo[1] /\ todo \in Work
        /\ life \in [Object -> {"none", "alive", "dying"}]
    BY <1>1, WorkingHere
  <1>3. AtDelete(ptr, Alive, life, todo, count)
    BY <1>1, <1>2, WorkingFacts
  <1>4. PICK B \in Work, p \in Object :
                /\ Anchor(ptr, B, p) /\ todo = Cons(Step("delete", p, NULL), B)
                /\ Mid(ptr, Alive, B, NULL, NULL, NULL, p, count) /\ Dying(life, B)
    BY <1>3 DEF AtDelete, Base
  <1>5. PICK C, E, x : C = Cons(Free(p), B) /\ E = Cons(Release(p), C) /\ x = Step("destruct", p, NULL)
    OBVIOUS
  <1>6. Free(p) \in Steps /\ Release(p) \in Steps /\ x \in Steps /\ p \in Pointer
    BY <1>5, StepsAre, PlainSteps, NullIs
  <1>7. C \in Work /\ E \in Work /\ Top(E, Release(p)) /\ \A q : Has(E, Free(q)) <=> q = p \/ Has(B, Free(q))
    <2>1. C \in Work
      BY <1>5, <1>6, ConsIs DEF Work
    <2>2. E \in Work /\ \A q : Has(E, Free(q)) <=> Has(C, Free(q))
      BY <1>5, <1>6, <2>1, Plain, StepsAre
    <2>3. \A q : Has(C, Free(q)) <=> Free(q) = Free(p) \/ Has(B, Free(q))
      BY <1>5, <1>6, HasCons
    <2>4. Top(E, Release(p))
      BY <1>5, <1>6, <2>1, TopCons
    <2> QED
      BY <2>1, <2>2, <2>3, <2>4, StepsAre
  <1>8. life' = [life EXCEPT ![p] = "dying"] /\ todo' = Cons(x, E)
    <2>1. Step("delete", p, NULL) \in Steps /\ Step("delete", p, NULL).at = p
      BY PlainSteps
    <2>2. At = p /\ Tail(todo) = B
      BY <1>4, <2>1, TodoIs
    <2>3. todo' = <<x, Release(p), Step("free", p, NULL)>> \o B
      BY <1>5, <2>2 DEF Delete, Do
    <2>4. todo' = <<x, Release(p), Free(p)>> \o B
      BY <2>3 DEF Free
    <2>5. <<x, Release(p), Free(p)>> \o B = Cons(x, Cons(Release(p), Cons(Free(p), B)))
      BY <1>6, MoreThree
    <2>6. life' = [life EXCEPT ![p] = "dying"]
      BY <2>2 DEF Delete
    <2> QED
      BY <1>5, <2>4, <2>5, <2>6
  <1>9. life' \in [Object -> {"none", "alive", "dying"}] /\ Alive' = Alive \ {p}
    BY <1>2, <1>8 DEF Alive
  <1>10. \A t \in Pointer, y \in Object \cup {NULL} : Top(B, Set(t, y)) => ptr[t] = p
    <2>1. PICK s \in Pointer : ptr[s] = p /\ (Top(B, Free(s)) \/ Writing(B, s))
      BY <1>4 DEF Anchor
    <2> QED
      BY <2>1, StepsAre DEF Writing, Top
  <1>11. Mid(ptr, Alive \ {p}, E, NULL, NULL, NULL, NULL, count)
    BY <1>4, <1>5, <1>10, Destroy
  <1>12. Dying(life', E)
    <2> SUFFICES ASSUME NEW q \in Object
                 PROVE  life'[q] = "dying" <=> q = p \/ Has(B, Free(q))
      BY <1>7 DEF Dying
    <2> QED
      BY <1>2, <1>4, <1>8 DEF Dying
  <1>13. AtDestruct(ptr', Alive', life', todo', count')
    BY <1>1, <1>5, <1>7, <1>8, <1>9, <1>11, <1>12 DEF AtDestruct, Base
  <1> QED
    BY <1>9, <1>13, Goes DEF Working

\* An assignment or a clear that begins.
LEMMA BeginStage ==
    ASSUME NEW P, NEW A, NEW L, NEW B, NEW s, NEW x, NEW c,
           Mid(P, A, B, NULL, NULL, NULL, NULL, c), Dying(L, B),
           x \in A \cup {NULL}, s \in Global \cup A,
           \A t \in BusyIn(B) : P[t] \notin A,
           s \in BusyIn(B) => x = NULL,
           s \in Object => B = <<>> /\ \E g \in Global : s \in ChainOf(Links(P, B), g),
           s \in Global => \A m \in BusyIn(B) \cap Object : m \notin ChainOf(Links(P, B), s),
           \A g : ~Top(B, Set(g, NULL))
    PROVE  Assign(s, x) \in Work /\ Working(P, A, L, Assign(s, x) \o B, c)
  <1>1. PICK E, C : E = Cons(Set(s, x), B) /\ C = Cons(Release(s), E)
    OBVIOUS
  <1>3. Mid(P, A, E, s, NULL, x, NULL, c)
    BY <1>1, Begin
  <1>4. s \in Pointer /\ x \in Object \cup {NULL} /\ B \in Work
    BY NullIs, PatternHas DEF Mid
  <1>5. Set(s, x) \in Steps /\ Release(s) \in Steps
    BY <1>4, StepsAre
  <1>6. E \in Work /\ C \in Work /\ Top(E, Set(s, x)) /\ Writing(E, s)
    <2>1. E \in Work /\ Top(E, Set(s, x))
      BY <1>1, <1>4, <1>5, ConsIs, TopCons DEF Work
    <2> QED
      BY <1>1, <1>4, <1>5, <2>1, ConsIs DEF Work, Writing
  <1>7. Dying(L, E)
    <2>1. \A p : Has(E, Free(p)) <=> Free(p) = Set(s, x) \/ Has(B, Free(p))
      BY <1>1, <1>4, <1>5, HasCons
    <2> QED
      BY <2>1, StepsAre DEF Dying
  <1>8. CASE x = NULL
    <2>1. Assign(s, x) = <<Release(s), Set(s, x)>>
      <3>1. <<>> \o <<Release(s), Set(s, x)>> = <<Release(s), Set(s, x)>>
        BY <1>5, TupleIs
      <3> QED
        BY <1>8, <3>1 DEF Assign, Inc
    <2>2. <<Release(s), Set(s, x)>> \o B = C
      BY <1>1, <1>4, <1>5, MoreTwo
    <2>3. Assign(s, x) \in Work
      BY <1>5, <2>1 DEF Work
    <2>4. AtRelease(P, A, L, C, c)
      BY <1>1, <1>3, <1>4, <1>6, <1>7, <1>8 DEF AtRelease, Base
    <2> QED
      BY <2>1, <2>2, <2>3, <2>4 DEF Working
  <1>9. CASE x # NULL
    <2>1. x \in A /\ x \in Object /\ Step("inc", x, NULL) \in Steps
      BY <1>4, <1>9, PlainSteps
    <2>2. Assign(s, x) = <<Step("inc", x, NULL), Release(s), Set(s, x)>>
      <3>1. <<Step("inc", x, NULL), Release(s), Set(s, x)>> = <<Step("inc", x, NULL)>> \o <<Release(s), Set(s, x)>>
        OBVIOUS
      <3> QED
        BY <1>9, <3>1 DEF Assign, Inc
    <2>3. <<Step("inc", x, NULL), Release(s), Set(s, x)>> \o B = Cons(Step("inc", x, NULL), C)
      BY <1>1, <1>4, <1>5, <2>1, MoreThree
    <2>4. Assign(s, x) \in Work
      BY <1>5, <2>1, <2>2 DEF Work
    <2>5. AtInc(P, A, L, Cons(Step("inc", x, NULL), C), c)
      BY <1>1, <1>3, <1>4, <1>6, <1>7, <2>1 DEF AtInc, Base
    <2> QED
      BY <2>2, <2>3, <2>4, <2>5 DEF Working
  <1> QED
    BY <1>8, <1>9

\* Clearing a pointer is assigning it no object.
LEMMA ClearIs ==
    ASSUME NEW s \in Pointer
    PROVE  Clear(s) = IF ptr[s] = NULL THEN <<>> ELSE Assign(s, NULL)
  <1>1. Set(s, NULL) \in Steps /\ Release(s) \in Steps
    BY StepsAre
  <1>2. <<>> \o <<Release(s), Set(s, NULL)>> = <<Release(s), Set(s, NULL)>>
    BY <1>1, TupleIs
  <1> QED
    BY <1>2 DEF Clear, Assign, Inc

LEMMA DestructorBodyKeeps == IInv /\ DestructorBody => IInv'
  <1> SUFFICES ASSUME IInv, DestructorBody
               PROVE  IInv'
    OBVIOUS
  <1>1. /\ ptr' = ptr /\ count' = count /\ life' = life /\ Alive' = Alive
        /\ todo # <<>> /\ todo[1].do = "destruct"
    BY DEF DestructorBody, Do, Alive
  <1>2. /\ Working(ptr, Alive, life, todo, count)
        /\ Head(todo) = todo[1] /\ todo \in Work
        /\ life \in [Object -> {"none", "alive", "dying"}]
    BY <1>1, WorkingHere
  <1>3. AtDestruct(ptr, Alive, life, todo, count)
    BY <1>1, <1>2, WorkingFacts
  <1>4. PICK B \in Work, p \in Object :
                /\ Top(B, Release(p)) /\ todo = Cons(Step("destruct", p, NULL), B)
                /\ Mid(ptr, Alive, B, NULL, NULL, NULL, NULL, count) /\ Dying(life, B)
    BY <1>3 DEF AtDestruct, Base
  <1>5. Tail(todo) = B /\ Busy = BusyIn(B) /\ \A s \in Pointer : Chain(s) = ChainOf(Links(ptr, B), s)
    <2>1. Tail(todo) = B /\ BusyIn(todo) = BusyIn(B)
      BY <1>4, PlainSteps, Plain
    <2> QED
      BY <2>1, BusyIs, ChainIs
  <1>6. (\A t \in BusyIn(B) : ptr[t] \notin Alive) /\ \A g : ~Top(B, Set(g, NULL))
    <2>1. B # <<>> /\ Head(B) = Release(p)
      BY <1>4 DEF Top
    <2>2. BusyIn(B) = BusyIn(Tail(B))
      BY <2>1, HeadIs, StepsAre
    <2>3. \A g : ~Top(B, Set(g, NULL))
      BY <2>1, StepsAre DEF Top
    <2> QED
      BY <1>4, <2>1, <2>2, <2>3 DEF Mid, Behind
  <1>7. ASSUME NEW s \in Global, Chain(s) \cap Busy = {},
               NEW x \in Alive \cup {NULL}, s \in BusyIn(B) => x = NULL
        PROVE  Working(ptr, Alive, life, Assign(s, x) \o B, count)
    <2>1. s \notin Object /\ s \in Pointer /\ s \in Global \cup Alive
      BY NullIs, PointerAssumption
    <2>2. \A m \in BusyIn(B) \cap Object : m \notin ChainOf(Links(ptr, B), s)
      BY <1>5, <1>7, <2>1
    <2> QED
      BY <1>4, <1>6, <1>7, <2>1, <2>2, BeginStage
  <1>8. Working(ptr, Alive, life, <<>> \o B, count)
    <2>1. <<>> \o B = B
      BY ConcatEmptySeq DEF Work
    <2> QED
      BY <1>4, <2>1 DEF Working, AtRest, Base
  <1>9. CASE Do("destruct", <<>>)
    <2>1. todo' = <<>> \o B
      BY <1>5, <1>9 DEF Do
    <2> QED
      BY <1>1, <1>2, <1>8, <2>1, Goes
  <1>10. ASSUME NEW s \in Global, Chain(s) \cap Busy = {}, Do("destruct", Clear(s))
         PROVE  IInv'
    <2>1. todo' = Clear(s) \o B /\ s \in Pointer
      BY <1>5, <1>10, NullIs DEF Do
    <2>2. Working(ptr, Alive, life, Clear(s) \o B, count)
      BY <1>7, <1>8, <1>10, <2>1, ClearIs
    <2> QED
      BY <1>1, <1>2, <2>1, <2>2, Goes
  <1>11. ASSUME NEW s \in Global, Chain(s) \cap Busy = {}, s \notin Busy,
                NEW t \in Global \ Busy, Do("destruct", Assign(s, ptr[t]))
         PROVE  IInv'
    <2>1. todo' = Assign(s, ptr[t]) \o B
      BY <1>5, <1>11 DEF Do
    <2>2. ptr[t] \in Alive \cup {NULL}
      BY <1>11, BusyIs, StableIs
    <2>3. Working(ptr, Alive, life, Assign(s, ptr[t]) \o B, count)
      BY <1>5, <1>7, <1>11, <2>2
    <2> QED
      BY <1>1, <1>2, <2>1, <2>3, Goes
  <1> QED
    BY <1>9, <1>10, <1>11 DEF DestructorBody

\* What the program starts from.
LEMMA AtRestHas ==
    ASSUME IInv, todo = <<>>
    PROVE  /\ Mid(ptr, Alive, <<>>, NULL, NULL, NULL, NULL, count) /\ Dying(life, <<>>)
           /\ life \in [Object -> {"none", "alive", "dying"}]
           /\ \A s \in Reached : /\ s \in Global \cup Alive /\ ptr[s] \in Alive \cup {NULL}
                                 /\ s \in Object => \E g \in Global : s \in ChainOf(Links(ptr, <<>>), g)
  <1>1. Working(ptr, Alive, life, <<>>, count)
    BY IInvIs
  <1>2. Mid(ptr, Alive, <<>>, NULL, NULL, NULL, NULL, count) /\ Dying(life, <<>>)
    BY <1>1, WorkingFacts DEF AtRest, Base
  <1>3. ASSUME NEW s \in Reached
        PROVE  /\ s \in Global \cup Alive /\ ptr[s] \in Alive \cup {NULL}
               /\ s \in Object => \E g \in Global : s \in ChainOf(Links(ptr, <<>>), g)
    <2>1. s \in Global \cup Alive /\ ptr[s] \in Alive \cup {NULL}
      BY StableIs
    <2>2. s \in Object => \E g \in Global : s \in Chain(g)
      BY PointerAssumption DEF Reached
    <2> QED
      BY <2>1, <2>2, StableIs, NullIs
  <1> QED
    BY <1>2, <1>3, IInvIs

\* An assignment that the program begins.
LEMMA AssignAtRest ==
    ASSUME IInv, todo = <<>>, NEW s \in Reached, NEW x \in Alive \cup {NULL}
    PROVE  Working(ptr, Alive, life, Assign(s, x), count)
  <1>1. /\ BusyIn(<<>>) = {} /\ \A g : ~Top(<<>>, Set(g, NULL))
    BY HasNone DEF Top
  <1>2. /\ Mid(ptr, Alive, <<>>, NULL, NULL, NULL, NULL, count) /\ Dying(life, <<>>)
        /\ s \in Global \cup Alive
        /\ s \in Object => \E g \in Global : s \in ChainOf(Links(ptr, <<>>), g)
    BY AtRestHas
  <1>3. Assign(s, x) \in Work /\ Working(ptr, Alive, life, Assign(s, x) \o <<>>, count)
    BY <1>1, <1>2, BeginStage
  <1>4. Assign(s, x) \o <<>> = Assign(s, x)
    BY <1>3, ConcatEmptySeq DEF Work
  <1> QED
    BY <1>3, <1>4

LEMMA ProgramAssignsKeeps == IInv /\ ProgramAssigns => IInv'
  <1> SUFFICES ASSUME IInv, ProgramAssigns
               PROVE  IInv'
    OBVIOUS
  <1>1. PICK s \in Reached, t \in Reached : todo' = Assign(s, ptr[t])
    BY DEF ProgramAssigns
  <1>2. ptr' = ptr /\ count' = count /\ life' = life /\ Alive' = Alive /\ todo = <<>>
    BY DEF ProgramAssigns, Alive
  <1>3. ptr[t] \in Alive \cup {NULL} /\ life \in [Object -> {"none", "alive", "dying"}]
    BY <1>2, AtRestHas
  <1>4. Working(ptr, Alive, life, todo', count)
    BY <1>1, <1>2, <1>3, AssignAtRest
  <1> QED
    BY <1>2, <1>3, <1>4, Goes

LEMMA ProgramClearsKeeps == IInv /\ ProgramClears => IInv'
  <1> SUFFICES ASSUME IInv, ProgramClears
               PROVE  IInv'
    OBVIOUS
  <1>1. PICK s \in Reached : ptr[s] # NULL /\ todo' = Clear(s)
    BY DEF ProgramClears
  <1>2. ptr' = ptr /\ count' = count /\ life' = life /\ Alive' = Alive /\ todo = <<>>
    BY DEF ProgramClears, Alive
  <1>3. s \in Pointer /\ life \in [Object -> {"none", "alive", "dying"}]
    BY <1>2, AtRestHas, NullIs DEF Alive
  <1>4. Working(ptr, Alive, life, todo', count)
    BY <1>1, <1>2, <1>3, AssignAtRest, ClearIs
  <1> QED
    BY <1>2, <1>3, <1>4, Goes

LEMMA ProgramCreatesKeeps ==
    ASSUME NEW o \in Object, IInv, ProgramCreates(o)
    PROVE  IInv'
  <1>1. PICK s \in Global : todo' = Assign(s, o)
    BY DEF ProgramCreates
  <1>2. /\ todo = <<>> /\ life[o] = "none"
        /\ ptr' = [ptr EXCEPT ![o] = NULL] /\ count' = [count EXCEPT ![o] = 0]
        /\ life' = [life EXCEPT ![o] = "alive"]
    BY DEF ProgramCreates
  <1>3. /\ Mid(ptr, Alive, <<>>, NULL, NULL, NULL, NULL, count) /\ Dying(life, <<>>)
        /\ life \in [Object -> {"none", "alive", "dying"}]
    BY <1>2, AtRestHas
  <1>4. /\ Alive' = Alive \cup {o} /\ o \notin Alive
        /\ life' \in [Object -> {"none", "alive", "dying"}]
    BY <1>2, <1>3 DEF Alive
  <1>5. PICK E, C, x : E = Cons(Set(s, o), <<>>) /\ C = Cons(Release(s), E) /\ x = Step("inc", o, NULL)
    OBVIOUS
  <1>6. Mid(ptr', Alive', E, s, NULL, o, NULL, count')
    BY <1>2, <1>3, <1>4, <1>5, Create
  <1>7. s \in Pointer /\ o \in Object \cup {NULL} /\ o # NULL /\ <<>> \in Work
    BY NullIs, HasNone
  <1>8. Set(s, o) \in Steps /\ Release(s) \in Steps /\ x \in Steps
    BY <1>5, <1>7, StepsAre, PlainSteps
  <1>9. E \in Work /\ Top(E, Set(s, o)) /\ Dying(life', E)
    <2>1. E \in Work /\ Top(E, Set(s, o))
      BY <1>5, <1>7, <1>8, ConsIs, TopCons DEF Work
    <2>2. \A p : ~Has(E, Free(p))
      <3>1. \A y : Has(E, y) <=> y = Set(s, o) \/ Has(<<>>, y)
        BY <1>5, <1>7, <1>8, HasCons
      <3> QED
        BY <3>1, HasNone, StepsAre
    <2>3. \A p \in Object : life'[p] # "dying"
      BY <1>2, <1>3, HasNone DEF Dying
    <2> QED
      BY <2>1, <2>2, <2>3 DEF Dying
  <1>10. todo' = Cons(x, C)
    <2>1. <<x, Release(s), Set(s, o)>> = <<x>> \o <<Release(s), Set(s, o)>>
      OBVIOUS
    <2>2. <<x, Release(s), Set(s, o)>> \o <<>> = Cons(x, C)
      <3>1. PICK y, z, r : y = Release(s) /\ z = Set(s, o) /\ r = <<>>
        OBVIOUS
      <3>2. x \in Steps /\ y \in Steps /\ z \in Steps /\ r \in Work /\ C = Cons(y, Cons(z, r))
        BY <1>5, <1>7, <1>8, <3>1
      <3>3. <<x, y, z>> \o r = Cons(x, Cons(y, Cons(z, r)))
        BY <3>2, MoreThree
      <3> QED
        BY <3>1, <3>2, <3>3
    <2>3. <<x, Release(s), Set(s, o)>> \o <<>> = <<x, Release(s), Set(s, o)>>
      <3>1. <<x, Release(s), Set(s, o)>> \in Seq(Steps)
        BY <1>8
      <3> QED
        BY <3>1, ConcatEmptySeq
    <2> QED
      BY <1>1, <1>5, <1>7, <2>1, <2>2, <2>3 DEF Assign, Inc
  <1>11. AtInc(ptr', Alive', life', Cons(x, C), count')
    BY <1>4, <1>5, <1>6, <1>7, <1>9 DEF AtInc, Base
  <1> QED
    BY <1>4, <1>10, <1>11, Goes DEF Working

LEMMA NotifyKeeps == IInv /\ Notify => IInv'
  <1> SUFFICES ASSUME IInv, Notify
               PROVE  IInv'
    OBVIOUS
  <1>1. ptr' = ptr /\ count' = count /\ life' = life
    BY DEF Notify
  <1>2. PICK s \in Reached : ptr[s] # NULL /\ todo' = Copy(s) \o <<Resume>> \o todo
    BY DEF Notify
  <1>3. /\ todo \in Work /\ ~Has(todo, Resume) /\ Working(ptr, Alive, life, todo, count)
        /\ life \in [Object -> {"none", "alive", "dying"}]
    <2>1. todo \in Work
      BY IInvIs
    <2>2. ~Has(todo, Resume)
      BY <2>1, InterruptedIs DEF Notify
    <2> QED
      BY <2>1, <2>2, IInvIs
  <1>4. s \in (Global \cup Alive) \ BusyIn(todo) /\ ptr[s] \in Alive
    BY <1>2, StableIs
  <1>5. PICK o, x, y : o = ptr[s] /\ x = Step("inc", o, NULL) /\ y = Step("dec", o, NULL)
    OBVIOUS
  <1>6. o \in Alive /\ o \in Object /\ x \in Steps /\ y \in Steps /\ Resume \in Steps
    BY <1>4, <1>5, PlainSteps DEF Alive
  <1>7. todo' = Cons(x, Cons(y, Cons(Resume, todo)))
    <2>1. Copy(s) = <<x>> \o <<y>>
      BY <1>2, <1>5 DEF Copy, Inc, Dec
    <2>2. <<x>> \o <<y>> = <<x, y>>
      BY <1>6, TupleIs
    <2>3. <<x>> \in Seq(Steps) /\ <<y>> \in Seq(Steps) /\ <<x, y>> \in Seq(Steps) /\ <<Resume>> \in Seq(Steps)
      BY <1>6
    <2>4. (<<x, y>> \o <<Resume>>) \o todo = <<x, y>> \o (<<Resume>> \o todo)
      BY <1>3, <2>3, ConcatAssociative DEF Work
    <2>5. PICK C : C = Cons(Resume, todo)
      OBVIOUS
    <2>6. C \in Work
      BY <1>3, <1>6, <2>5, ConsIs DEF Work
    <2>7. <<x, y>> \o C = Cons(x, Cons(y, C))
      BY <1>6, <2>6, MoreTwo
    <2> QED
      BY <1>2, <2>1, <2>2, <2>4, <2>5, <2>7 DEF Cons
  <1>8. CopyOf(o, todo, count, todo', count')
    BY <1>1, <1>5, <1>7 DEF CopyOf
  <1>9. Copying(ptr, Alive, todo, count, todo', count')
    BY <1>4, <1>5, <1>6, <1>8 DEF Copying
  <1> QED
    BY <1>1, <1>3, <1>9, GoesCopying

LEMMA IInvStutter == IInv /\ UNCHANGED vars => IInv'
  BY DEF vars, IInv, Alive

LEMMA IInvNext == IInv /\ [Next]_vars => IInv'
  <1> SUFFICES ASSUME IInv, [Next]_vars
               PROVE  IInv'
    OBVIOUS
  <1>1. CASE ProgramAssigns
    BY <1>1, ProgramAssignsKeeps
  <1>2. CASE ProgramClears
    BY <1>2, ProgramClearsKeeps
  <1>3. CASE Notify
    BY <1>3, NotifyKeeps
  <1>4. CASE \E o \in Object : ProgramCreates(o)
    BY <1>4, ProgramCreatesKeeps
  <1>5. CASE IncRead
    BY <1>5, IncReadKeeps
  <1>6. CASE IncStore
    BY <1>6, IncStoreKeeps
  <1>7. CASE DecRead
    BY <1>7, DecReadKeeps
  <1>8. CASE DecStore
    BY <1>8, DecStoreKeeps
  <1>9. CASE ReleaseOld
    BY <1>9, ReleaseOldKeeps
  <1>10. CASE SetPointer
    BY <1>10, SetPointerKeeps
  <1>11. CASE Delete
    BY <1>11, DeleteKeeps
  <1>12. CASE DestructorBody
    BY <1>12, DestructorBodyKeeps
  <1>13. CASE FreeObject
    BY <1>13, FreeObjectKeeps
  <1>14. CASE ReturnFromNotify
    BY <1>14, ReturnFromNotifyKeeps
  <1>15. CASE UNCHANGED vars
    BY <1>15, IInvStutter
  <1> QED
    BY <1>1, <1>2, <1>3, <1>4, <1>5, <1>6, <1>7, <1>8, <1>9, <1>10, <1>11, <1>12, <1>13, <1>14, <1>15
       DEF Next

-----------------------------------------------------------------------------
(* Theorems.                                                               *)

\* Whatever destructors and notification functions do in the middle of an
\* assignment, a clear or a creation, the references add up at every step: the
\* count of a live object is what points to it, what is about to point to it,
\* and the increment or decrement in progress.
THEOREM Invariance == Spec => []IInv
  BY IInvInit, IInvNext, PTL DEF Spec

\* The counts stay within what the number of pointers allows.
THEOREM TypeCorrect == Spec => []TypeOK
  BY Invariance, IInvTyped, PTL

\* Between operations every count is the number of strong pointers to its
\* object.
THEOREM CountsAreExact == Spec => []CountIsExact
  BY Invariance, IInvCounts, PTL

\* An object without strong pointers is gone once the operation is over.
THEOREM UnreferencedIsGone == Spec => []UnreferencedIsDeleted
  BY Invariance, IInvDeletes, PTL

\* A strong pointer that no operation is modifying leads to a live object, in
\* the middle of destructors too.
THEOREM PointersAreSafe == Spec => []StablePointsToLive
  BY Invariance, IInvStable, PTL
=============================================================================
