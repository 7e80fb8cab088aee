------------------------- MODULE MemLeakCheckProofs -------------------------
(***************************************************************************)
(* Proofs about MemLeakCheck, for any number of buffers.                   *)
(***************************************************************************)
EXTENDS MemLeakCheck, SequenceTheorems, TLAPS

(***************************************************************************)
(* The calls in progress, step by step.                                    *)
(***************************************************************************)
Steps == [do : StepNames, buf : Buffer]

\* A step in front of others.
LEMMA ConsIs ==
    ASSUME NEW S, NEW x \in S, NEW r \in Seq(S)
    PROVE  /\ Cons(x, r) \in Seq(S) /\ Cons(x, r) # <<>>
           /\ Head(Cons(x, r)) = x /\ Tail(Cons(x, r)) = r
  <1>1. PICK u : u = Cons(x, r)
    OBVIOUS
  <1>2. <<x>> \in Seq(S) /\ Len(<<x>>) = 1 /\ <<x>>[1] = x
    OBVIOUS
  <1>3. Len(r) \in Nat
    BY LenProperties
  <1>4. /\ u \in Seq(S) /\ Len(u) = 1 + Len(r)
        /\ \A i \in 1 .. 1 + Len(r) : u[i] = IF i <= 1 THEN x ELSE r[i - 1]
    BY <1>1, <1>2, ConcatProperties DEF Cons
  <1>5. u # <<>> /\ u[1] = x /\ \A i \in 1 .. Len(r) : u[i + 1] = r[i]
    <2>1. Len(u) # 0
      BY <1>3, <1>4
    <2>2. u[1] = x
      BY <1>3, <1>4
    <2>3. ASSUME NEW i \in 1 .. Len(r)
          PROVE  u[i + 1] = r[i]
      <3>1. i + 1 \in 1 .. 1 + Len(r) /\ ~(i + 1 <= 1) /\ (i + 1) - 1 = i
        BY <1>3
      <3> QED
        BY <1>4, <3>1
    <2> QED
      BY <2>1, <2>2, <2>3
  <1>6. /\ Head(u) = u[1] /\ Tail(u) \in Seq(S) /\ Len(Tail(u)) = Len(u) - 1
        /\ \A i \in 1 .. Len(Tail(u)) : Tail(u)[i] = u[i + 1]
    BY <1>4, <1>5, HeadTailProperties
  <1>7. Tail(u) = r
    <2>1. PICK t : t = Tail(u)
      OBVIOUS
    <2>2. t \in Seq(S) /\ Len(t) = Len(r) /\ \A i \in 1 .. Len(r) : t[i] = r[i]
      BY <1>3, <1>4, <1>5, <1>6, <2>1
    <2> QED
      BY <2>1, <2>2, SeqEqual
  <1> QED
    BY <1>1, <1>4, <1>5, <1>6, <1>7

\* Tuples of steps are made of Cons,
LEMMA TupleIs ==
    ASSUME NEW S, NEW a \in S, NEW b \in S, NEW c \in S
    PROVE  /\ <<a>> = Cons(a, <<>>)
           /\ <<a, b>> = Cons(a, Cons(b, <<>>))
           /\ <<a, b, c>> = Cons(a, Cons(b, Cons(c, <<>>)))
  <1>1. <<>> \in Seq(S) /\ <<c>> \in Seq(S) /\ <<b>> \in Seq(S) /\ <<b, c>> \in Seq(S)
    OBVIOUS
  <1>2. \A x \in S : <<x>> = Cons(x, <<>>)
    <2> SUFFICES ASSUME NEW x \in S
                 PROVE  <<x>> \o <<>> = <<x>>
      BY DEF Cons
    <2>1. <<x>> \in Seq(S)
      OBVIOUS
    <2> QED
      BY <2>1, ConcatEmptySeq
  <1>3. \A x, y \in S : <<x, y>> = Cons(x, <<y>>)
    <2> SUFFICES ASSUME NEW x \in S, NEW y \in S
                 PROVE  <<x, y>> = <<x>> \o <<y>>
      BY DEF Cons
    <2>1. <<x>> \in Seq(S) /\ <<y>> \in Seq(S) /\ <<x, y>> \in Seq(S) /\ Len(<<x, y>>) = 2
          /\ Len(<<x>>) = 1 /\ Len(<<y>>) = 1
      OBVIOUS
    <2>2. PICK u : u = <<x>> \o <<y>>
      OBVIOUS
    <2>3. /\ u \in Seq(S) /\ Len(u) = 2
          /\ \A i \in 1 .. 2 : u[i] = IF i <= 1 THEN <<x>>[i] ELSE <<y>>[i - 1]
      BY <2>1, <2>2, ConcatProperties
    <2>4. \A i \in 1 .. 2 : u[i] = <<x, y>>[i]
      BY <2>3
    <2> QED
      BY <2>1, <2>2, <2>3, <2>4, SeqEqual
  <1>4. <<a, b, c>> = Cons(a, <<b, c>>)
    <2> SUFFICES <<a, b, c>> = <<a>> \o <<b, c>>
      BY DEF Cons
    <2> QED
      OBVIOUS
  <1> QED
    BY <1>2, <1>3, <1>4

(***************************************************************************)
(* The list as a ring of nodes.                                            *)
(***************************************************************************)

\* Following F from the head never leaves S before it is back at the head.
ClosedUnder(F, S) == /\ F[ListHead] \in S \cup {ListHead}
                     /\ \A n \in S : F[n] \in S \cup {ListHead}

\* The entries N and the head form one cycle under F,
Ring(F, N) ==
    /\ N \in SUBSET Buffer
    /\ ClosedUnder(F, N)
    /\ \A S \in SUBSET N : ClosedUnder(F, S) => S = N

\* and B leads the same way back.
Back(F, B, N) ==
    \A n \in N \cup {ListHead} : /\ B[n] \in N \cup {ListHead}
                                 /\ F[B[n]] = n
                                 /\ B[F[n]] = n

\* What the walk of the list meets.
LEMMA ListedIs ==
    ASSUME NEW N, Ring(fwd, N)
    PROVE  Listed = N
  <1>1. N \in SUBSET Buffer /\ Walks(N)
    BY DEF Ring, ClosedUnder, Walks
  <1>2. Listed \subseteq N
    BY <1>1 DEF Listed
  <1>3. ASSUME NEW b \in N, NEW S \in SUBSET Buffer, Walks(S)
        PROVE  b \in S
    <2>1. ClosedUnder(fwd, S \cap N)
      BY <1>3 DEF Ring, ClosedUnder, Walks
    <2>2. S \cap N = N
      BY <2>1 DEF Ring
    <2> QED
      BY <2>2
  <1>4. N \subseteq Listed
    BY <1>1, <1>3 DEF Listed
  <1> QED
    BY <1>2, <1>4

\* An entry linked behind the last one.
LEMMA RingAdd ==
    ASSUME NEW F, NEW G, NEW N, Ring(F, N), NEW b \in Buffer \ N,
           NEW p \in N \cup {ListHead}, F[p] = ListHead, F[b] = ListHead,
           \A n \in Node : G[n] = IF n = p THEN b ELSE F[n]
    PROVE  Ring(G, N \cup {b})
  <1>1. N \in SUBSET Buffer /\ b # ListHead /\ ListHead \notin N /\ p # b /\ ListHead \in Node /\ N \subseteq Node /\ b \in Node
    BY MemAssumption DEF Ring, Node
  <1>2. G[p] = b /\ \A n \in N \cup {ListHead, b} : n # p => G[n] = F[n]
    BY <1>1
  <1>3. \A n \in N \cup {ListHead} : F[n] \in N \cup {ListHead}
    BY DEF Ring, ClosedUnder
  <1>4. ClosedUnder(G, N \cup {b})
    BY <1>1, <1>2, <1>3 DEF ClosedUnder
  <1>5. ASSUME NEW S \in SUBSET (N \cup {b}), ClosedUnder(G, S)
        PROVE  S = N \cup {b}
    <2>1. PICK T : T = S \ {b}
      OBVIOUS
    <2>2. T \in SUBSET N
      BY <2>1
    <2>3. ASSUME NEW n \in T \cup {ListHead}
          PROVE  F[n] \in T \cup {ListHead}
      <3>1. CASE n = p
        BY <3>1
      <3>2. CASE n # p
        <4>1. G[n] \in S \cup {ListHead}
          BY <1>5, <2>1 DEF ClosedUnder
        <4>2. G[n] = F[n] /\ F[n] \in N \cup {ListHead}
          BY <1>2, <1>3, <2>2, <3>2
        <4> QED
          BY <1>1, <2>1, <4>1, <4>2
      <3> QED
        BY <3>1, <3>2
    <2>4. T = N
      BY <2>2, <2>3 DEF Ring, ClosedUnder
    <2>5. G[p] \in S \cup {ListHead}
      BY <1>5, <2>1, <2>4 DEF ClosedUnder
    <2> QED
      BY <1>1, <1>2, <2>1, <2>4, <2>5
  <1> QED
    BY <1>1, <1>4, <1>5 DEF Ring

\* Around an entry that is to be unlinked.
LEMMA Around ==
    ASSUME NEW F, NEW B, NEW N, Ring(F, N), Back(F, B, N), NEW b \in N
    PROVE  /\ B[b] # b /\ B[b] \in (N \ {b}) \cup {ListHead} /\ F[B[b]] = b
           /\ F[b] # b /\ F[b] \in (N \ {b}) \cup {ListHead} /\ B[F[b]] = b
           /\ \A n \in N \cup {ListHead} : F[n] = b => n = B[b]
  <1>1. N \in SUBSET Buffer /\ b # ListHead /\ ListHead \notin N
    BY MemAssumption DEF Ring
  <1>2. B[b] \in N \cup {ListHead} /\ F[B[b]] = b /\ B[F[b]] = b
    BY DEF Back
  <1>3. \A n \in N \cup {ListHead} : F[n] = b => n = B[b]
    BY DEF Back
  <1>4. \A n \in N \cup {ListHead} : F[n] \in N \cup {ListHead}
    BY DEF Ring, ClosedUnder
  <1>5. B[b] # b
    <2> SUFFICES ASSUME B[b] = b PROVE FALSE
      OBVIOUS
    <2>1. ClosedUnder(F, N \ {b})
      BY <1>1, <1>3, <1>4 DEF ClosedUnder
    <2>2. N \ {b} = N
      BY <2>1 DEF Ring
    <2> QED
      BY <2>2
  <1>6. F[b] # b
    BY <1>3, <1>5
  <1> QED
    BY <1>2, <1>3, <1>4, <1>5, <1>6

\* An entry unlinked.
LEMMA RingRemove ==
    ASSUME NEW F, NEW B, NEW G, NEW N, Ring(F, N), Back(F, B, N), NEW b \in N,
           \A n \in Node : G[n] = IF n = B[b] THEN F[b] ELSE F[n]
    PROVE  /\ B[b] # b /\ F[b] # b /\ B[b] \in (N \ {b}) \cup {ListHead}
           /\ Ring(G, N \ {b})
  <1>1. N \in SUBSET Buffer /\ b # ListHead /\ ListHead \notin N /\ ListHead \in Node /\ N \subseteq Node
    BY MemAssumption DEF Ring, Node
  <1>2. PICK p : p = B[b] /\ p \in N \cup {ListHead} /\ F[p] = b
    BY DEF Back
  <1>3. \A n \in N \cup {ListHead} : F[n] = b => n = p
    BY <1>2 DEF Back
  <1>4. \A n \in N \cup {ListHead} : F[n] \in N \cup {ListHead}
    BY DEF Ring, ClosedUnder
  <1>5. p # b
    BY <1>2, Around
  <1>6. F[b] # b
    BY Around
  <1>7. G[p] = F[b] /\ \A n \in N \cup {ListHead} : n # p => G[n] = F[n]
    BY <1>1, <1>2
  <1>8. ClosedUnder(G, N \ {b})
    BY <1>1, <1>3, <1>4, <1>6, <1>7 DEF ClosedUnder
  <1>9. ASSUME NEW S \in SUBSET (N \ {b}), ClosedUnder(G, S)
        PROVE  S = N \ {b}
    <2>0. b \notin S /\ S \subseteq N
      OBVIOUS
    <2>1. CASE p \in S \cup {ListHead}
      <3>1. ASSUME NEW n \in S \cup {b, ListHead}
            PROVE  F[n] \in S \cup {b, ListHead}
        <4>1. CASE n = p
          BY <1>2, <4>1
        <4>2. CASE n = b
          BY <1>7, <1>9, <2>1, <4>2 DEF ClosedUnder
        <4>3. CASE n # p /\ n # b
          BY <1>7, <1>9, <2>0, <4>3 DEF ClosedUnder
        <4> QED
          BY <4>1, <4>2, <4>3
      <3>2. ClosedUnder(F, S \cup {b})
        BY <3>1 DEF ClosedUnder
      <3>3. S \cup {b} = N
        BY <3>2 DEF Ring
      <3> QED
        BY <2>0, <3>3
    <2>2. CASE p \notin S \cup {ListHead}
      <3>1. ClosedUnder(F, S)
        BY <1>7, <1>9, <2>0, <2>2 DEF ClosedUnder
      <3>2. S = N
        BY <2>0, <3>1 DEF Ring
      <3> QED
        BY <2>0, <3>2
    <2> QED
      BY <2>1, <2>2
  <1> QED
    BY <1>1, <1>2, <1>5, <1>6, <1>8, <1>9 DEF Ring

\* The links back, where the head's is the last to change.
LEMMA BackAdd ==
    ASSUME NEW F, NEW B, NEW G, NEW C, NEW N, Ring(F, N), Back(F, B, N),
           NEW b \in Buffer \ N, B[b] = B[ListHead], F[b] = ListHead,
           \A n \in Node : G[n] = IF n = B[ListHead] THEN b ELSE F[n],
           \A n \in Node : C[n] = IF n = ListHead THEN b ELSE B[n]
    PROVE  Back(G, C, N \cup {b})
  <1>1. N \in SUBSET Buffer /\ b # ListHead /\ ListHead \notin N /\ ListHead \in Node /\ N \subseteq Node /\ b \in Node
    BY MemAssumption DEF Ring, Node
  <1>2. PICK p : p = B[ListHead] /\ p \in N \cup {ListHead} /\ F[p] = ListHead
    BY DEF Back
  <1>3. p # b /\ B[b] = p
    BY <1>1, <1>2
  <1>4. /\ G[p] = b /\ C[ListHead] = b
        /\ \A n \in N \cup {b, ListHead} : n # p => G[n] = F[n]
        /\ \A n \in N \cup {b, ListHead} : n # ListHead => C[n] = B[n]
    BY <1>1, <1>2
  <1>5. /\ \A n \in N \cup {ListHead} : F[n] \in N \cup {ListHead}
        /\ \A n \in N \cup {ListHead} : B[n] \in N \cup {ListHead} /\ F[B[n]] = n /\ B[F[n]] = n
    BY DEF Ring, ClosedUnder, Back
  <1>6. C[b] = p /\ G[b] = ListHead /\ C[ListHead] = b /\ G[p] = b /\ C[G[b]] = b
    BY <1>1, <1>3, <1>4
  <1>7. C[G[ListHead]] = ListHead
    <2>1. CASE p = ListHead
      BY <1>6, <2>1
    <2>2. CASE p # ListHead
      <3>1. G[ListHead] = F[ListHead] /\ F[ListHead] # ListHead
        BY <1>2, <1>4, <1>5, <2>2
      <3> QED
        BY <1>4, <1>5, <3>1
    <2> QED
      BY <2>1, <2>2
  <1>8. ASSUME NEW n \in N
        PROVE  C[n] \in N \cup {b, ListHead} /\ G[C[n]] = n /\ C[G[n]] = n
    <2>1. n # ListHead /\ C[n] = B[n] /\ B[n] \in N \cup {ListHead}
      BY <1>1, <1>4, <1>5
    <2>2. B[n] # p
      BY <1>2, <1>5, <2>1
    <2>3. G[C[n]] = n
      BY <1>4, <1>5, <2>1, <2>2
    <2>4. CASE n = p
      BY <1>6, <2>1, <2>3, <2>4
    <2>5. CASE n # p
      <3>1. G[n] = F[n] /\ F[n] # ListHead
        BY <1>2, <1>4, <1>5, <2>5
      <3>2. C[F[n]] = B[F[n]]
        BY <1>4, <1>5, <3>1
      <3> QED
        BY <1>5, <2>1, <2>3, <3>1, <3>2
    <2> QED
      BY <2>4, <2>5
  <1> QED
    BY <1>2, <1>6, <1>7, <1>8 DEF Back

LEMMA BackRemove ==
    ASSUME NEW F, NEW B, NEW G, NEW C, NEW N, Ring(F, N), Back(F, B, N), NEW b \in N,
           \A n \in Node : G[n] = IF n = B[b] THEN F[b] ELSE F[n],
           \A n \in Node : C[n] = IF n = F[b] THEN B[b] ELSE B[n]
    PROVE  Back(G, C, N \ {b})
  <1>1. N \in SUBSET Buffer /\ b # ListHead /\ ListHead \notin N /\ ListHead \in Node /\ N \subseteq Node
    BY MemAssumption DEF Ring, Node
  <1>2. PICK p, q : p = B[b] /\ q = F[b]
    OBVIOUS
  <1>3. /\ \A n \in N \cup {ListHead} : F[n] \in N \cup {ListHead}
        /\ \A n \in N \cup {ListHead} : B[n] \in N \cup {ListHead} /\ F[B[n]] = n /\ B[F[n]] = n
    BY DEF Ring, ClosedUnder, Back
  <1>4. p # b /\ q # b /\ F[p] = b /\ B[q] = b /\ p \in (N \ {b}) \cup {ListHead} /\ q \in (N \ {b}) \cup {ListHead}
    BY <1>2, Around
  <1>5. /\ \A n \in (N \ {b}) \cup {ListHead} : G[n] = IF n = p THEN q ELSE F[n]
        /\ \A n \in (N \ {b}) \cup {ListHead} : C[n] = IF n = q THEN p ELSE B[n]
    BY <1>1, <1>2
  <1>6. ASSUME NEW n \in (N \ {b}) \cup {ListHead}
        PROVE  C[n] \in (N \ {b}) \cup {ListHead} /\ G[C[n]] = n /\ C[G[n]] = n
    <2>1. CASE n = q
      <3>1. C[n] = p /\ G[p] = q
        BY <1>4, <1>5, <2>1
      <3>2. CASE n = p
        BY <1>4, <1>5, <2>1, <3>1, <3>2
      <3>3. CASE n # p
        <4>1. G[n] = F[n] /\ F[n] # b /\ F[n] # q
          BY <1>2, <1>3, <1>4, <1>5, <2>1, <3>3
        <4>2. F[n] \in (N \ {b}) \cup {ListHead} /\ C[F[n]] = B[F[n]]
          BY <1>3, <1>5, <4>1
        <4> QED
          BY <1>3, <1>4, <2>1, <3>1, <4>1, <4>2
      <3> QED
        BY <3>2, <3>3
    <2>2. CASE n # q
      <3>1. C[n] = B[n] /\ B[n] # b /\ B[n] # p
        <4>1. B[n] # b /\ B[n] # p
          BY <1>1, <1>2, <1>3, <1>4, <2>2
        <4> QED
          BY <1>5, <2>2, <4>1
      <3>2. B[n] \in (N \ {b}) \cup {ListHead} /\ G[B[n]] = n
        BY <1>3, <1>5, <3>1
      <3>3. C[G[n]] = n
        <4>1. CASE n = p
          BY <1>4, <1>5, <4>1
        <4>2. CASE n # p
          <5>1. G[n] = F[n] /\ F[n] # b /\ F[n] # q
            <6>1. F[n] # b /\ F[n] # q
              BY <1>1, <1>2, <1>3, <1>4, <4>2
            <6> QED
              BY <1>5, <4>2, <6>1
          <5>2. F[n] \in (N \ {b}) \cup {ListHead} /\ C[F[n]] = B[F[n]]
            BY <1>3, <1>5, <5>1
          <5> QED
            BY <1>3, <5>1, <5>2
        <4> QED
          BY <4>1, <4>2
      <3> QED
        BY <3>1, <3>2, <3>3
    <2> QED
      BY <2>1, <2>2
  <1> QED
    BY <1>6 DEF Back

(***************************************************************************)
(* Types, whether or not notification functions use the library.           *)
(***************************************************************************)

\* The calls after a step.
LEMMA DoTypes ==
    ASSUME NEW do, NEW b \in Buffer, NEW more \in Seq(Steps), Do(do, b, more),
           calls \in Seq(Seq(Steps)), Len(calls) <= 2
    PROVE  calls' \in Seq(Seq(Steps)) /\ Len(calls') <= 2
  <1>1. PICK t, f, n : t = Last(calls) /\ f = Front(calls) /\ n = Len(calls)
    OBVIOUS
  <1>2. n \in 1 .. 2
    BY <1>1, EmptySeq, LenProperties DEF Do
  <1>3. t \in Seq(Steps)
    BY <1>1, <1>2, ElementOfSeq DEF Last
  <1>4. f \in Seq(Seq(Steps)) /\ Len(f) = n - 1
    <2>1. \A i \in 1 .. n - 1 : calls[i] \in Seq(Steps)
      BY <1>1, <1>2, ElementOfSeq
    <2>2. /\ SubSeq(calls, 1, n - 1) \in Seq(Seq(Steps))
          /\ Len(SubSeq(calls, 1, n - 1)) = IF 1 <= n - 1 THEN n - 1 - 1 + 1 ELSE 0
      BY <1>2, <2>1, SubSeqProperties
    <2> QED
      BY <1>1, <1>2, <2>2 DEF Front
  <1>5. PICK r : r = more \o Tail(t)
    OBVIOUS
  <1>6. r \in Seq(Steps)
    BY <1>1, <1>3, <1>5, HeadTailProperties, ConcatProperties DEF Do
  <1>7. calls' = IF r = <<>> THEN f ELSE Append(f, r)
    BY <1>1, <1>5 DEF Do
  <1>8. CASE r = <<>>
    BY <1>2, <1>4, <1>7, <1>8
  <1>9. CASE r # <<>>
    BY <1>2, <1>4, <1>6, <1>7, <1>9, AppendProperties
  <1> QED
    BY <1>8, <1>9

LEMMA StartTypes ==
    ASSUME NEW t \in Seq(Steps), Start(t), calls \in Seq(Seq(Steps))
    PROVE  calls' \in Seq(Seq(Steps)) /\ Len(calls') <= 2
  <1>1. Len(calls) \in 0 .. 1
    BY LenProperties, EmptySeq DEF Start, MayCall
  <1>2. PICK u : u = Append(calls, t)
    OBVIOUS
  <1>3. u \in Seq(Seq(Steps)) /\ Len(u) = Len(calls) + 1
    <2>1. PICK S : S = Seq(Steps)
      OBVIOUS
    <2>2. u \in Seq(S) /\ Len(u) = Len(calls) + 1
      BY <1>2, <2>1, AppendProperties
    <2> QED
      BY <2>1, <2>2
  <1>4. calls' = u
    BY <1>2 DEF Start
  <1>5. Len(u) <= 2
    <2>1. PICK n, m : n = Len(calls) /\ m = Len(u)
      OBVIOUS
    <2>2. n \in 0 .. 1 /\ m = n + 1
      BY <1>1, <1>3, <2>1
    <2>3. m <= 2
      BY <2>2
    <2> QED
      BY <2>1, <2>3
  <1> QED
    BY <1>3, <1>4, <1>5

LEMMA StepsAre ==
    \A b \in Buffer : \A do \in StepNames : Step(do, b) \in Steps
  BY DEF Step, Steps

\* The sequences of steps that calls start with and steps are replaced by.
LEMMA TracksAre ==
    ASSUME NEW b \in Buffer
    PROVE  /\ Track(b) = Cons(Step("link", b), Cons(Step("linkPrev", b), Cons(Step("linkLast", b), <<>>)))
           /\ Untrack(b) = Cons(Step("unlinkNext", b), Cons(Step("unlinkPrev", b), <<>>))
           /\ Append(Untrack(b), Step("pool", b)) =
                 Cons(Step("unlinkNext", b), Cons(Step("unlinkPrev", b), Cons(Step("pool", b), <<>>)))
           /\ Track(b) \in Seq(Steps) /\ Untrack(b) \in Seq(Steps)
           /\ Append(Untrack(b), Step("pool", b)) \in Seq(Steps)
  <1>1. \A do \in StepNames : Step(do, b) \in Steps
    BY StepsAre
  <1>2. PICK x, y, z, u, v, w :
            /\ x = Step("link", b) /\ y = Step("linkPrev", b) /\ z = Step("linkLast", b)
            /\ u = Step("unlinkNext", b) /\ v = Step("unlinkPrev", b) /\ w = Step("pool", b)
    OBVIOUS
  <1>3. x \in Steps /\ y \in Steps /\ z \in Steps /\ u \in Steps /\ v \in Steps /\ w \in Steps
    BY <1>1, <1>2 DEF StepNames
  <1>4. <<x, y, z>> = Cons(x, Cons(y, Cons(z, <<>>)))
    BY <1>3, TupleIs
  <1>5. <<u, v>> = Cons(u, Cons(v, <<>>))
    BY <1>3, TupleIs
  <1>6. <<u, v, w>> = Cons(u, Cons(v, Cons(w, <<>>)))
    BY <1>3, TupleIs
  <1>7. Append(<<u, v>>, w) = <<u, v, w>>
    <2>1. <<u, v>> \in Seq(Steps) /\ Len(<<u, v>>) = 2 /\ <<u, v, w>> \in Seq(Steps)
          /\ Len(<<u, v, w>>) = 3
      BY <1>3
    <2>2. PICK t : t = Append(<<u, v>>, w)
      OBVIOUS
    <2>3. /\ t \in Seq(Steps) /\ Len(t) = 3 /\ t[3] = w
          /\ \A i \in 1 .. 2 : t[i] = <<u, v>>[i]
      BY <1>3, <2>1, <2>2, AppendProperties
    <2>4. \A i \in 1 .. 3 : t[i] = <<u, v, w>>[i]
      BY <2>3
    <2> QED
      BY <2>1, <2>2, <2>3, <2>4, SeqEqual
  <1>8. <<x, y, z>> \in Seq(Steps) /\ <<u, v>> \in Seq(Steps) /\ <<u, v, w>> \in Seq(Steps)
    BY <1>3
  <1> QED
    BY <1>2, <1>4, <1>5, <1>6, <1>7, <1>8 DEF Track, Untrack

\* The steps that put a buffer on the list, and what follows them.
LEMMA TrackThen ==
    ASSUME NEW b \in Buffer
    PROVE  /\ Track(b) \o <<Step("return", b)>> =
                Cons(Step("link", b), Cons(Step("linkPrev", b), Cons(Step("linkLast", b),
                     Cons(Step("return", b), <<>>))))
           /\ \A o \in Buffer :
                Track(b) \o <<Step("FreePool", o), Step("return", b)>> =
                   Cons(Step("link", b), Cons(Step("linkPrev", b), Cons(Step("linkLast", b),
                        Cons(Step("FreePool", o), Cons(Step("return", b), <<>>)))))
  <1>1. PICK x, y, z, e, w : /\ x = Step("link", b) /\ y = Step("linkPrev", b) /\ z = Step("linkLast", b)
                             /\ e = <<>> /\ w = Step("return", b)
    OBVIOUS
  <1>2. x \in Steps /\ y \in Steps /\ z \in Steps /\ e \in Seq(Steps) /\ w \in Steps
    BY <1>1, StepsAre, EmptySeq DEF StepNames
  <1>3. Track(b) = Cons(x, Cons(y, Cons(z, e)))
    BY <1>1, TracksAre
  <1>4. ASSUME NEW r \in Seq(Steps)
        PROVE  Track(b) \o r = Cons(x, Cons(y, Cons(z, r)))
    <2>1. ASSUME NEW v \in Steps, NEW s \in Seq(Steps)
          PROVE  Cons(v, s) \o r = Cons(v, s \o r) /\ Cons(v, s) \in Seq(Steps)
      <3>1. <<v>> \in Seq(Steps)
        OBVIOUS
      <3> QED
        BY <3>1, ConcatAssociative, ConsIs DEF Cons
    <2>2. PICK s : s = Cons(z, e)
      OBVIOUS
    <2>3. s \in Seq(Steps) /\ s \o r = Cons(z, r)
      <3>1. <<>> \o r = r
        BY ConcatEmptySeq
      <3>2. e \o r = r
        BY <1>1, <3>1
      <3> QED
        BY <1>2, <2>1, <2>2, <3>2
    <2>4. PICK t : t = Cons(y, s)
      OBVIOUS
    <2>5. t \in Seq(Steps) /\ t \o r = Cons(y, Cons(z, r))
      BY <1>2, <2>1, <2>3, <2>4
    <2>6. Cons(x, t) \o r = Cons(x, t \o r)
      BY <1>2, <2>1, <2>5
    <2> QED
      BY <1>3, <2>2, <2>3, <2>4, <2>5, <2>6
  <1>5. <<w>> = Cons(w, e) /\ <<w>> \in Seq(Steps)
    BY <1>1, <1>2, TupleIs
  <1>6. ASSUME NEW o \in Buffer
        PROVE  <<Step("FreePool", o), w>> = Cons(Step("FreePool", o), Cons(w, e))
               /\ <<Step("FreePool", o), w>> \in Seq(Steps)
    <2>1. Step("FreePool", o) \in Steps
      BY StepsAre DEF StepNames
    <2> QED
      BY <1>1, <1>2, <2>1, TupleIs
  <1> QED
    BY <1>1, <1>4, <1>5, <1>6

\* Buffers, links and calls in progress have their types at every step, whether
\* or not notification functions use the library in the middle of a call.
THEOREM TypeCorrect == Spec => []TypeOK
  <1>1. Init => TypeOK
    <2> SUFFICES ASSUME Init
                 PROVE  TypeOK
      OBVIOUS
    <2>1. "none" \in ToSet(Checks) /\ "free" \in Kinds /\ ListHead \in Node
      BY DEF Checks, ToSet, Kinds, Node
    <2>2. calls \in Seq(Seq([do : StepNames, buf : Buffer])) /\ Len(calls) <= 2
      BY EmptySeq DEF Init
    <2> QED
      BY <2>1, <2>2 DEF Init, TypeOK
  <1>2. TypeOK /\ [Next]_vars => TypeOK'
    <2> SUFFICES ASSUME TypeOK, [Next]_vars
                 PROVE  TypeOK'
      OBVIOUS
    <2>1. /\ kind \in [Buffer -> Kinds] /\ damage \in [Buffer -> ToSet(Checks)]
          /\ nomsg \in [Buffer -> BOOLEAN] /\ hushed \in [Buffer -> BOOLEAN]
          /\ fwd \in [Node -> Node] /\ bwd \in [Node -> Node] /\ cut \in BOOLEAN
          /\ held \in SUBSET Buffer
          /\ calls \in Seq(Seq(Steps)) /\ Len(calls) <= 2
          /\ report \in (SUBSET Buffer) \cup {NULL}
      BY DEF TypeOK, Steps
    <2>2. ListHead \in Node /\ Buffer \subseteq Node /\ "none" \in ToSet(Checks)
      BY DEF Node, Checks, ToSet
    <2>3. CASE UNCHANGED vars
      BY <2>1, <2>3 DEF TypeOK, Steps, vars
    <2>4. ASSUME NEW b \in Buffer, NEW quiet \in BOOLEAN, AllocTracked(b, quiet)
          PROVE  TypeOK'
      <3>1. Track(b) \o <<Step("return", b)>> \in Seq(Steps)
        <4>1. <<Step("return", b)>> \in Seq(Steps)
          BY StepsAre DEF StepNames
        <4> QED
          BY <4>1, TracksAre, ConcatProperties
      <3>2. calls' \in Seq(Seq(Steps)) /\ Len(calls') <= 2
        BY <2>1, <2>4, <3>1, StartTypes DEF AllocTracked
      <3> QED
        BY <2>1, <2>2, <2>4, <3>2 DEF AllocTracked, FillData, TypeOK, Steps, Kinds
    <2>5. ASSUME NEW b \in Buffer, NEW k \in {"uefi", "c"}, AllocDirect(b, k)
          PROVE  TypeOK'
      BY <2>1, <2>2, <2>5 DEF AllocDirect, TypeOK, Steps, Kinds
    <2>6. ASSUME NEW b \in Buffer, NEW do \in {"free", "FreePool"}, Free(b, do)
          PROVE  TypeOK'
      <3>1. <<Step(do, b)>> \in Seq(Steps)
        BY StepsAre DEF StepNames
      <3>2. calls' \in Seq(Seq(Steps)) /\ Len(calls') <= 2
        BY <2>1, <2>6, <3>1, StartTypes DEF Free
      <3> QED
        BY <2>1, <2>6, <3>2 DEF Free, TypeOK, Steps
    <2>7. ASSUME NEW b \in Buffer, NEW do \in {"free", "FreePool"}, BeginFree(b, do)
          PROVE  TypeOK'
      <3>1. PICK more \in Seq(Steps) : Do(do, b, more)
        <4>1. <<>> \in Seq(Steps)
          BY EmptySeq
        <4> QED
          BY <2>7, <4>1, TracksAre DEF BeginFree
      <3>2. calls' \in Seq(Seq(Steps)) /\ Len(calls') <= 2
        BY <2>1, <3>1, DoTypes
      <3>3. kind' \in [Buffer -> Kinds]
        BY <2>1, <2>7 DEF BeginFree, Kinds
      <3> QED
        BY <2>1, <2>7, <3>2, <3>3 DEF BeginFree, TypeOK, Steps
    <2>8. ASSUME NEW b \in Buffer, NEW n \in Buffer, ReallocDirect(b, n)
          PROVE  TypeOK'
      <3>1. kind' \in [Buffer -> Kinds] /\ damage' \in [Buffer -> ToSet(Checks)] /\ held' \in SUBSET Buffer
        BY <2>1, <2>2, <2>8 DEF ReallocDirect, Kinds
      <3> QED
        BY <2>1, <2>8, <3>1 DEF ReallocDirect, TypeOK, Steps
    <2>9. ASSUME NEW b \in Buffer, NEW n \in Buffer, ReallocTracked(b, n)
          PROVE  TypeOK'
      <3>1. <<Step("FreePool", b), Step("return", n)>> \in Seq(Steps)
        BY StepsAre DEF StepNames
      <3>2. Track(n) \o <<Step("FreePool", b), Step("return", n)>> \in Seq(Steps)
        BY <3>1, TracksAre, ConcatProperties
      <3>3. calls' \in Seq(Seq(Steps)) /\ Len(calls') <= 2
        BY <2>1, <2>9, <3>1, <3>2, StartTypes DEF ReallocTracked
      <3>4. kind' \in [Buffer -> Kinds] /\ damage' \in [Buffer -> ToSet(Checks)] 
           /\ nomsg' \in [Buffer -> BOOLEAN] /\ hushed' \in [Buffer -> BOOLEAN]
        BY <2>1, <2>2, <2>9 DEF ReallocTracked, FillData, Kinds
      <3> QED
        BY <2>1, <2>9, <3>3, <3>4 DEF ReallocTracked, TypeOK, Steps
    <2>10. ASSUME NEW b \in Buffer, ReallocRefused(b)
           PROVE  TypeOK'
      BY <2>1, <2>10 DEF ReallocRefused, TypeOK, Steps, vars
    <2>11. ASSUME NEW b \in Buffer, NEW do, Do(do, b, <<>>)
           PROVE  calls' \in Seq(Seq(Steps)) /\ Len(calls') <= 2
      BY <2>1, <2>11, DoTypes, EmptySeq
    <2>12. ASSUME NEW b \in Buffer, Link(b) \/ LinkPrev(b) \/ LinkLast(b) \/ UnlinkNext(b) \/ UnlinkPrev(b)
           PROVE  TypeOK'
      <3>1. calls' \in Seq(Seq(Steps)) /\ Len(calls') <= 2
        BY <2>11, <2>12 DEF Link, LinkPrev, LinkLast, UnlinkNext, UnlinkPrev
      <3>2. fwd' \in [Node -> Node] /\ bwd' \in [Node -> Node]
        <4>1. fwd[b] \in Node /\ bwd[b] \in Node /\ bwd[ListHead] \in Node /\ b \in Node
          BY <2>1, <2>2
        <4>2. ASSUME NEW F, NEW n \in Node, NEW m \in Node, F \in [Node -> Node]
              PROVE  [F EXCEPT ![m] = n] \in [Node -> Node]
          BY <4>2
        <4>3. CASE Link(b)
          BY <2>1, <2>2, <4>1, <4>2, <4>3 DEF Link
        <4>4. CASE LinkPrev(b)
          BY <2>1, <4>1, <4>2, <4>4 DEF LinkPrev
        <4>5. CASE LinkLast(b)
          BY <2>1, <2>2, <4>1, <4>2, <4>5 DEF LinkLast
        <4>6. CASE UnlinkNext(b)
          BY <2>1, <4>1, <4>2, <4>6 DEF UnlinkNext
        <4>7. CASE UnlinkPrev(b)
          BY <2>1, <4>1, <4>2, <4>7 DEF UnlinkPrev
        <4> QED
          BY <2>12, <4>3, <4>4, <4>5, <4>6, <4>7
      <3>3. UNCHANGED <<kind, damage, nomsg, hushed, cut, held, report>>
        BY <2>12 DEF Link, LinkPrev, LinkLast, UnlinkNext, UnlinkPrev
      <3> QED
        BY <2>1, <3>1, <3>2, <3>3 DEF TypeOK, Steps
    <2>13. ASSUME NEW b \in Buffer, ToPool(b) \/ Return(b)
           PROVE  TypeOK'
      <3>1. calls' \in Seq(Seq(Steps)) /\ Len(calls') <= 2
        BY <2>11, <2>13 DEF ToPool, Return
      <3> QED
        BY <2>1, <2>13, <3>1 DEF ToPool, Return, TypeOK, Steps, Kinds
    <2>14. ASSUME NEW b \in Buffer, NEW part \in ToSet(Checks) \ {"head"}, Damage(b, part)
           PROVE  TypeOK'
      BY <2>1, <2>14 DEF Damage, TypeOK, Steps
    <2>16. ASSUME NEW b \in Buffer, NEW flag \in BOOLEAN, DamageHeader(b, flag)
           PROVE  TypeOK'
      <3>1. "head" \in ToSet(Checks)
        BY DEF Checks, ToSet
      <3> QED
        BY <2>1, <2>16, <3>1 DEF DamageHeader, TypeOK, Steps
    <2>17. ASSUME NEW b \in Buffer, NEW next \in Node, NEW prev \in Node, DamageLinks(b, next, prev)
           PROVE  TypeOK'
      BY <2>1, <2>17 DEF DamageLinks, TypeOK, Steps
    <2>15. CASE Deconstruct
      <3>1. report' \in SUBSET Buffer
        BY <2>15 DEF Deconstruct, Listed
      <3> QED
        BY <2>1, <2>15, <3>1 DEF Deconstruct, TypeOK, Steps
    <2> QED
      BY <2>3, <2>4, <2>5, <2>6, <2>7, <2>8, <2>9, <2>10, <2>12, <2>13, <2>14, <2>15, <2>16, <2>17
         DEF Next
  <1> QED
    BY <1>1, <1>2, PTL DEF Spec

(***************************************************************************)
(* One call at a time: how far it is, and what is on the list then.        *)
(***************************************************************************)

\* The buffer o, to be freed by the call in progress, where it is on the list.
Due(o) == {b \in Buffer : b = o /\ kind[b] = "tracked"}

List(N) == Ring(fwd, N) /\ Back(fwd, bwd, N)

\* What is left to do at the end of a call: o is freed, n is returned; NULL
\* where there is none.
Returns(n) == IF n = NULL THEN <<>> ELSE Cons(Step("return", n), <<>>)
Frees(do, o, n) == IF o = NULL THEN Returns(n) ELSE Cons(Step(do, o), Returns(n))
GivesBack(k, b, n) == IF k THEN Cons(Step("pool", b), Returns(n)) ELSE Returns(n)

\* A buffer to be freed is no longer the program's, and the one to be returned
\* is new and has the flags of the old one.
OldOK(o) == o \in Buffer \cup {NULL} /\ o \notin held
NewOK(n, o) ==
    /\ n \in Buffer \cup {NULL}
    /\ n # NULL => /\ n # o
                   /\ kind[n] = "tracked" => damage[n] = "none"
                   /\ o # NULL => (kind[o] = "tracked" /\ damage[o] \notin {"up", "mid"}
                                   => /\ kind[n] = "tracked"
                                      /\ nomsg[n] = nomsg[o] /\ hushed[n] = nomsg[o])

AtRest == calls = <<>> /\ List(Kept)

AtReturn(n) ==
    /\ n \in Buffer /\ NewOK(n, NULL)
    /\ calls = <<Returns(n)>>
    /\ List(Kept)

\* A new buffer b is put on the list; o is freed after it.
Adding(b, o) ==
    b \in Buffer /\ kind[b] = "tracked" /\ OldOK(o) /\ NewOK(b, o)

AtLink(b, o) ==
    /\ Adding(b, o)
    /\ calls = <<Cons(Step("link", b), Cons(Step("linkPrev", b),
                      Cons(Step("linkLast", b), Frees("FreePool", o, b))))>>
    /\ List((Kept \cup Due(o)) \ {b})

AtLinkPrev(b, o) ==
    /\ Adding(b, o)
    /\ calls = <<Cons(Step("linkPrev", b), Cons(Step("linkLast", b), Frees("FreePool", o, b)))>>
    /\ List((Kept \cup Due(o)) \ {b})
    /\ fwd[b] = ListHead /\ bwd[b] = bwd[ListHead]

AtLinkLast(b, o) ==
    /\ Adding(b, o)
    /\ calls = <<Cons(Step("linkLast", b), Frees("FreePool", o, b))>>
    /\ Ring(fwd, Kept \cup Due(o))
    /\ Back(fwd, [bwd EXCEPT ![ListHead] = b], Kept \cup Due(o))

\* A call of FreePool or free, by itself or at the end of a reallocation.
AtFree(do, o, n) ==
    /\ o \in Buffer /\ OldOK(o) /\ NewOK(n, o) /\ do \in {"free", "FreePool"}
    /\ calls = <<Frees(do, o, n)>>
    /\ List(Kept \cup Due(o))

\* A buffer is taken off the list, and given back where k.
Removing(b, n, k) ==
    /\ b \in Buffer /\ OldOK(b) /\ NewOK(n, b) /\ k \in BOOLEAN
    /\ kind[b] = "tracked"
    /\ damage[b] = IF k THEN "none" ELSE "tail"

AtUnlinkNext(b, n, k) ==
    /\ Removing(b, n, k)
    /\ calls = <<Cons(Step("unlinkNext", b), Cons(Step("unlinkPrev", b), GivesBack(k, b, n)))>>
    /\ List(Kept \cup {b})

AtUnlinkPrev(b, n, k) ==
    /\ Removing(b, n, k)
    /\ calls = <<Cons(Step("unlinkPrev", b), GivesBack(k, b, n))>>
    /\ Ring(fwd, Kept \cup {b})
    /\ Ring([fwd EXCEPT ![bwd[b]] = fwd[b]], Kept \ {b})
    /\ Back([fwd EXCEPT ![bwd[b]] = fwd[b]], bwd, Kept \ {b})

AtPool(b, n) ==
    /\ Removing(b, n, TRUE)
    /\ calls = <<GivesBack(TRUE, b, n)>>
    /\ List(Kept \ {b})

Stage ==
    \/ AtRest
    \/ \E b \in Buffer : AtReturn(b)
    \/ \E b \in Buffer, o \in Buffer \cup {NULL} :
          AtLink(b, o) \/ AtLinkPrev(b, o) \/ AtLinkLast(b, o)
    \/ \E do \in {"free", "FreePool"}, b \in Buffer, n \in Buffer \cup {NULL} : AtFree(do, b, n)
    \/ \E b \in Buffer, n \in Buffer \cup {NULL}, k \in BOOLEAN :
          AtUnlinkNext(b, n, k) \/ AtUnlinkPrev(b, n, k)
    \/ \E b \in Buffer, n \in Buffer \cup {NULL} : AtPool(b, n)

\* The inductive invariant, until a stray write hits the links of an entry.
IInv ==
    /\ TypeOK
    /\ Stage
    /\ report # NULL => calls = <<>> /\ report = {b \in Kept : ~hushed[b]}

LinkedInv == TypeOK /\ (cut \/ IInv)

\* The parts of a call in progress are sequences of steps.
LEMMA PartsAre ==
    ASSUME NEW n \in Buffer \cup {NULL}
    PROVE  /\ Returns(n) \in Seq(Steps)
           /\ \A o \in Buffer \cup {NULL}, do \in {"free", "FreePool"} : Frees(do, o, n) \in Seq(Steps)
           /\ \A b \in Buffer, k \in BOOLEAN : GivesBack(k, b, n) \in Seq(Steps)
  <1>1. <<>> \in Seq(Steps)
    BY EmptySeq
  <1>2. Returns(n) \in Seq(Steps)
    <2>1. CASE n = NULL
      BY <1>1, <2>1 DEF Returns
    <2>2. CASE n # NULL
      <3>1. Step("return", n) \in Steps
        BY <2>2, StepsAre DEF StepNames
      <3>2. Cons(Step("return", n), <<>>) \in Seq(Steps)
        BY <1>1, <3>1, ConsIs
      <3> QED
        BY <2>2, <3>2 DEF Returns
    <2> QED
      BY <2>1, <2>2
  <1>3. ASSUME NEW o \in Buffer \cup {NULL}, NEW do \in {"free", "FreePool"}
        PROVE  Frees(do, o, n) \in Seq(Steps)
    <2>1. CASE o = NULL
      BY <1>2, <2>1 DEF Frees
    <2>2. CASE o # NULL
      <3>1. Step(do, o) \in Steps
        BY <2>2, StepsAre DEF StepNames
      <3>2. Cons(Step(do, o), Returns(n)) \in Seq(Steps)
        BY <1>2, <3>1, ConsIs
      <3> QED
        BY <2>2, <3>2 DEF Frees
    <2> QED
      BY <2>1, <2>2
  <1>4. ASSUME NEW b \in Buffer, NEW k \in BOOLEAN
        PROVE  GivesBack(k, b, n) \in Seq(Steps)
    <2>1. Step("pool", b) \in Steps
      BY StepsAre DEF StepNames
    <2>2. Cons(Step("pool", b), Returns(n)) \in Seq(Steps)
      BY <1>2, <2>1, ConsIs
    <2> QED
      BY <1>2, <2>2 DEF GivesBack
  <1> QED
    BY <1>2, <1>3, <1>4

\* A step of the one call in progress.
LEMMA DoIs ==
    ASSUME NEW x \in Steps, NEW r \in Seq(Steps), calls = <<Cons(x, r)>>,
           NEW do, NEW b, NEW more, Do(do, b, more)
    PROVE  /\ x = Step(do, b)
           /\ calls' = IF more \o r = <<>> THEN <<>> ELSE <<more \o r>>
  <1>1. PICK t : t = Cons(x, r)
    OBVIOUS
  <1>2. Head(t) = x /\ Tail(t) = r /\ t \in Seq(Steps)
    BY <1>1, ConsIs
  <1>3. Last(calls) = t
    BY <1>1 DEF Last
  <1>4. Front(calls) = <<>>
    <2>1. Len(calls) = 1
      OBVIOUS
    <2>2. SubSeq(calls, 1, 0) = <<>>
      BY SubSeqEmpty
    <2> QED
      BY <2>1, <2>2 DEF Front
  <1>5. \A u : Append(<<>>, u) = <<u>>
    OBVIOUS
  <1> QED
    BY <1>2, <1>3, <1>4, <1>5 DEF Do

LEMMA StartIs ==
    ASSUME ~Preempting, NEW t, Start(t)
    PROVE  calls = <<>> /\ report = NULL /\ calls' = <<t>>
  <1>1. calls = <<>> /\ report = NULL /\ calls' = Append(calls, t)
    BY DEF Start, MayCall
  <1>2. \A u : Append(<<>>, u) = <<u>>
    OBVIOUS
  <1> QED
    BY <1>1, <1>2

\* A step that is replaced by none.
LEMMA DoNone ==
    ASSUME NEW x \in Steps, NEW r \in Seq(Steps), calls = <<Cons(x, r)>>,
           NEW do, NEW b, Do(do, b, <<>>)
    PROVE  calls' = IF r = <<>> THEN <<>> ELSE <<r>>
  <1>1. calls' = IF <<>> \o r = <<>> THEN <<>> ELSE <<(<<>> \o r)>>
    BY DoIs
  <1>2. <<>> \o r = r
    BY ConcatEmptySeq
  <1> QED
    BY <1>1, <1>2

\* The stage the call in progress is at, told from its next step.
LEMMA HeadIs ==
    ASSUME NEW x \in Steps, NEW r \in Seq(Steps), calls = <<Cons(x, r)>>,
           NEW do, NEW b, NEW more, Do(do, b, more), NEW d, NEW c, x = Step(d, c)
    PROVE  do = d /\ b = c
  <1>1. x = Step(do, b)
    BY DoIs
  <1> QED
    BY <1>1 DEF Step

LEMMA StageIs ==
    ASSUME Stage, NEW do, NEW b, NEW more, Do(do, b, more)
    PROVE  \/ do = "return" /\ AtReturn(b)
           \/ \E o \in Buffer \cup {NULL} :
                 \/ do = "link" /\ AtLink(b, o)
                 \/ do = "linkPrev" /\ AtLinkPrev(b, o)
                 \/ do = "linkLast" /\ AtLinkLast(b, o)
           \/ \E n \in Buffer \cup {NULL} : do \in {"free", "FreePool"} /\ AtFree(do, b, n)
           \/ \E n \in Buffer \cup {NULL}, k \in BOOLEAN :
                 \/ do = "unlinkNext" /\ AtUnlinkNext(b, n, k)
                 \/ do = "unlinkPrev" /\ AtUnlinkPrev(b, n, k)
           \/ \E n \in Buffer \cup {NULL} : do = "pool" /\ AtPool(b, n)
  <1>1. NULL \notin Buffer /\ NULL \in Buffer \cup {NULL} /\ <<>> \in Seq(Steps)
    BY MemAssumption, EmptySeq
  <1>2. \A c \in Buffer : \A d \in StepNames : Step(d, c) \in Steps
    BY StepsAre
  <1>3. ~AtRest
    BY DEF AtRest, Do
  <1>4. ASSUME NEW c \in Buffer, AtReturn(c)
        PROVE  do = "return" /\ b = c
    <2>1. PICK x, r : x = Step("return", c) /\ r = <<>>
      OBVIOUS
    <2>2. x \in Steps /\ r \in Seq(Steps) /\ calls = <<Cons(x, r)>>
      BY <1>1, <1>2, <1>4, <2>1 DEF AtReturn, Returns, StepNames
    <2> QED
      BY <2>1, <2>2, HeadIs
  <1>5. ASSUME NEW c \in Buffer, NEW o \in Buffer \cup {NULL}, AtLink(c, o)
        PROVE  do = "link" /\ b = c
    <2>1. PICK x, y, z, u, r : /\ x = Step("link", c) /\ y = Step("linkPrev", c) /\ z = Step("linkLast", c)
                               /\ u = Frees("FreePool", o, c) /\ r = Cons(y, Cons(z, u))
      OBVIOUS
    <2>2. x \in Steps /\ y \in Steps /\ z \in Steps /\ u \in Seq(Steps)
      BY <1>2, <2>1, PartsAre DEF StepNames
    <2>3. r \in Seq(Steps)
      BY <2>1, <2>2, ConsIs
    <2>4. calls = <<Cons(x, r)>>
      BY <1>5, <2>1 DEF AtLink
    <2> QED
      BY <2>1, <2>2, <2>3, <2>4, HeadIs
  <1>6. ASSUME NEW c \in Buffer, NEW o \in Buffer \cup {NULL}, AtLinkPrev(c, o)
        PROVE  do = "linkPrev" /\ b = c
    <2>1. PICK y, z, u, r : /\ y = Step("linkPrev", c) /\ z = Step("linkLast", c)
                            /\ u = Frees("FreePool", o, c) /\ r = Cons(z, u)
      OBVIOUS
    <2>2. y \in Steps /\ z \in Steps /\ u \in Seq(Steps)
      BY <1>2, <2>1, PartsAre DEF StepNames
    <2>3. r \in Seq(Steps)
      BY <2>1, <2>2, ConsIs
    <2>4. calls = <<Cons(y, r)>>
      BY <1>6, <2>1 DEF AtLinkPrev
    <2> QED
      BY <2>1, <2>2, <2>3, <2>4, HeadIs
  <1>7. ASSUME NEW c \in Buffer, NEW o \in Buffer \cup {NULL}, AtLinkLast(c, o)
        PROVE  do = "linkLast" /\ b = c
    <2>1. PICK z, r : z = Step("linkLast", c) /\ r = Frees("FreePool", o, c)
      OBVIOUS
    <2>2. z \in Steps /\ r \in Seq(Steps)
      BY <1>2, <2>1, PartsAre DEF StepNames
    <2>3. calls = <<Cons(z, r)>>
      BY <1>7, <2>1 DEF AtLinkLast
    <2> QED
      BY <2>1, <2>2, <2>3, HeadIs
  <1>8. ASSUME NEW d \in {"free", "FreePool"}, NEW c \in Buffer, NEW n \in Buffer \cup {NULL},
               AtFree(d, c, n)
        PROVE  do = d /\ b = c
    <2>1. PICK x, r : x = Step(d, c) /\ r = Returns(n)
      OBVIOUS
    <2>2. x \in Steps /\ r \in Seq(Steps)
      BY <1>2, <2>1, PartsAre DEF StepNames
    <2>3. calls = <<Cons(x, r)>>
      BY <1>1, <1>8, <2>1 DEF AtFree, Frees
    <2> QED
      BY <2>1, <2>2, <2>3, HeadIs
  <1>9. ASSUME NEW c \in Buffer, NEW n \in Buffer \cup {NULL}, NEW k \in BOOLEAN, AtUnlinkNext(c, n, k)
        PROVE  do = "unlinkNext" /\ b = c
    <2>1. PICK x, y, u, r : /\ x = Step("unlinkNext", c) /\ y = Step("unlinkPrev", c)
                            /\ u = GivesBack(k, c, n) /\ r = Cons(y, u)
      OBVIOUS
    <2>2. x \in Steps /\ y \in Steps /\ u \in Seq(Steps)
      BY <1>2, <2>1, PartsAre DEF StepNames
    <2>3. r \in Seq(Steps)
      BY <2>1, <2>2, ConsIs
    <2>4. calls = <<Cons(x, r)>>
      BY <1>9, <2>1 DEF AtUnlinkNext
    <2> QED
      BY <2>1, <2>2, <2>3, <2>4, HeadIs
  <1>10. ASSUME NEW c \in Buffer, NEW n \in Buffer \cup {NULL}, NEW k \in BOOLEAN, AtUnlinkPrev(c, n, k)
         PROVE  do = "unlinkPrev" /\ b = c
    <2>1. PICK y, r : y = Step("unlinkPrev", c) /\ r = GivesBack(k, c, n)
      OBVIOUS
    <2>2. y \in Steps /\ r \in Seq(Steps)
      BY <1>2, <2>1, PartsAre DEF StepNames
    <2>3. calls = <<Cons(y, r)>>
      BY <1>10, <2>1 DEF AtUnlinkPrev
    <2> QED
      BY <2>1, <2>2, <2>3, HeadIs
  <1>11. ASSUME NEW c \in Buffer, NEW n \in Buffer \cup {NULL}, AtPool(c, n)
         PROVE  do = "pool" /\ b = c
    <2>1. PICK y, r : y = Step("pool", c) /\ r = Returns(n)
      OBVIOUS
    <2>2. y \in Steps /\ r \in Seq(Steps)
      BY <1>2, <2>1, PartsAre DEF StepNames
    <2>3. calls = <<Cons(y, r)>>
      BY <1>11, <2>1 DEF AtPool, GivesBack
    <2> QED
      BY <2>1, <2>2, <2>3, HeadIs
  <1> QED
    <2>1. CASE \E c \in Buffer : AtReturn(c)
      BY <1>4, <2>1
    <2>2. CASE \E c \in Buffer, o \in Buffer \cup {NULL} : AtLink(c, o) \/ AtLinkPrev(c, o) \/ AtLinkLast(c, o)
      <3>1. PICK c \in Buffer, o \in Buffer \cup {NULL} : AtLink(c, o) \/ AtLinkPrev(c, o) \/ AtLinkLast(c, o)
        BY <2>2
      <3>2. CASE AtLink(c, o)
        <4>1. do = "link" /\ AtLink(b, o)
          BY <1>5, <3>2
        <4> QED
          BY <4>1
      <3>3. CASE AtLinkPrev(c, o)
        <4>1. do = "linkPrev" /\ AtLinkPrev(b, o)
          BY <1>6, <3>3
        <4> QED
          BY <4>1
      <3>4. CASE AtLinkLast(c, o)
        <4>1. do = "linkLast" /\ AtLinkLast(b, o)
          BY <1>7, <3>4
        <4> QED
          BY <4>1
      <3> QED
        BY <3>1, <3>2, <3>3, <3>4
    <2>3. CASE \E d \in {"free", "FreePool"}, c \in Buffer, n \in Buffer \cup {NULL} : AtFree(d, c, n)
      <3>1. PICK d \in {"free", "FreePool"}, c \in Buffer, n \in Buffer \cup {NULL} : AtFree(d, c, n)
        BY <2>3
      <3>2. do = d /\ b = c
        BY <1>8, <3>1
      <3>3. do \in {"free", "FreePool"} /\ AtFree(do, b, n)
        BY <3>1, <3>2
      <3> QED
        BY <3>3
    <2>4. CASE \E c \in Buffer, n \in Buffer \cup {NULL}, k \in BOOLEAN : AtUnlinkNext(c, n, k) \/ AtUnlinkPrev(c, n, k)
      <3>1. PICK c \in Buffer, n \in Buffer \cup {NULL}, k \in BOOLEAN : AtUnlinkNext(c, n, k) \/ AtUnlinkPrev(c, n, k)
        BY <2>4
      <3> QED
        BY <1>9, <1>10, <3>1
    <2>5. CASE \E c \in Buffer, n \in Buffer \cup {NULL} : AtPool(c, n)
      BY <1>11, <2>5
    <2> QED
      BY <1>3, <2>1, <2>2, <2>3, <2>4, <2>5 DEF Stage

\* What the writes of the list leave alone.
LEMMA SameBuffers ==
    ASSUME UNCHANGED <<kind, damage, nomsg, hushed, held>>
    PROVE  /\ Kept' = Kept
           /\ \A o : Due(o)' = Due(o) /\ (OldOK(o) => OldOK(o)')
           /\ \A n, o : NewOK(n, o) => NewOK(n, o)'
           /\ \A b, o : Adding(b, o) => Adding(b, o)'
           /\ \A b, n, k : Removing(b, n, k) => Removing(b, n, k)'
  <1>1. Kept' = Kept
    BY DEF Kept
  <1>2. \A o : Due(o)' = Due(o) /\ (OldOK(o) => OldOK(o)')
    BY DEF Due, OldOK
  <1>3. \A n, o : NewOK(n, o) => NewOK(n, o)'
    BY DEF NewOK
  <1>4. \A b, o : Adding(b, o) => Adding(b, o)'
    BY <1>2, <1>3 DEF Adding
  <1>5. \A b, n, k : Removing(b, n, k) => Removing(b, n, k)'
    BY <1>2, <1>3 DEF Removing
  <1> QED
    BY <1>1, <1>2, <1>3, <1>4, <1>5

\* The list is the same where the links of its nodes are.
LEMMA ListSame ==
    ASSUME NEW F, NEW B, NEW G, NEW C, NEW N, Ring(F, N), Back(F, B, N),
           \A n \in N \cup {ListHead} : G[n] = F[n] /\ C[n] = B[n]
    PROVE  Ring(G, N) /\ Back(G, C, N)
  <1>1. Ring(G, N)
    <2>1. \A S \in SUBSET N : ClosedUnder(F, S) <=> ClosedUnder(G, S)
      BY DEF ClosedUnder
    <2> QED
      BY <2>1 DEF Ring
  <1>2. \A n \in N : F[n] \in N \cup {ListHead}
    BY DEF Ring, ClosedUnder
  <1>3. F[ListHead] \in N \cup {ListHead}
    BY DEF Ring, ClosedUnder
  <1>4. Back(G, C, N)
    BY <1>2, <1>3 DEF Back
  <1> QED
    BY <1>1, <1>4

\* The buffer to be freed where there is none, and where it is tracked.
LEMMA DueIs ==
    /\ Due(NULL) = {}
    /\ \A b \in Buffer : Due(b) = IF kind[b] = "tracked" THEN {b} ELSE {}
  BY MemAssumption DEF Due

LEMMA KeptIs ==
    ASSUME NEW b
    PROVE  b \in Kept <=> b \in Buffer /\ kind[b] = "tracked" /\ (b \in held \/ damage[b] # "tail")
  BY DEF Kept

\* A new buffer is returned whatever was freed before.
LEMMA NewIsNew ==
    ASSUME NEW n, NEW o, NewOK(n, o)
    PROVE  NewOK(n, NULL)
  BY MemAssumption DEF NewOK

-----------------------------------------------------------------------------
(* One lemma per step: the stage after it.                                 *)

LEMMA LinkStep ==
    ASSUME TypeOK, NEW b \in Buffer, NEW o \in Buffer \cup {NULL}, AtLink(b, o), Link(b)
    PROVE  AtLinkPrev(b, o)'
  <1>1. Do("link", b, <<>>) /\ UNCHANGED <<kind, damage, nomsg, hushed, held>>
    BY DEF Link
  <1>2. PICK x, r : x = Step("link", b)
                    /\ r = Cons(Step("linkPrev", b), Cons(Step("linkLast", b), Frees("FreePool", o, b)))
    OBVIOUS
  <1>3. x \in Steps /\ r \in Seq(Steps) /\ r # <<>>
    <2>1. PICK y, z, u : y = Step("linkPrev", b) /\ z = Step("linkLast", b) /\ u = Frees("FreePool", o, b)
      OBVIOUS
    <2>2. x \in Steps /\ y \in Steps /\ z \in Steps
      BY <1>2, <2>1, StepsAre DEF StepNames
    <2>3. u \in Seq(Steps)
      BY <2>1, PartsAre
    <2>4. Cons(z, u) \in Seq(Steps)
      BY <2>2, <2>3, ConsIs
    <2>5. Cons(y, Cons(z, u)) \in Seq(Steps) /\ Cons(y, Cons(z, u)) # <<>>
      BY <2>2, <2>4, ConsIs
    <2> QED
      BY <1>2, <2>1, <2>2, <2>5
  <1>4. calls' = <<r>>
    <2>1. calls = <<Cons(x, r)>>
      BY <1>2 DEF AtLink
    <2> QED
      BY <1>1, <1>3, <2>1, DoNone
  <1>5. Adding(b, o)'
    BY <1>1, SameBuffers DEF AtLink
  <1>6. PICK N : N = (Kept \cup Due(o)) \ {b}
    OBVIOUS
  <1>7. ((Kept \cup Due(o)) \ {b})' = N
    BY <1>1, <1>6, SameBuffers
  <1>8. Ring(fwd, N) /\ Back(fwd, bwd, N) /\ b \notin N /\ b # ListHead
    BY <1>6, MemAssumption DEF AtLink, List
  <1>9. N \cup {ListHead} \subseteq Node /\ b \in Node /\ ListHead \in Node
    BY <1>8 DEF Ring, Node
  <1>10. /\ \A n \in N \cup {ListHead} : fwd'[n] = fwd[n] /\ bwd'[n] = bwd[n]
         /\ fwd'[b] = ListHead /\ bwd'[b] = bwd[ListHead]
    BY <1>8, <1>9 DEF Link, TypeOK
  <1>11. Ring(fwd', N) /\ Back(fwd', bwd', N)
    BY <1>8, <1>10, ListSame
  <1>12. List((Kept \cup Due(o)) \ {b})'
    BY <1>7, <1>11 DEF List
  <1> QED
    BY <1>2, <1>4, <1>5, <1>10, <1>12 DEF AtLinkPrev, Step, Frees, Returns

LEMMA LinkPrevStep ==
    ASSUME TypeOK, NEW b \in Buffer, NEW o \in Buffer \cup {NULL}, AtLinkPrev(b, o), LinkPrev(b)
    PROVE  AtLinkLast(b, o)'
  <1>1. Do("linkPrev", b, <<>>) /\ UNCHANGED <<kind, damage, nomsg, hushed, held>> /\ bwd' = bwd
    BY DEF LinkPrev
  <1>2. PICK x, r : x = Step("linkPrev", b) /\ r = Cons(Step("linkLast", b), Frees("FreePool", o, b))
    OBVIOUS
  <1>3. x \in Steps /\ r \in Seq(Steps) /\ r # <<>>
    <2>1. PICK z, u : z = Step("linkLast", b) /\ u = Frees("FreePool", o, b)
      OBVIOUS
    <2>2. x \in Steps /\ z \in Steps
      BY <1>2, <2>1, StepsAre DEF StepNames
    <2>3. u \in Seq(Steps)
      BY <2>1, PartsAre
    <2>4. Cons(z, u) \in Seq(Steps) /\ Cons(z, u) # <<>>
      BY <2>2, <2>3, ConsIs
    <2> QED
      BY <1>2, <2>1, <2>2, <2>4
  <1>4. calls' = <<r>>
    <2>1. calls = <<Cons(x, r)>>
      BY <1>2 DEF AtLinkPrev
    <2> QED
      BY <1>1, <1>3, <2>1, DoNone
  <1>5. Adding(b, o)'
    BY <1>1, SameBuffers DEF AtLinkPrev
  <1>6. PICK N : N = (Kept \cup Due(o)) \ {b}
    OBVIOUS
  <1>7. N \cup {b} = Kept \cup Due(o) /\ (Kept \cup Due(o))' = N \cup {b}
    <2>1. b \in Kept
      BY KeptIs, MemAssumption DEF AtLinkPrev, Adding, NewOK
    <2> QED
      BY <1>1, <1>6, <2>1, SameBuffers
  <1>8. /\ Ring(fwd, N) /\ Back(fwd, bwd, N) /\ b \in Buffer \ N
        /\ bwd[b] = bwd[ListHead] /\ fwd[b] = ListHead
    BY <1>6 DEF AtLinkPrev, List
  <1>9. PICK p : p = bwd[ListHead]
    OBVIOUS
  <1>10. p \in N \cup {ListHead} /\ fwd[p] = ListHead
    BY <1>8, <1>9 DEF Back
  <1>11. p \in Node
    BY <1>8, <1>10 DEF Ring, Node
  <1>12. \A n \in Node : fwd'[n] = IF n = p THEN b ELSE fwd[n]
    BY <1>8, <1>9, <1>11 DEF LinkPrev, TypeOK
  <1>13. PICK C : C = [bwd EXCEPT ![ListHead] = b]
    OBVIOUS
  <1>14. \A n \in Node : C[n] = IF n = ListHead THEN b ELSE bwd[n]
    BY <1>13 DEF TypeOK
  <1>15. Ring(fwd', N \cup {b})
    BY <1>8, <1>10, <1>12, RingAdd
  <1>16. Back(fwd', C, N \cup {b})
    BY <1>8, <1>9, <1>12, <1>14, BackAdd
  <1> QED
    BY <1>1, <1>2, <1>4, <1>5, <1>7, <1>13, <1>15, <1>16 DEF AtLinkLast, Step, Frees, Returns

\* The end of a call that frees nothing more.
LEMMA Finished ==
    ASSUME NEW n \in Buffer \cup {NULL}, NewOK(n, NULL)', List(Kept)',
           calls' = IF Returns(n) = <<>> THEN <<>> ELSE <<Returns(n)>>
    PROVE  Stage'
  <1>1. CASE n = NULL
    <2>1. AtRest'
      BY <1>1 DEF AtRest, Returns
    <2> QED
      BY <2>1 DEF Stage
  <1>2. CASE n # NULL
    <2>1. Returns(n) # <<>>
      <3>1. Step("return", n) \in Steps /\ <<>> \in Seq(Steps)
        BY <1>2, StepsAre, EmptySeq DEF StepNames
      <3> QED
        BY <1>2, <3>1, ConsIs DEF Returns
    <2>2. AtReturn(n)'
      BY <1>2, <2>1 DEF AtReturn, Returns, Step
    <2> QED
      BY <1>2, <2>2 DEF Stage
  <1> QED
    BY <1>1, <1>2

LEMMA LinkLastStep ==
    ASSUME TypeOK, NEW b \in Buffer, NEW o \in Buffer \cup {NULL}, AtLinkLast(b, o), LinkLast(b)
    PROVE  Stage'
  <1>1. /\ Do("linkLast", b, <<>>) /\ UNCHANGED <<kind, damage, nomsg, hushed, held>> /\ fwd' = fwd
        /\ bwd' = [bwd EXCEPT ![ListHead] = b]
    BY DEF LinkLast
  <1>2. PICK x, r : x = Step("linkLast", b) /\ r = Frees("FreePool", o, b)
    OBVIOUS
  <1>3. x \in Steps /\ r \in Seq(Steps)
    BY <1>2, StepsAre, PartsAre DEF StepNames
  <1>4. calls' = IF r = <<>> THEN <<>> ELSE <<r>>
    <2>1. calls = <<Cons(x, r)>>
      BY <1>2 DEF AtLinkLast
    <2> QED
      BY <1>1, <1>3, <2>1, DoNone
  <1>5. Adding(b, o)'
    BY <1>1, SameBuffers DEF AtLinkLast
  <1>6. List(Kept \cup Due(o))'
    <2>1. PICK N : N = Kept \cup Due(o)
      OBVIOUS
    <2>2. (Kept \cup Due(o))' = N
      BY <1>1, <2>1, SameBuffers
    <2>3. Ring(fwd', N) /\ Back(fwd', bwd', N)
      BY <1>1, <2>1 DEF AtLinkLast
    <2> QED
      BY <2>2, <2>3 DEF List
  <1>7. CASE o = NULL
    <2>1. r = Returns(b)
      BY <1>2, <1>7 DEF Frees
    <2>2. List(Kept)'
      <3>1. (Kept \cup Due(o))' = Kept'
        BY <1>7, MemAssumption DEF Due
      <3> QED
        BY <1>6, <3>1 DEF List
    <2>3. NewOK(b, NULL)'
      BY <1>5, <1>7 DEF Adding
    <2> QED
      BY <1>4, <2>1, <2>2, <2>3, Finished
  <1>8. CASE o # NULL
    <2>1. r # <<>>
      <3>1. Step("FreePool", o) \in Steps /\ Returns(b) \in Seq(Steps)
        BY <1>8, StepsAre, PartsAre DEF StepNames
      <3> QED
        BY <1>2, <1>8, <3>1, ConsIs DEF Frees
    <2>2. AtFree("FreePool", o, b)'
      BY <1>2, <1>4, <1>5, <1>6, <1>8, <2>1 DEF AtFree, Adding, Frees, Returns, Step
    <2>3. \E do \in {"free", "FreePool"}, c \in Buffer, n \in Buffer \cup {NULL} : AtFree(do, c, n)'
      BY <1>8, <2>2
    <2> QED
      BY <2>3 DEF Stage
  <1> QED
    BY <1>7, <1>8

\* Untracking leads to the first of its two steps.
LEMMA UntrackCalls ==
    ASSUME NEW b \in Buffer, NEW n \in Buffer \cup {NULL}, NEW k \in BOOLEAN, NEW do,
           NEW x \in Steps, calls = <<Cons(x, Returns(n))>>,
           Do(do, b, IF k THEN Append(Untrack(b), Step("pool", b)) ELSE Untrack(b))
    PROVE  calls' = <<Cons(Step("unlinkNext", b), Cons(Step("unlinkPrev", b), GivesBack(k, b, n)))>>
  <1>1. PICK y, z, u, r, e : /\ y = Step("unlinkNext", b) /\ z = Step("unlinkPrev", b)
                             /\ u = Step("pool", b) /\ r = Returns(n) /\ e = <<>>
    OBVIOUS
  <1>2. y \in Steps /\ z \in Steps /\ u \in Steps /\ r \in Seq(Steps) /\ e \in Seq(Steps)
    BY <1>1, StepsAre, PartsAre, EmptySeq DEF StepNames
  <1>3. /\ Untrack(b) = Cons(y, Cons(z, e)) /\ Append(Untrack(b), u) = Cons(y, Cons(z, Cons(u, e)))
    BY <1>1, TracksAre
  <1>4. PICK more : more = IF k THEN Append(Untrack(b), Step("pool", b)) ELSE Untrack(b)
    OBVIOUS
  <1>5. calls' = IF more \o r = <<>> THEN <<>> ELSE <<more \o r>>
    <2>1. calls = <<Cons(x, r)>>
      BY <1>1
    <2>2. Do(do, b, more)
      BY <1>4
    <2> QED
      BY <1>2, <2>1, <2>2, DoIs
  <1>6. e \o r = r
    BY <1>1, <1>2, ConcatEmptySeq
  <1>7. \A w \in Steps, s \in Seq(Steps) : Cons(w, s) \o r = Cons(w, s \o r) /\ Cons(w, s) \in Seq(Steps)
    <2> SUFFICES ASSUME NEW w \in Steps, NEW s \in Seq(Steps)
                 PROVE  Cons(w, s) \o r = Cons(w, s \o r) /\ Cons(w, s) \in Seq(Steps)
      OBVIOUS
    <2>1. Cons(w, s) \in Seq(Steps)
      BY ConsIs
    <2>2. Cons(w, s) \o r = Cons(w, s \o r)
      <3>1. r \in Seq(Steps) /\ <<w>> \in Seq(Steps)
        BY <1>2
      <3> QED
        BY <3>1, ConcatAssociative DEF Cons
    <2> QED
      BY <2>1, <2>2
  <1>8. CASE k
    <2>1. more \o r = Cons(y, Cons(z, Cons(u, r)))
      <3>1. Cons(u, e) \in Seq(Steps) /\ Cons(u, e) \o r = Cons(u, r)
        BY <1>2, <1>6, <1>7
      <3>2. Cons(z, Cons(u, e)) \in Seq(Steps) /\ Cons(z, Cons(u, e)) \o r = Cons(z, Cons(u, r))
        BY ZenonT(30), <1>2, <1>7, <3>1
      <3>3. PICK s : s = Cons(z, Cons(u, e))
        OBVIOUS
      <3>4. s \in Seq(Steps) /\ s \o r = Cons(z, Cons(u, r))
        BY <3>2, <3>3
      <3>5. Cons(y, s) \o r = Cons(y, s \o r)
        BY <1>2, <1>7, <3>4
      <3> QED
        BY <1>1, <1>3, <1>4, <1>8, <3>3, <3>4, <3>5
    <2>2. Cons(y, Cons(z, Cons(u, r))) # <<>>
      <3>1. Cons(u, r) \in Seq(Steps)
        BY <1>2, ConsIs
      <3>2. Cons(z, Cons(u, r)) \in Seq(Steps)
        BY <1>2, <3>1, ConsIs
      <3> QED
        BY <1>2, <3>2, ConsIs
    <2> QED
      BY <1>1, <1>5, <1>8, <2>1, <2>2 DEF GivesBack
  <1>9. CASE ~k
    <2>1. more \o r = Cons(y, Cons(z, r))
      <3>1. Cons(z, e) \in Seq(Steps) /\ Cons(z, e) \o r = Cons(z, r)
        BY ZenonT(30), <1>2, <1>6, <1>7
      <3>2. PICK s : s = Cons(z, e)
        OBVIOUS
      <3>3. s \in Seq(Steps) /\ s \o r = Cons(z, r)
        BY <3>1, <3>2
      <3>4. Cons(y, s) \o r = Cons(y, s \o r)
        BY <1>2, <1>7, <3>3
      <3> QED
        BY <1>3, <1>4, <1>9, <3>2, <3>3, <3>4
    <2>2. Cons(y, Cons(z, r)) # <<>>
      <3>1. Cons(z, r) \in Seq(Steps)
        BY <1>2, ConsIs
      <3> QED
        BY <1>2, <3>1, ConsIs
    <2> QED
      BY <1>1, <1>5, <1>9, <2>1, <2>2 DEF GivesBack
  <1> QED
    BY <1>8, <1>9

LEMMA BeginFreeStep ==
    ASSUME TypeOK, NEW b \in Buffer, NEW do \in {"free", "FreePool"}, NEW n \in Buffer \cup {NULL},
           AtFree(do, b, n), BeginFree(b, do)
    PROVE  Stage'
  <1>1. /\ b \notin held /\ NewOK(n, b) /\ List(Kept \cup Due(b))
        /\ UNCHANGED <<damage, nomsg, hushed, fwd, bwd, held>>
    BY DEF AtFree, OldOK, BeginFree
  <1>2. PICK x, r : x = Step(do, b) /\ r = Returns(n)
    OBVIOUS
  <1>3. x \in Steps /\ r \in Seq(Steps)
    BY <1>2, StepsAre, PartsAre DEF StepNames
  <1>4. calls = <<Cons(x, r)>>
    BY <1>2, MemAssumption DEF AtFree, Frees
  <1>5. PICK untrack : untrack = (Signature(b) = "tracked" /\ damage[b] \in {"tail", "none"})
    OBVIOUS
  <1>6. CASE ~untrack
    <2>1. Do(do, b, <<>>)
      BY <1>5, <1>6 DEF BeginFree
    <2>2. calls' = IF r = <<>> THEN <<>> ELSE <<r>>
      BY <1>3, <1>4, <2>1, DoNone
    <2>3. /\ \A c \in Buffer : c # b => kind'[c] = kind[c]
          /\ kind[b] = "tracked" => kind' = kind
          /\ kind[b] # "tracked" => kind'[b] # "tracked"
      BY DEF BeginFree, Signature, TypeOK
    <2>4. kind[b] = "tracked" => damage[b] # "tail"
      BY <1>5, <1>6 DEF Signature
    <2>5. Kept' = Kept
      BY <1>1, <2>3 DEF Kept
    <2>6. Kept \cup Due(b) = Kept
      BY <2>4, DueIs, KeptIs
    <2>7. List(Kept)'
      BY <1>1, <2>5, <2>6 DEF List
    <2>8. NewOK(n, NULL)'
      BY <1>1, <2>3 DEF NewOK
    <2> QED
      BY <1>2, <2>2, <2>7, <2>8, Finished
  <1>7. CASE untrack
    <2>1. PICK k \in BOOLEAN : k = (damage[b] = "none")
      OBVIOUS
    <2>2. Do(do, b, IF k THEN Append(Untrack(b), Step("pool", b)) ELSE Untrack(b))
      BY <1>5, <1>7, <2>1 DEF BeginFree
    <2>3. kind[b] = "tracked" /\ kind' = kind /\ damage[b] = IF k THEN "none" ELSE "tail"
      BY <1>5, <1>7, <2>1 DEF BeginFree, Signature
    <2>4. Removing(b, n, k)'
      <3>1. Removing(b, n, k)
        BY <1>1, <2>3 DEF Removing, AtFree
      <3> QED
        BY <1>1, <2>3, <3>1, SameBuffers
    <2>5. calls' = <<Cons(Step("unlinkNext", b), Cons(Step("unlinkPrev", b), GivesBack(k, b, n)))>>
      BY <1>2, <1>3, <1>4, <2>2, UntrackCalls
    <2>6. List(Kept \cup {b})'
      <3>1. Kept' = Kept /\ Due(b) = {b}
        BY <1>1, <2>3, SameBuffers, DueIs
      <3> QED
        BY <1>1, <3>1 DEF List
    <2>7. AtUnlinkNext(b, n, k)'
      BY <2>4, <2>5, <2>6 DEF AtUnlinkNext, Step, GivesBack, Returns
    <2> QED
      BY <2>7 DEF Stage
  <1> QED
    BY <1>5, <1>6, <1>7

LEMMA UnlinkNextStep ==
    ASSUME TypeOK, NEW b \in Buffer, NEW n \in Buffer \cup {NULL}, NEW k \in BOOLEAN,
           AtUnlinkNext(b, n, k), UnlinkNext(b)
    PROVE  AtUnlinkPrev(b, n, k)'
  <1>1. /\ Do("unlinkNext", b, <<>>) /\ UNCHANGED <<kind, damage, nomsg, hushed, held>> /\ fwd' = fwd
        /\ bwd' = [bwd EXCEPT ![fwd[b]] = bwd[b]]
    BY DEF UnlinkNext
  <1>2. PICK x, r : x = Step("unlinkNext", b) /\ r = Cons(Step("unlinkPrev", b), GivesBack(k, b, n))
    OBVIOUS
  <1>3. x \in Steps /\ r \in Seq(Steps) /\ r # <<>>
    <2>1. PICK z, u : z = Step("unlinkPrev", b) /\ u = GivesBack(k, b, n)
      OBVIOUS
    <2>2. x \in Steps /\ z \in Steps /\ u \in Seq(Steps)
      BY <1>2, <2>1, StepsAre, PartsAre DEF StepNames
    <2>3. Cons(z, u) \in Seq(Steps) /\ Cons(z, u) # <<>>
      BY <2>2, ConsIs
    <2> QED
      BY <1>2, <2>1, <2>2, <2>3
  <1>4. calls' = <<r>>
    <2>1. calls = <<Cons(x, r)>>
      BY <1>2 DEF AtUnlinkNext
    <2> QED
      BY <1>1, <1>3, <2>1, DoNone
  <1>5. Removing(b, n, k)'
    BY <1>1, SameBuffers DEF AtUnlinkNext
  <1>6. PICK N : N = Kept \cup {b}
    OBVIOUS
  <1>7. Ring(fwd, N) /\ Back(fwd, bwd, N) /\ b \in N
    BY <1>6 DEF AtUnlinkNext, List
  <1>8. N \ {b} = Kept \ {b} /\ Kept' = Kept
    BY <1>1, <1>6, SameBuffers
  <1>9. N \subseteq Node /\ ListHead \in Node
    BY <1>7 DEF Ring, Node
  <1>10. /\ fwd[b] # b /\ fwd[b] \in Node /\ bwd[b] \in Node
    BY <1>7, <1>9, Around
  <1>11. bwd'[b] = bwd[b]
    BY <1>1, <1>7, <1>9, <1>10 DEF TypeOK
  <1>12. PICK G : G = [fwd EXCEPT ![bwd[b]] = fwd[b]]
    OBVIOUS
  <1>13. /\ \A m \in Node : G[m] = IF m = bwd[b] THEN fwd[b] ELSE fwd[m]
         /\ \A m \in Node : bwd'[m] = IF m = fwd[b] THEN bwd[b] ELSE bwd[m]
    BY <1>1, <1>12 DEF TypeOK
  <1>14. Ring(G, N \ {b})
    BY <1>7, <1>13, RingRemove
  <1>15. Back(G, bwd', N \ {b})
    BY <1>7, <1>13, BackRemove
  <1> QED
    BY <1>1, <1>2, <1>4, <1>5, <1>6, <1>7, <1>8, <1>11, <1>12, <1>14, <1>15
       DEF AtUnlinkPrev, Step, GivesBack, Returns

LEMMA UnlinkPrevStep ==
    ASSUME TypeOK, NEW b \in Buffer, NEW n \in Buffer \cup {NULL}, NEW k \in BOOLEAN,
           AtUnlinkPrev(b, n, k), UnlinkPrev(b)
    PROVE  Stage'
  <1>1. /\ Do("unlinkPrev", b, <<>>) /\ UNCHANGED <<kind, damage, nomsg, hushed, held>> /\ bwd' = bwd
        /\ fwd' = [fwd EXCEPT ![bwd[b]] = fwd[b]]
    BY DEF UnlinkPrev
  <1>2. PICK x, r : x = Step("unlinkPrev", b) /\ r = GivesBack(k, b, n)
    OBVIOUS
  <1>3. x \in Steps /\ r \in Seq(Steps)
    BY <1>2, StepsAre, PartsAre DEF StepNames
  <1>4. calls' = IF r = <<>> THEN <<>> ELSE <<r>>
    <2>1. calls = <<Cons(x, r)>>
      BY <1>2 DEF AtUnlinkPrev
    <2> QED
      BY <1>1, <1>3, <2>1, DoNone
  <1>5. Removing(b, n, k) /\ Removing(b, n, k)'
    BY <1>1, SameBuffers DEF AtUnlinkPrev
  <1>6. List(Kept \ {b})'
    <2>1. Kept' = Kept
      BY <1>1, SameBuffers
    <2>2. Ring(fwd', Kept \ {b}) /\ Back(fwd', bwd', Kept \ {b})
      BY <1>1 DEF AtUnlinkPrev
    <2> QED
      BY <2>1, <2>2 DEF List
  <1>7. CASE k
    <2>1. r # <<>>
      <3>1. Step("pool", b) \in Steps /\ Returns(n) \in Seq(Steps)
        BY StepsAre, PartsAre DEF StepNames
      <3> QED
        BY <1>2, <1>7, <3>1, ConsIs DEF GivesBack
    <2>2. Removing(b, n, TRUE)'
      BY <1>5, <1>7
    <2>3. calls' = <<GivesBack(TRUE, b, n)>>
      BY <1>2, <1>4, <1>7, <2>1
    <2>4. AtPool(b, n)'
      BY <1>6, <2>2, <2>3 DEF AtPool, GivesBack, Returns, Step
    <2> QED
      BY <2>4 DEF Stage
  <1>8. CASE ~k
    <2>1. r = Returns(n)
      BY <1>2, <1>8 DEF GivesBack
    <2>2. b \notin Kept
      BY <1>5, <1>8, KeptIs DEF Removing, OldOK
    <2>3. List(Kept)'
      <3>1. (Kept \ {b})' = Kept'
        BY <1>1, <2>2, SameBuffers
      <3> QED
        BY <1>6, <3>1 DEF List
    <2>4. NewOK(n, NULL)'
      <3>1. NewOK(n, NULL)
        BY <1>5, NewIsNew DEF Removing
      <3> QED
        BY <1>1, <3>1, SameBuffers
    <2> QED
      BY <1>4, <2>1, <2>3, <2>4, Finished
  <1> QED
    BY <1>7, <1>8

LEMMA ToPoolStep ==
    ASSUME TypeOK, NEW b \in Buffer, NEW n \in Buffer \cup {NULL}, AtPool(b, n), ToPool(b)
    PROVE  Stage'
  <1>1. /\ Do("pool", b, <<>>) /\ UNCHANGED <<damage, fwd, bwd, held>>
        /\ kind' = [kind EXCEPT ![b] = "free"]
    BY DEF ToPool
  <1>2. PICK x, r : x = Step("pool", b) /\ r = Returns(n)
    OBVIOUS
  <1>3. x \in Steps /\ r \in Seq(Steps)
    BY <1>2, StepsAre, PartsAre DEF StepNames
  <1>4. calls' = IF r = <<>> THEN <<>> ELSE <<r>>
    <2>1. calls = <<Cons(x, r)>>
      BY <1>2 DEF AtPool, GivesBack
    <2> QED
      BY <1>1, <1>3, <2>1, DoNone
  <1>5. \A c \in Buffer : kind'[c] = IF c = b THEN "free" ELSE kind[c]
    BY <1>1 DEF TypeOK
  <1>6. Kept' = Kept \ {b}
    BY <1>1, <1>5 DEF Kept
  <1>7. List(Kept)'
    BY <1>1, <1>6 DEF AtPool, List
  <1>8. NewOK(n, NULL)'
    BY <1>1, <1>5, MemAssumption DEF AtPool, Removing, NewOK
  <1> QED
    BY <1>2, <1>4, <1>7, <1>8, Finished

LEMMA ReturnStep ==
    ASSUME TypeOK, NEW b \in Buffer, AtReturn(b), Return(b)
    PROVE  Stage'
  <1>1. Do("return", b, <<>>) /\ UNCHANGED <<kind, damage, nomsg, hushed, fwd, bwd>> /\ held' = held \cup {b}
    BY DEF Return
  <1>2. PICK x, r : x = Step("return", b) /\ r = <<>>
    OBVIOUS
  <1>3. x \in Steps /\ r \in Seq(Steps)
    BY <1>2, StepsAre, EmptySeq DEF StepNames
  <1>4. calls' = <<>>
    <2>1. calls = <<Cons(x, r)>>
      BY <1>2, MemAssumption DEF AtReturn, Returns
    <2> QED
      BY <1>1, <1>2, <1>3, <2>1, DoNone
  <1>5. Kept' = Kept
    BY <1>1, MemAssumption DEF Kept, AtReturn, NewOK
  <1>6. AtRest'
    BY <1>1, <1>4, <1>5 DEF AtRest, AtReturn, List
  <1> QED
    BY <1>6 DEF Stage

-----------------------------------------------------------------------------
(* One lemma per call that starts.                                         *)

LEMMA AtRestIs ==
    ASSUME Stage, calls = <<>>
    PROVE  List(Kept)
  <1>1. <<>> \in Seq(Steps) /\ \A u : <<u>> # <<>>
    BY EmptySeq
  <1>2. AtRest
    BY <1>1 DEF Stage, AtReturn, AtLink, AtLinkPrev, AtLinkLast, AtFree, AtUnlinkNext, AtUnlinkPrev, AtPool
  <1> QED
    BY <1>2 DEF AtRest

\* A call begins with the list as it is between calls.
LEMMA AllocStep ==
    ASSUME TypeOK, Stage, ~Preempting,
           NEW b \in Buffer, NEW quiet \in BOOLEAN, AllocTracked(b, quiet)
    PROVE  Stage'
  <1>1. /\ kind[b] = "free" /\ UNCHANGED <<fwd, bwd, held>>
        /\ Start(Track(b) \o <<Step("return", b)>>)
        /\ \A c \in Buffer : kind'[c] = IF c = b THEN "tracked" ELSE kind[c]
        /\ \A c \in Buffer : damage'[c] = IF c = b THEN "none" ELSE damage[c]
    BY DEF AllocTracked, FillData, TypeOK, Checks, ToSet
  <1>2. /\ calls = <<>> /\ calls' = <<Track(b) \o <<Step("return", b)>>>>
    BY <1>1, StartIs
  <1>3. List(Kept)
    BY <1>2, AtRestIs
  <1>4. b \notin Kept
    BY <1>1, KeptIs
  <1>5. Kept' = Kept \cup {b} /\ (Due(NULL))' = {}
    BY <1>1, MemAssumption DEF Kept, Due
  <1>6. ((Kept \cup Due(NULL)) \ {b})' = Kept
    BY <1>4, <1>5
  <1>7. List((Kept \cup Due(NULL)) \ {b})'
    BY <1>1, <1>3, <1>6 DEF List
  <1>8. Adding(b, NULL)'
    BY <1>1, MemAssumption DEF Adding, OldOK, NewOK, TypeOK
  <1>9. Track(b) \o <<Step("return", b)>> =
           Cons(Step("link", b), Cons(Step("linkPrev", b), Cons(Step("linkLast", b), Frees("FreePool", NULL, b))))
    BY TrackThen, MemAssumption DEF Frees, Returns
  <1>10. AtLink(b, NULL)'
    BY <1>2, <1>7, <1>8, <1>9 DEF AtLink, Frees, Returns, Step
  <1> QED
    BY <1>10 DEF Stage

LEMMA FreeStep ==
    ASSUME TypeOK, Stage, ~Preempting,
           NEW b \in Buffer, NEW do \in {"free", "FreePool"}, Free(b, do)
    PROVE  Stage'
  <1>1. /\ b \in held /\ UNCHANGED <<kind, damage, nomsg, hushed, fwd, bwd>> /\ held' = held \ {b}
        /\ Start(<<Step(do, b)>>)
    BY DEF Free
  <1>2. calls = <<>> /\ calls' = <<<<Step(do, b)>>>>
    BY <1>1, StartIs
  <1>3. List(Kept)
    BY <1>2, AtRestIs
  <1>4. (Kept \cup Due(b))' = Kept
    BY <1>1 DEF Kept, Due
  <1>5. List(Kept \cup Due(b))'
    BY <1>1, <1>3, <1>4 DEF List
  <1>6. OldOK(b)' /\ NewOK(NULL, b)'
    BY <1>1 DEF OldOK, NewOK
  <1>7. <<Step(do, b)>> = Frees(do, b, NULL)
    <2>1. Step(do, b) \in Steps
      BY StepsAre DEF StepNames
    <2>2. <<Step(do, b)>> = Cons(Step(do, b), <<>>)
      BY <2>1, TupleIs
    <2> QED
      BY <2>2, MemAssumption DEF Frees, Returns
  <1>8. AtFree(do, b, NULL)'
    BY <1>2, <1>5, <1>6, <1>7 DEF AtFree, Frees, Returns, Step
  <1> QED
    BY <1>8 DEF Stage

LEMMA ReallocStep ==
    ASSUME TypeOK, Stage, ~Preempting,
           NEW o \in Buffer, NEW n \in Buffer, ReallocTracked(o, n)
    PROVE  Stage'
  <1>1. /\ o \in held /\ held' = held \ {o} /\ UNCHANGED <<fwd, bwd>>
        /\ kind[n] = "free" /\ n # o /\ n # NULL /\ o # NULL
    BY MemAssumption DEF ReallocTracked, Request
  <1>2. /\ \A c \in Buffer : c # n => kind'[c] = kind[c] /\ damage'[c] = damage[c]
                                /\ nomsg'[c] = nomsg[c]
        /\ damage'[n] = "none"
    BY <1>1 DEF ReallocTracked, FillData, TypeOK
  <1>3. OldOK(o)'
    BY <1>1 DEF OldOK
  <1>4. Step("FreePool", o) \in Steps /\ Step("return", n) \in Steps
    BY StepsAre DEF StepNames
  <1>5. <<Step("FreePool", o), Step("return", n)>> = Frees("FreePool", o, n)
    <2>1. <<Step("FreePool", o), Step("return", n)>> = Cons(Step("FreePool", o), Cons(Step("return", n), <<>>))
      BY <1>4, TupleIs
    <2> QED
      BY <1>1, <2>1 DEF Frees, Returns
  <1>6. calls = <<>>
    BY DEF ReallocTracked, Start, MayCall
  <1>7. List(Kept)
    BY <1>6, AtRestIs
  <1>8. n \notin Kept
    BY <1>1, KeptIs
  <1>9. CASE kind'[n] = "tracked"
    <2>1. NewOK(n, o)'
      BY <1>1, <1>2, <1>9 DEF NewOK, ReallocTracked, FillData, StrayFlags, Signature, TypeOK
    <2>2. Start(Track(n) \o <<Step("FreePool", o), Step("return", n)>>)
      BY <1>9 DEF ReallocTracked, TypeOK
    <2>3. calls' = <<Track(n) \o <<Step("FreePool", o), Step("return", n)>>>>
      BY <2>2, StartIs
    <2>4. Track(n) \o <<Step("FreePool", o), Step("return", n)>> =
            Cons(Step("link", n), Cons(Step("linkPrev", n), Cons(Step("linkLast", n), Frees("FreePool", o, n))))
      BY <1>1, TrackThen DEF Frees, Returns
    <2>5. ((Kept \cup Due(o)) \ {n})' = Kept
      BY <1>1, <1>2, <1>8 DEF Kept, Due
    <2>6. List((Kept \cup Due(o)) \ {n})'
      BY <1>1, <1>7, <2>5 DEF List
    <2>7. Adding(n, o)'
      BY <1>3, <1>9, <2>1 DEF Adding
    <2>8. AtLink(n, o)'
      BY <2>3, <2>4, <2>6, <2>7 DEF AtLink, Frees, Returns, Step
    <2> QED
      BY <2>8 DEF Stage
  <1>10. CASE kind'[n] # "tracked"
    <2>1. /\ StrayFlags(o) /\ Start(<<Step("FreePool", o), Step("return", n)>>)
      BY <1>10 DEF ReallocTracked, FillData, TypeOK
    <2>2. NewOK(n, o)'
      BY <1>1, <1>2, <1>10, <2>1 DEF NewOK, StrayFlags, Signature
    <2>3. calls' = <<<<Step("FreePool", o), Step("return", n)>>>>
      BY <2>1, StartIs
    <2>4. (Kept \cup Due(o))' = Kept
      BY <1>1, <1>2, <1>8, <1>10 DEF Kept, Due
    <2>5. List(Kept \cup Due(o))'
      BY <1>1, <1>7, <2>4 DEF List
    <2>6. AtFree("FreePool", o, n)'
      BY <1>3, <1>5, <2>2, <2>3, <2>5 DEF AtFree, Frees, Returns, Step
    <2> QED
      BY <2>6 DEF Stage
  <1> QED
    BY <1>9, <1>10

\* A call that is over at once, and a stray write.
LEMMA AtOnce ==
    ASSUME TypeOK, Stage, ~Preempting,
           \/ \E b \in Buffer, k \in {"uefi", "c"} : AllocDirect(b, k)
           \/ \E b \in Buffer, n \in Buffer : ReallocDirect(b, n)
           \/ \E b \in Buffer, part \in ToSet(Checks) \ {"head"} : Damage(b, part)
           \/ \E b \in Buffer, flag \in BOOLEAN : DamageHeader(b, flag)
    PROVE  Stage'
  <1>1. calls = <<>> /\ UNCHANGED <<calls, fwd, bwd>>
    BY DEF AllocDirect, ReallocDirect, Damage, DamageHeader, MayCall
  <1>2. List(Kept)
    BY <1>1, AtRestIs
  <1>3. Kept' = Kept
    <2>1. ASSUME NEW b \in Buffer, NEW k \in {"uefi", "c"}, AllocDirect(b, k)
          PROVE  Kept' = Kept
      BY <2>1 DEF AllocDirect, Kept, TypeOK
    <2>2. ASSUME NEW b \in Buffer, NEW n \in Buffer, ReallocDirect(b, n)
          PROVE  Kept' = Kept
      BY <2>2 DEF ReallocDirect, Request, Signature, Kept, TypeOK
    <2>3. ASSUME NEW b \in Buffer, NEW part \in ToSet(Checks) \ {"head"}, Damage(b, part)
          PROVE  Kept' = Kept
      BY <2>3 DEF Damage, Kept, TypeOK
    <2>4. ASSUME NEW b \in Buffer, NEW flag \in BOOLEAN, DamageHeader(b, flag)
          PROVE  Kept' = Kept
      BY <2>4 DEF DamageHeader, Kept, TypeOK
    <2> QED
      BY <2>1, <2>2, <2>3, <2>4
  <1>4. AtRest'
    BY <1>1, <1>2, <1>3 DEF AtRest, List
  <1> QED
    BY <1>4 DEF Stage

-----------------------------------------------------------------------------
(* The invariant, where no notification function calls the library.        *)

LEMMA SameStage ==
    ASSUME Stage, UNCHANGED <<kind, damage, nomsg, hushed, fwd, bwd, held, calls>>
    PROVE  Stage'
  <1>1. UNCHANGED <<kind, damage, nomsg, hushed, held>> /\ calls' = calls /\ fwd' = fwd /\ bwd' = bwd
    OBVIOUS
  <1>2. /\ Kept' = Kept
        /\ \A o : Due(o)' = Due(o) /\ (OldOK(o) => OldOK(o)')
        /\ \A n, o : NewOK(n, o) => NewOK(n, o)'
        /\ \A b, o : Adding(b, o) => Adding(b, o)'
        /\ \A b, n, k : Removing(b, n, k) => Removing(b, n, k)'
    BY <1>1, SameBuffers
  <1>3. AtRest => AtRest'
    BY <1>1, <1>2 DEF AtRest, List
  <1>4. \A b : AtReturn(b) => AtReturn(b)'
    BY <1>1, <1>2 DEF AtReturn, List, Returns, Step
  <1>5. \A b, o : AtLink(b, o) => AtLink(b, o)'
    BY <1>1, <1>2 DEF AtLink, List, Frees, Returns, Step
  <1>6. \A b, o : AtLinkPrev(b, o) => AtLinkPrev(b, o)'
    BY <1>1, <1>2 DEF AtLinkPrev, List, Frees, Returns, Step
  <1>7. \A b, o : AtLinkLast(b, o) => AtLinkLast(b, o)'
    BY <1>1, <1>2 DEF AtLinkLast, Frees, Returns, Step
  <1>8. \A do, b, n : AtFree(do, b, n) => AtFree(do, b, n)'
    BY <1>1, <1>2 DEF AtFree, List, Frees, Returns, Step
  <1>9. \A b, n, k : AtUnlinkNext(b, n, k) => AtUnlinkNext(b, n, k)'
    BY <1>1, <1>2 DEF AtUnlinkNext, List, GivesBack, Returns, Step
  <1>10. \A b, n, k : AtUnlinkPrev(b, n, k) => AtUnlinkPrev(b, n, k)'
    BY <1>1, <1>2 DEF AtUnlinkPrev, GivesBack, Returns, Step
  <1>11. \A b, n : AtPool(b, n) => AtPool(b, n)'
    BY <1>1, <1>2 DEF AtPool, List, GivesBack, Returns, Step
  <1> QED
    BY <1>3, <1>4, <1>5, <1>6, <1>7, <1>8, <1>9, <1>10, <1>11 DEF Stage

LEMMA StageStep ==
    ASSUME TypeOK, Stage, ~Preempting, Next, cut' = FALSE
    PROVE  Stage'
  <1>1. ASSUME NEW b \in Buffer, NEW do \in {"free", "FreePool"}, BeginFree(b, do)
        PROVE  Stage'
    <2>1. PICK more : Do(do, b, more)
      BY <1>1 DEF BeginFree
    <2>2. PICK n \in Buffer \cup {NULL} : AtFree(do, b, n)
      BY <2>1, StageIs
    <2> QED
      BY <1>1, <2>2, BeginFreeStep
  <1>2. ASSUME NEW b \in Buffer, Link(b)
        PROVE  Stage'
    <2>1. Do("link", b, <<>>)
      BY <1>2 DEF Link
    <2>2. PICK o \in Buffer \cup {NULL} : AtLink(b, o)
      BY <2>1, StageIs
    <2>3. AtLinkPrev(b, o)'
      BY <1>2, <2>2, LinkStep
    <2> QED
      BY <2>3 DEF Stage
  <1>3. ASSUME NEW b \in Buffer, LinkPrev(b)
        PROVE  Stage'
    <2>1. Do("linkPrev", b, <<>>)
      BY <1>3 DEF LinkPrev
    <2>2. PICK o \in Buffer \cup {NULL} : AtLinkPrev(b, o)
      BY <2>1, StageIs
    <2>3. AtLinkLast(b, o)'
      BY <1>3, <2>2, LinkPrevStep
    <2> QED
      BY <2>3 DEF Stage
  <1>4. ASSUME NEW b \in Buffer, LinkLast(b)
        PROVE  Stage'
    <2>1. Do("linkLast", b, <<>>)
      BY <1>4 DEF LinkLast
    <2>2. PICK o \in Buffer \cup {NULL} : AtLinkLast(b, o)
      BY <2>1, StageIs
    <2> QED
      BY <1>4, <2>2, LinkLastStep
  <1>5. ASSUME NEW b \in Buffer, UnlinkNext(b)
        PROVE  Stage'
    <2>1. Do("unlinkNext", b, <<>>)
      BY <1>5 DEF UnlinkNext
    <2>2. PICK n \in Buffer \cup {NULL}, k \in BOOLEAN : AtUnlinkNext(b, n, k)
      BY <2>1, StageIs
    <2>3. AtUnlinkPrev(b, n, k)'
      BY <1>5, <2>2, UnlinkNextStep
    <2> QED
      BY <2>3 DEF Stage
  <1>6. ASSUME NEW b \in Buffer, UnlinkPrev(b)
        PROVE  Stage'
    <2>1. Do("unlinkPrev", b, <<>>)
      BY <1>6 DEF UnlinkPrev
    <2>2. PICK n \in Buffer \cup {NULL}, k \in BOOLEAN : AtUnlinkPrev(b, n, k)
      BY <2>1, StageIs
    <2> QED
      BY <1>6, <2>2, UnlinkPrevStep
  <1>7. ASSUME NEW b \in Buffer, ToPool(b)
        PROVE  Stage'
    <2>1. Do("pool", b, <<>>)
      BY <1>7 DEF ToPool
    <2>2. PICK n \in Buffer \cup {NULL} : AtPool(b, n)
      BY <2>1, StageIs
    <2> QED
      BY <1>7, <2>2, ToPoolStep
  <1>8. ASSUME NEW b \in Buffer, Return(b)
        PROVE  Stage'
    <2>1. Do("return", b, <<>>)
      BY <1>8 DEF Return
    <2>2. AtReturn(b)
      BY <2>1, StageIs
    <2> QED
      BY <1>8, <2>2, ReturnStep
  <1>9. ASSUME UNCHANGED <<kind, damage, nomsg, hushed, fwd, bwd, held, calls>>
        PROVE  Stage'
    BY <1>9, SameStage
  <1>10. CASE Deconstruct
    BY <1>9, <1>10 DEF Deconstruct
  <1>11. ASSUME NEW b \in Buffer, ReallocRefused(b)
         PROVE  Stage'
    BY <1>9, <1>11 DEF ReallocRefused, vars
  <1>12. ASSUME NEW b \in Buffer, NEW next \in Node, NEW prev \in Node, DamageLinks(b, next, prev)
         PROVE  FALSE
    BY <1>12 DEF DamageLinks
  <1>13. ASSUME \/ \E b \in Buffer, k \in {"uefi", "c"} : AllocDirect(b, k)
                \/ \E b \in Buffer, n \in Buffer : ReallocDirect(b, n)
                \/ \E b \in Buffer, part \in ToSet(Checks) \ {"head"} : Damage(b, part)
                \/ \E b \in Buffer, flag \in BOOLEAN : DamageHeader(b, flag)
         PROVE  Stage'
    BY <1>13, AtOnce
  <1>14. \/ Deconstruct
         \/ \E b \in Buffer : Link(b) \/ LinkPrev(b) \/ LinkLast(b)
         \/ \E b \in Buffer : UnlinkNext(b) \/ UnlinkPrev(b) \/ ToPool(b) \/ Return(b)
         \/ \E b \in Buffer, do \in {"free", "FreePool"} : Free(b, do) \/ BeginFree(b, do)
         \/ \E b \in Buffer, quiet \in BOOLEAN : AllocTracked(b, quiet)
         \/ \E b \in Buffer, n \in Buffer : ReallocTracked(b, n)
         \/ \E b \in Buffer : ReallocRefused(b)
         \/ \E b \in Buffer, k \in {"uefi", "c"} : AllocDirect(b, k)
         \/ \E b \in Buffer, n \in Buffer : ReallocDirect(b, n)
         \/ \E b \in Buffer, part \in ToSet(Checks) \ {"head"} : Damage(b, part)
         \/ \E b \in Buffer, flag \in BOOLEAN : DamageHeader(b, flag)
         \/ \E b \in Buffer, next, prev \in Node : DamageLinks(b, next, prev)
    BY Zenon DEF Next
  <1>15. CASE \E b \in Buffer : Link(b) \/ LinkPrev(b) \/ LinkLast(b)
    BY <1>2, <1>3, <1>4, <1>15
  <1>16. CASE \E b \in Buffer : UnlinkNext(b) \/ UnlinkPrev(b) \/ ToPool(b) \/ Return(b)
    BY <1>5, <1>6, <1>7, <1>8, <1>16
  <1>17. CASE \E b \in Buffer, do \in {"free", "FreePool"} : Free(b, do) \/ BeginFree(b, do)
    BY <1>1, <1>17, FreeStep
  <1>18. CASE \E b \in Buffer, quiet \in BOOLEAN : AllocTracked(b, quiet)
    BY <1>18, AllocStep
  <1>19. CASE \E b \in Buffer, n \in Buffer : ReallocTracked(b, n)
    BY <1>19, ReallocStep
  <1> QED
    BY <1>10, <1>11, <1>12, <1>13, <1>14, <1>15, <1>16, <1>17, <1>18, <1>19

\* Nothing is done after the report.
LEMMA ReportIsLast ==
    ASSUME report # NULL, calls = <<>>, Next
    PROVE  FALSE
  <1>1. \A do, b, more : ~Do(do, b, more)
    BY DEF Do
  <1>2. ~MayCall
    BY DEF MayCall
  <1> QED
    BY <1>1, <1>2, ZenonT(40) DEF Next, AllocTracked, AllocDirect, Free, ReallocDirect, ReallocTracked, ReallocRefused,
                      Link, LinkPrev, LinkLast, BeginFree, UnlinkNext, UnlinkPrev, ToPool, Return,
                      Damage, DamageHeader, DamageLinks, Deconstruct, Start

\* Overwritten links stay overwritten.
LEMMA CutStays ==
    ASSUME Next
    PROVE  cut' = cut \/ cut' = TRUE
  BY DEF Next, AllocTracked, AllocDirect, Free, ReallocDirect, ReallocTracked, ReallocRefused,
         Link, LinkPrev, LinkLast, BeginFree, UnlinkNext, UnlinkPrev, ToPool, Return,
         Damage, DamageHeader, DamageLinks, Deconstruct, vars

\* Where a program has the library to itself, the list is at every step of a
\* call what the rest of the call takes it to be, until a stray write hits the
\* links of an entry.
THEOREM Invariance ==
    ASSUME ~Preempting
    PROVE  Spec => []LinkedInv
  <1>1. Init => IInv
    <2> SUFFICES ASSUME Init
                 PROVE  IInv
      OBVIOUS
    <2>1. TypeOK
      <3>1. "none" \in ToSet(Checks) /\ "free" \in Kinds /\ ListHead \in Node
        BY DEF Checks, ToSet, Kinds, Node
      <3>2. calls \in Seq(Seq([do : StepNames, buf : Buffer])) /\ Len(calls) <= 2
        BY EmptySeq DEF Init
      <3> QED
        BY <3>1, <3>2 DEF Init, TypeOK
    <2>2. Kept = {}
      BY DEF Init, Kept
    <2>3. Ring(fwd, {}) /\ Back(fwd, bwd, {})
      BY DEF Init, Ring, Back, ClosedUnder, Node
    <2>4. AtRest
      BY <2>2, <2>3 DEF Init, AtRest, List
    <2> QED
      BY <2>1, <2>4 DEF Init, IInv, Stage
  <1>2. TypeOK' /\ IInv /\ [Next]_vars /\ cut' = FALSE => IInv'
    <2> SUFFICES ASSUME TypeOK', IInv, [Next]_vars, cut' = FALSE
                 PROVE  IInv'
      OBVIOUS
    <2>1. CASE UNCHANGED vars
      <3>1. UNCHANGED <<kind, damage, nomsg, hushed, fwd, bwd, held, calls, report>>
        BY <2>1 DEF vars
      <3> QED
        BY <3>1, SameStage, SameBuffers DEF IInv, TypeOK
    <2>2. CASE Next
      <3>1. report = NULL
        BY <2>2, ReportIsLast DEF IInv
      <3>2. Stage'
        BY <2>2, StageStep DEF IInv
      <3>3. report' # NULL => Deconstruct
        BY <2>2, <3>1 DEF Next, AllocTracked, AllocDirect, Free, ReallocDirect, ReallocTracked,
                  ReallocRefused, Link, LinkPrev, LinkLast, BeginFree, UnlinkNext, UnlinkPrev,
                  ToPool, Return, Damage, DamageHeader, DamageLinks, vars
      <3>4. Deconstruct => /\ calls' = <<>> /\ report' = {b \in Kept : ~hushed[b]}
                           /\ Kept' = Kept /\ hushed' = hushed
        <4> SUFFICES ASSUME Deconstruct
                     PROVE  /\ calls' = <<>> /\ report' = {b \in Kept : ~hushed[b]}
                            /\ Kept' = Kept /\ hushed' = hushed
          OBVIOUS
        <4>1. UNCHANGED <<kind, damage, nomsg, hushed, held, calls>> /\ calls = <<>>
          BY DEF Deconstruct
        <4>2. Listed = Kept
          BY <4>1, AtRestIs, ListedIs DEF IInv, List
        <4> QED
          BY <4>1, <4>2, SameBuffers DEF Deconstruct
      <3> QED
        BY <3>2, <3>3, <3>4 DEF IInv
    <2> QED
      BY <2>1, <2>2
  <1>3. TypeOK' /\ LinkedInv /\ [Next]_vars => LinkedInv'
    <2> SUFFICES ASSUME TypeOK', LinkedInv, [Next]_vars, cut' = FALSE
                 PROVE  IInv'
      BY DEF LinkedInv, TypeOK
    <2>1. cut = FALSE
      BY CutStays DEF LinkedInv, TypeOK, vars
    <2> QED
      BY <1>2, <2>1 DEF LinkedInv
  <1>4. Init => LinkedInv
    BY <1>1 DEF LinkedInv, IInv
  <1>5. Spec => []TypeOK
    BY TypeCorrect
  <1> QED
    BY <1>3, <1>4, <1>5, PTL DEF Spec

\* The report names the tracked buffers that are still in use or that a free
\* refused to touch, except the ones that were allocated with
\* MEMCHECK_FLAG_NOMSG: whatever was overwritten but links and, for the buffer
\* concerned, that flag in the header.
THEOREM ReportNamesLeaks ==
    ASSUME ~Preempting
    PROVE  Spec => []ReportIsExact
  <1>1. LinkedInv => ReportIsExact
    <2> SUFFICES ASSUME LinkedInv, report # NULL, ~cut
                 PROVE  /\ report \subseteq Kept
                        /\ \A b \in Kept : hushed[b] = nomsg[b] => (b \in report <=> ~nomsg[b])
      BY DEF ReportIsExact
    <2>1. report = {b \in Kept : ~hushed[b]}
      BY DEF LinkedInv, IInv
    <2> QED
      BY <2>1
  <1> QED
    BY <1>1, Invariance, PTL

\* At every stage of a call the list is a ring of tracked buffers.
LEMMA StageIsRing ==
    ASSUME Stage
    PROVE  \E N \in SUBSET Buffer : Ring(fwd, N) /\ \A b \in N : kind[b] = "tracked"
  <1>1. /\ \A b \in Kept : b \in Buffer /\ kind[b] = "tracked"
        /\ \A o : \A b \in Due(o) : b \in Buffer /\ kind[b] = "tracked"
    BY DEF Kept, Due
  <1>2. \A N : Ring(fwd, N) /\ (\A b \in N : kind[b] = "tracked")
               => \E M \in SUBSET Buffer : Ring(fwd, M) /\ \A b \in M : kind[b] = "tracked"
    BY DEF Ring
  <1>3. AtRest => Ring(fwd, Kept)
    BY DEF AtRest, List
  <1>4. \A b : AtReturn(b) => Ring(fwd, Kept)
    BY DEF AtReturn, List
  <1>5. \A b, o : AtLink(b, o) \/ AtLinkPrev(b, o) => Ring(fwd, (Kept \cup Due(o)) \ {b})
    BY DEF AtLink, AtLinkPrev, List
  <1>6. \A b, o : AtLinkLast(b, o) => Ring(fwd, Kept \cup Due(o))
    BY DEF AtLinkLast
  <1>7. \A do, b, n : AtFree(do, b, n) => Ring(fwd, Kept \cup Due(b))
    BY DEF AtFree, List
  <1>8. \A b, n, k : AtUnlinkNext(b, n, k) \/ AtUnlinkPrev(b, n, k)
                     => Ring(fwd, Kept \cup {b}) /\ kind[b] = "tracked"
    BY DEF AtUnlinkNext, AtUnlinkPrev, Removing, List
  <1>9. \A b, n : AtPool(b, n) => Ring(fwd, Kept \ {b})
    BY DEF AtPool, List
  <1>10. \/ Ring(fwd, Kept)
         \/ \E b, o : Ring(fwd, (Kept \cup Due(o)) \ {b})
         \/ \E o : Ring(fwd, Kept \cup Due(o))
         \/ \E b : Ring(fwd, Kept \cup {b}) /\ kind[b] = "tracked"
         \/ \E b : Ring(fwd, Kept \ {b})
    BY <1>3, <1>4, <1>5, <1>6, <1>7, <1>8, <1>9 DEF Stage
  <1>11. CASE Ring(fwd, Kept)
    BY <1>1, <1>2, <1>11
  <1>12. CASE \E b, o : Ring(fwd, (Kept \cup Due(o)) \ {b})
    <2>1. PICK b, o : Ring(fwd, (Kept \cup Due(o)) \ {b})
      BY <1>12
    <2>2. \A c \in (Kept \cup Due(o)) \ {b} : kind[c] = "tracked"
      BY <1>1
    <2> QED
      BY <1>2, <2>1, <2>2
  <1>13. CASE \E o : Ring(fwd, Kept \cup Due(o))
    <2>1. PICK o : Ring(fwd, Kept \cup Due(o))
      BY <1>13
    <2>2. \A c \in Kept \cup Due(o) : kind[c] = "tracked"
      BY <1>1
    <2> QED
      BY <1>2, <2>1, <2>2
  <1>14. CASE \E b : Ring(fwd, Kept \cup {b}) /\ kind[b] = "tracked"
    <2>1. PICK b : Ring(fwd, Kept \cup {b}) /\ kind[b] = "tracked"
      BY <1>14
    <2>2. \A c \in Kept \cup {b} : kind[c] = "tracked"
      BY <1>1, <2>1
    <2> QED
      BY <1>2, <2>1, <2>2
  <1>15. CASE \E b : Ring(fwd, Kept \ {b})
    <2>1. PICK b : Ring(fwd, Kept \ {b})
      BY <1>15
    <2>2. \A c \in Kept \ {b} : kind[c] = "tracked"
      BY <1>1
    <2> QED
      BY <1>2, <2>1, <2>2
  <1> QED
    BY <1>10, <1>11, <1>12, <1>13, <1>14, <1>15

\* A walk of the list never meets memory that was given back or that is not
\* tracked, wherever a call is, unless a stray write has hit the links of an entry.
THEOREM WalkMeetsTracked ==
    ASSUME ~Preempting
    PROVE  Spec => []ListedIsTracked
  <1>1. LinkedInv => ListedIsTracked
    <2> SUFFICES ASSUME IInv
                 PROVE  ListedIsTracked
      BY DEF LinkedInv, ListedIsTracked
    <2>1. PICK N \in SUBSET Buffer : Ring(fwd, N) /\ \A b \in N : kind[b] = "tracked"
      BY StageIsRing DEF IInv
    <2>2. Listed = N
      BY <2>1, ListedIs
    <2> QED
      BY <2>1, <2>2 DEF ListedIsTracked
  <1> QED
    BY <1>1, Invariance, PTL

\* The buffers that a call is still to free with FreePool and to return.
Ends(t, o, n) ==
    \A j \in DOMAIN t : /\ t[j].do = "FreePool" => o # NULL /\ t[j].buf = o
                        /\ t[j].do = "return" => n # NULL /\ t[j].buf = n

LEMMA ConsEnds ==
    ASSUME NEW do \in StepNames, NEW b \in Buffer, NEW r \in Seq(Steps), NEW o, NEW n, Ends(r, o, n),
           do = "FreePool" => o # NULL /\ b = o,
           do = "return" => n # NULL /\ b = n
    PROVE  /\ Ends(Cons(Step(do, b), r), o, n)
           /\ Cons(Step(do, b), r)[1].do = do
           /\ Cons(Step(do, b), r) \in Seq(Steps)
  <1>1. PICK x, t : x = Step(do, b) /\ t = Cons(x, r)
    OBVIOUS
  <1>2. x \in Steps /\ x.do = do /\ x.buf = b
    BY <1>1, StepsAre DEF Step
  <1>3. t \in Seq(Steps) /\ t # <<>> /\ Head(t) = x /\ Tail(t) = r
    BY <1>1, <1>2, ConsIs
  <1>4. t[1] = x
    BY <1>3
  <1>5. \A j \in DOMAIN t : j # 1 => j - 1 \in DOMAIN r /\ t[j] = r[j - 1]
    <2>1. Len(t) \in Nat /\ Len(t) >= 1 /\ DOMAIN t = 1 .. Len(t)
      BY <1>3, LenProperties
    <2>2. Len(Tail(t)) = Len(t) - 1 /\ \A i \in 1 .. Len(t) - 1 : Tail(t)[i] = t[i + 1]
      BY <1>3, <2>1, HeadTailProperties
    <2>3. DOMAIN r = 1 .. Len(t) - 1
      BY <1>3, <2>2, LenProperties
    <2> SUFFICES ASSUME NEW j \in DOMAIN t, j # 1
                 PROVE  j - 1 \in DOMAIN r /\ t[j] = r[j - 1]
      OBVIOUS
    <2>4. j - 1 \in 1 .. Len(t) - 1 /\ (j - 1) + 1 = j
      BY <2>1
    <2> QED
      BY <1>3, <2>2, <2>3, <2>4
  <1>6. Ends(t, o, n)
    BY <1>2, <1>4, <1>5 DEF Ends
  <1> QED
    BY <1>1, <1>2, <1>3, <1>4, <1>6

LEMMA ReturnsEnds ==
    ASSUME NEW o, NEW n \in Buffer \cup {NULL}
    PROVE  /\ Returns(n) \in Seq(Steps) /\ Ends(Returns(n), o, n)
           /\ n # NULL => Returns(n)[1].do = "return"
  <1>1. PICK e : e = <<>>
    OBVIOUS
  <1>2. e \in Seq(Steps) /\ Ends(e, o, n)
    BY <1>1, EmptySeq DEF Ends
  <1>3. CASE n = NULL
    BY <1>1, <1>2, <1>3 DEF Returns
  <1>4. CASE n # NULL
    <2>1. /\ Ends(Cons(Step("return", n), e), o, n)
          /\ Cons(Step("return", n), e)[1].do = "return"
          /\ Cons(Step("return", n), e) \in Seq(Steps)
      BY <1>2, <1>4, ConsEnds DEF StepNames
    <2> QED
      BY <1>1, <1>4, <2>1 DEF Returns
  <1> QED
    BY <1>3, <1>4

\* What the property asks of the one call in progress.
LEMMA KeepsTracking ==
    ASSUME NEW t \in Seq(Steps), calls = <<t>>, NEW o, NEW n, Ends(t, o, n), NewOK(n, o),
           t # <<>> /\ t[1].do = "FreePool" /\ n # NULL /\ kind[o] = "tracked" /\ kind[n] = "tracked"
              => o \in Listed /\ n \in Listed
    PROVE  ReallocKeepsTracking
  <1>1. DOMAIN calls = {1} /\ calls[1] = t
    OBVIOUS
  <1> SUFFICES ASSUME NEW j \in DOMAIN t, NEW k \in DOMAIN t,
                      t[j].do = "FreePool", t[k].do = "return",
                      kind[t[j].buf] = "tracked", damage[t[j].buf] \notin {"up", "mid"}
               PROVE  /\ kind[t[k].buf] = "tracked" /\ nomsg[t[k].buf] = nomsg[t[j].buf]
                      /\ hushed[t[k].buf] = nomsg[t[j].buf]
                      /\ j = 1 => {t[j].buf, t[k].buf} \subseteq Listed
    BY <1>1 DEF ReallocKeepsTracking
  <1>2. o # NULL /\ n # NULL /\ t[j].buf = o /\ t[k].buf = n /\ t # <<>>
    BY DEF Ends
  <1>3. kind[n] = "tracked" /\ nomsg[n] = nomsg[o] /\ hushed[n] = nomsg[o]
    BY <1>2 DEF NewOK
  <1>4. j = 1 => o \in Listed /\ n \in Listed
    BY <1>2, <1>3
  <1> QED
    BY <1>2, <1>3, <1>4

\* A reallocation never gives the old buffer back before the new one is on the
\* list, and the new one has the flags of the old.
THEOREM ReallocKeeps ==
    ASSUME ~Preempting
    PROVE  Spec => []ReallocKeepsTracking
  <1>1. Stage => ReallocKeepsTracking
    <2> SUFFICES ASSUME Stage
                 PROVE  ReallocKeepsTracking
      OBVIOUS
    <2>1. ASSUME AtRest
          PROVE  ReallocKeepsTracking
      BY <2>1 DEF AtRest, ReallocKeepsTracking
    <2>2. ASSUME NEW b \in Buffer, AtReturn(b)
          PROVE  ReallocKeepsTracking
      <3>1. Returns(b) \in Seq(Steps) /\ Ends(Returns(b), NULL, b) /\ Returns(b)[1].do = "return"
        BY ReturnsEnds, MemAssumption
      <3> QED
        BY <2>2, <3>1, KeepsTracking DEF AtReturn
    <2>3. ASSUME NEW o \in Buffer, NEW n \in Buffer \cup {NULL}, AtFree("FreePool", o, n)
          PROVE  ReallocKeepsTracking
      <3>1. Returns(n) \in Seq(Steps) /\ Ends(Returns(n), o, n)
        BY ReturnsEnds
      <3>2. PICK t : t = Cons(Step("FreePool", o), Returns(n))
        OBVIOUS
      <3>3. t \in Seq(Steps) /\ Ends(t, o, n)
        BY <3>1, <3>2, ConsEnds, MemAssumption DEF StepNames
      <3>4. calls = <<t>> /\ NewOK(n, o)
        BY <2>3, <3>2, MemAssumption DEF AtFree, Frees
      <3>5. n # NULL /\ kind[o] = "tracked" /\ kind[n] = "tracked" => o \in Listed /\ n \in Listed
        <4> SUFFICES ASSUME n # NULL, kind[o] = "tracked", kind[n] = "tracked"
                     PROVE  o \in Listed /\ n \in Listed
          OBVIOUS
        <4>1. Listed = Kept \cup Due(o)
          BY <2>3, ListedIs DEF AtFree, List
        <4>2. n \in Kept /\ o \in Due(o)
          BY <3>4, KeptIs, DueIs DEF NewOK
        <4> QED
          BY <4>1, <4>2
      <3> QED
        BY <3>3, <3>4, <3>5, KeepsTracking
    <2>4. ASSUME NEW o \in Buffer, NEW n \in Buffer \cup {NULL}, AtFree("free", o, n)
          PROVE  ReallocKeepsTracking
      <3>1. Returns(n) \in Seq(Steps) /\ Ends(Returns(n), NULL, n)
        BY ReturnsEnds
      <3>2. PICK t : t = Cons(Step("free", o), Returns(n))
        OBVIOUS
      <3>3. t \in Seq(Steps) /\ Ends(t, NULL, n) /\ t[1].do = "free"
        BY <3>1, <3>2, ConsEnds DEF StepNames
      <3>4. calls = <<t>> /\ NewOK(n, NULL)
        BY <2>4, <3>2, MemAssumption, NewIsNew DEF AtFree, Frees
      <3> QED
        BY <3>3, <3>4, KeepsTracking
    <2>5. ASSUME NEW b \in Buffer, NEW n \in Buffer \cup {NULL}, NEW k \in BOOLEAN
          PROVE  /\ GivesBack(k, b, n) \in Seq(Steps) /\ Ends(GivesBack(k, b, n), NULL, n)
                 /\ k => GivesBack(k, b, n)[1].do = "pool"
      <3>1. Returns(n) \in Seq(Steps) /\ Ends(Returns(n), NULL, n)
        BY ReturnsEnds
      <3>2. /\ Cons(Step("pool", b), Returns(n)) \in Seq(Steps)
            /\ Ends(Cons(Step("pool", b), Returns(n)), NULL, n)
            /\ Cons(Step("pool", b), Returns(n))[1].do = "pool"
        BY <3>1, ConsEnds DEF StepNames
      <3> QED
        BY <3>1, <3>2 DEF GivesBack
    <2>6. ASSUME NEW b \in Buffer, NEW n \in Buffer \cup {NULL}, NEW k \in BOOLEAN,
                 AtUnlinkNext(b, n, k) \/ AtUnlinkPrev(b, n, k)
          PROVE  ReallocKeepsTracking
      <3>1. PICK g : g = GivesBack(k, b, n)
        OBVIOUS
      <3>2. g \in Seq(Steps) /\ Ends(g, NULL, n)
        BY <2>5, <3>1
      <3>3. PICK t : t = Cons(Step("unlinkPrev", b), g)
        OBVIOUS
      <3>4. t \in Seq(Steps) /\ Ends(t, NULL, n) /\ t[1].do = "unlinkPrev"
        BY <3>2, <3>3, ConsEnds DEF StepNames
      <3>5. PICK u : u = Cons(Step("unlinkNext", b), t)
        OBVIOUS
      <3>6. u \in Seq(Steps) /\ Ends(u, NULL, n) /\ u[1].do = "unlinkNext"
        BY <3>4, <3>5, ConsEnds DEF StepNames
      <3>7. NewOK(n, NULL) /\ (calls = <<t>> \/ calls = <<u>>)
        BY <2>6, <3>1, <3>3, <3>5, NewIsNew DEF AtUnlinkNext, AtUnlinkPrev, Removing
      <3>8. CASE calls = <<t>>
        BY <3>4, <3>7, <3>8, KeepsTracking
      <3>9. CASE calls = <<u>>
        BY <3>6, <3>7, <3>9, KeepsTracking
      <3> QED
        BY <3>7, <3>8, <3>9
    <2>7. ASSUME NEW b \in Buffer, NEW n \in Buffer \cup {NULL}, AtPool(b, n)
          PROVE  ReallocKeepsTracking
      <3>1. PICK t : t = GivesBack(TRUE, b, n)
        OBVIOUS
      <3>2. t \in Seq(Steps) /\ Ends(t, NULL, n) /\ t[1].do = "pool"
        BY <2>5, <3>1
      <3>3. NewOK(n, NULL) /\ calls = <<t>>
        BY <2>7, <3>1, NewIsNew DEF AtPool, Removing
      <3> QED
        BY <3>2, <3>3, KeepsTracking
    <2>8. ASSUME NEW b \in Buffer, NEW o \in Buffer \cup {NULL},
                 AtLink(b, o) \/ AtLinkPrev(b, o) \/ AtLinkLast(b, o)
          PROVE  ReallocKeepsTracking
      <3>1. PICK f : f = Frees("FreePool", o, b)
        OBVIOUS
      <3>2. f \in Seq(Steps) /\ Ends(f, o, b)
        <4>1. Returns(b) \in Seq(Steps) /\ Ends(Returns(b), o, b)
          BY ReturnsEnds
        <4>2. CASE o = NULL
          BY <3>1, <4>1, <4>2 DEF Frees
        <4>3. CASE o # NULL
          <5>1. /\ Ends(Cons(Step("FreePool", o), Returns(b)), o, b)
                /\ Cons(Step("FreePool", o), Returns(b)) \in Seq(Steps)
            BY <4>1, <4>3, ConsEnds, MemAssumption DEF StepNames
          <5> QED
            BY <3>1, <4>3, <5>1 DEF Frees
        <4> QED
          BY <4>2, <4>3
      <3>3. PICK t : t = Cons(Step("linkLast", b), f)
        OBVIOUS
      <3>4. t \in Seq(Steps) /\ Ends(t, o, b) /\ t[1].do = "linkLast"
        BY <3>2, <3>3, ConsEnds DEF StepNames
      <3>5. PICK u : u = Cons(Step("linkPrev", b), t)
        OBVIOUS
      <3>6. u \in Seq(Steps) /\ Ends(u, o, b) /\ u[1].do = "linkPrev"
        BY <3>4, <3>5, ConsEnds DEF StepNames
      <3>7. PICK v : v = Cons(Step("link", b), u)
        OBVIOUS
      <3>8. v \in Seq(Steps) /\ Ends(v, o, b) /\ v[1].do = "link"
        BY <3>6, <3>7, ConsEnds DEF StepNames
      <3>9. NewOK(b, o) /\ (calls = <<t>> \/ calls = <<u>> \/ calls = <<v>>)
        BY <2>8, <3>1, <3>3, <3>5, <3>7 DEF AtLink, AtLinkPrev, AtLinkLast, Adding
      <3>10. CASE calls = <<t>>
        BY <3>4, <3>9, <3>10, KeepsTracking
      <3>11. CASE calls = <<u>>
        BY <3>6, <3>9, <3>11, KeepsTracking
      <3>12. CASE calls = <<v>>
        BY <3>8, <3>9, <3>12, KeepsTracking
      <3> QED
        BY <3>9, <3>10, <3>11, <3>12
    <2> QED
      BY <2>1, <2>2, <2>3, <2>4, <2>6, <2>7, <2>8 DEF Stage
  <1>2. LinkedInv => ReallocKeepsTracking
    BY <1>1 DEF LinkedInv, IInv, ReallocKeepsTracking
  <1> QED
    BY <1>2, Invariance, PTL
=============================================================================
