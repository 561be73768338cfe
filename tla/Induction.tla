------------------------------ MODULE Induction ------------------------------
(***************************************************************************)
(* Induction over the naturals and definition by recursion, in a form      *)
(* whose parameters are sets and functions, not operators; and what the    *)
(* operator Kept of Filters does to sequences.  The proofs about           *)
(* sequences, chains and closures cite these facts by name.                *)
(***************************************************************************)
EXTENDS Filters, TLAPS, WellFoundedInduction, SequenceTheorems

-----------------------------------------------------------------------------
\* Induction and recursion

(* A nonempty set of naturals has a least element.                        *)
LEMMA LeastExists ==
  ASSUME NEW F, F \subseteq Nat, F # {}
  PROVE  \E x \in F : \A y \in F : x <= y
<1>1. IsWellFoundedOn(OpToRel(<, Nat), Nat)
  BY NatLessThanWellFounded
<1>2. \E x \in F : \A y \in F : ~ (<<y, x>> \in OpToRel(<, Nat))
  BY <1>1, WFMin
<1>3. PICK x \in F : \A y \in F : ~ (y < x)
  BY <1>2 DEF OpToRel
<1>4. \A y \in F : x <= y
  BY <1>3
<1> QED
  BY <1>4

(* A set of naturals with 0 and, with a number, the next one is Nat: its   *)
(* complement would have a least element.                                  *)
THEOREM NatInduct ==
  ASSUME NEW F, F \subseteq Nat, 0 \in F, \A n \in F : n + 1 \in F
  PROVE  F = Nat
<1> DEFINE T == Nat \ F
<1>1. SUFFICES ASSUME T # {} PROVE FALSE
  OBVIOUS
<1>2. PICK x \in T : \A y \in T : x <= y
  <2>1. T \subseteq Nat
    OBVIOUS
  <2> HIDE DEF T
  <2> QED
    BY <1>1, <2>1, LeastExists
<1>3. x # 0 /\ x \in Nat /\ x - 1 \in Nat /\ (x - 1) + 1 = x /\ ~ (x <= x - 1)
  OBVIOUS
<1>4. x - 1 \in F
  BY <1>2, <1>3
<1> QED
  BY <1>3, <1>4

(* What a recursion over the naturals asks of g, up to n.                  *)
FollowsTo(n, g, base, step) ==
  g[0] = base /\ \A i \in 0..(n - 1) : g[i + 1] = step[<<i, g[i]>>]

(* Two functions that follow one recursion agree as far as both do.        *)
LEMMA RecursionUnique ==
  ASSUME NEW S, NEW base \in S, NEW step \in [Nat \X S -> S],
         NEW m \in Nat, NEW n \in Nat, m <= n,
         NEW g, FollowsTo(m, g, base, step), NEW h, FollowsTo(n, h, base, step)
  PROVE  \A i \in 0..m : g[i] = h[i]
<1> DEFINE F == {i \in Nat : i <= m => g[i] = h[i]}
<1>1. 0 \in F
  BY DEF FollowsTo
<1>2. ASSUME NEW i \in F PROVE i + 1 \in F
  <2>1. CASE i + 1 <= m
    <3>1. i \in 0..(m - 1) /\ i \in 0..(n - 1) /\ i <= m
      BY <2>1
    <3>2. g[i + 1] = step[<<i, g[i]>>] /\ h[i + 1] = step[<<i, h[i]>>] /\ g[i] = h[i]
      BY <3>1 DEF FollowsTo
    <3> QED
      BY <3>2
  <2> QED
    BY <2>1
<1>3. F = Nat
  <2> HIDE DEF F
  <2>1. F \subseteq Nat
    BY DEF F
  <2> QED
    BY <1>1, <1>2, <2>1, NatInduct
<1> QED
  BY <1>3

(* f is the recursion that starts with base and goes on by step.           *)
Recursion(f, S, base, step) ==
  f \in [Nat -> S] /\ f[0] = base /\ \A n \in Nat : f[n + 1] = step[<<n, f[n]>>]

(* A recursion over the naturals has a solution.                           *)
THEOREM RecursionExists ==
  ASSUME NEW S, NEW base \in S, NEW step \in [Nat \X S -> S]
  PROVE  \E f : Recursion(f, S, base, step)
<1> DEFINE Part(n) == {g \in [0..n -> S] : FollowsTo(n, g, base, step)}
           F == {n \in Nat : Part(n) # {}}
<1>1. 0 \in F
  <2>1. [i \in 0..0 |-> base] \in Part(0)
    BY DEF FollowsTo
  <2> QED
    BY <2>1
<1>2. ASSUME NEW n \in F PROVE n + 1 \in F
  <2>1. PICK g \in [0..n -> S] : FollowsTo(n, g, base, step)
    OBVIOUS
  <2> DEFINE h == [i \in 0..(n + 1) |-> IF i = n + 1 THEN step[<<n, g[n]>>] ELSE g[i]]
  <2>2. n \in Nat /\ g[n] \in S /\ step[<<n, g[n]>>] \in S
    OBVIOUS
  <2>3. h \in [0..(n + 1) -> S]
    BY <2>2
  <2>4. h[0] = base
    BY <2>1, <2>2 DEF FollowsTo
  <2>5. ASSUME NEW i \in 0..n PROVE h[i + 1] = step[<<i, h[i]>>]
    <3>1. CASE i = n
      <4>1. h[n + 1] = step[<<n, g[n]>>] /\ h[n] = g[n]
        BY <2>2
      <4> QED
        BY <3>1, <4>1
    <3>2. CASE i # n
      <4>1. i \in 0..(n - 1) /\ h[i + 1] = g[i + 1] /\ h[i] = g[i]
        BY <3>2, <2>2
      <4> QED
        BY <4>1, <2>1 DEF FollowsTo
    <3> QED
      BY <3>1, <3>2
  <2>6. FollowsTo(n + 1, h, base, step)
    <3> HIDE DEF h
    <3>1. 0..((n + 1) - 1) = 0..n
      BY <2>2
    <3> QED
      BY <2>4, <2>5, <3>1 DEF FollowsTo
  <2> QED
    BY <2>2, <2>3, <2>6
<1>3. F = Nat
  <2> HIDE DEF F
  <2>1. F \subseteq Nat
    BY DEF F
  <2> QED
    BY <1>1, <1>2, <2>1, NatInduct
<1> DEFINE part == [n \in Nat |-> CHOOSE g : g \in Part(n)]
           f == [n \in Nat |-> part[n][n]]
<1>4. ASSUME NEW n \in Nat
      PROVE  part[n] \in [0..n -> S] /\ FollowsTo(n, part[n], base, step)
  <2>1. \E g : g \in Part(n)
    BY <1>3
  <2>2. (CHOOSE g : g \in Part(n)) \in Part(n)
    BY <2>1
  <2> QED
    BY <2>2
<1>5. f \in [Nat -> S]
  <2> HIDE DEF part
  <2>1. ASSUME NEW n \in Nat PROVE part[n][n] \in S
    BY <1>4
  <2> QED
    BY <2>1
<1>6. f[0] = base
  <2> HIDE DEF part
  <2> QED
    BY <1>4 DEF FollowsTo
<1>7. ASSUME NEW n \in Nat PROVE f[n + 1] = step[<<n, f[n]>>]
  <2> HIDE DEF part
  <2>1. /\ FollowsTo(n, part[n], base, step)
        /\ FollowsTo(n + 1, part[n + 1], base, step)
    BY <1>4
  <2>2. part[n][n] = part[n + 1][n]
    BY <2>1, RecursionUnique
  <2>3. part[n + 1][n + 1] = step[<<n, part[n + 1][n]>>]
    BY <2>1 DEF FollowsTo
  <2> QED
    BY <2>2, <2>3
<1>8. Recursion(f, S, base, step)
  BY <1>5, <1>6, <1>7 DEF Recursion
<1> QED
  BY <1>8
-----------------------------------------------------------------------------
\* Kept

(* What Kept computes on the way.                                          *)
KeptUpTo(s, keep) ==
  CHOOSE upTo : upTo = [n \in 0..Len(s) |->
    IF n = 0 THEN <<>>
    ELSE IF s[n] \in keep THEN Append(upTo[n - 1], s[n]) ELSE upTo[n - 1]]

(* The equations of KeptUpTo, and its type.                                *)
LEMMA KeptRecursion ==
  ASSUME NEW T, NEW s \in Seq(T), NEW keep
  PROVE  /\ KeptUpTo(s, keep) \in [0..Len(s) -> Seq(T)]
         /\ KeptUpTo(s, keep)[0] = <<>>
         /\ \A n \in 0..(Len(s) - 1) :
              KeptUpTo(s, keep)[n + 1] =
                IF s[n + 1] \in keep THEN Append(KeptUpTo(s, keep)[n], s[n + 1])
                                     ELSE KeptUpTo(s, keep)[n]
<1> DEFINE step == [a \in Nat \X Seq(T) |->
                      IF a[1] < Len(s) /\ s[a[1] + 1] \in keep
                      THEN Append(a[2], s[a[1] + 1]) ELSE a[2]]
           Solves(f) == f = [n \in 0..Len(s) |->
             IF n = 0 THEN <<>>
             ELSE IF s[n] \in keep THEN Append(f[n - 1], s[n]) ELSE f[n - 1]]
<1>1. step \in [Nat \X Seq(T) -> Seq(T)]
  <2>1. ASSUME NEW a \in Nat \X Seq(T) PROVE step[a] \in Seq(T)
    <3>1. CASE a[1] < Len(s)
      <4>1. s[a[1] + 1] \in T
        BY <3>1
      <4> QED
        BY <4>1
    <3> QED
      BY <3>1
  <2> QED
    BY <2>1
<1>2. <<>> \in Seq(T)
  OBVIOUS
<1>3. PICK f : Recursion(f, Seq(T), <<>>, step)
  <2> HIDE DEF step
  <2> QED
    BY <1>1, <1>2, RecursionExists
<1>4. f \in [Nat -> Seq(T)] /\ f[0] = <<>> /\ \A n \in Nat : f[n + 1] = step[<<n, f[n]>>]
  BY <1>3 DEF Recursion
<1> DEFINE g == [n \in 0..Len(s) |-> f[n]]
<1>5. Solves(g)
  <2>1. ASSUME NEW n \in 0..Len(s)
        PROVE  g[n] = IF n = 0 THEN <<>>
                      ELSE IF s[n] \in keep THEN Append(g[n - 1], s[n]) ELSE g[n - 1]
    <3>1. CASE n = 0
      BY <3>1, <1>4
    <3>2. CASE n # 0
      <4>1. n - 1 \in Nat /\ n - 1 < Len(s) /\ n - 1 \in 0..Len(s) /\ (n - 1) + 1 = n
        BY <3>2
      <4>2. g[n] = step[<<n - 1, f[n - 1]>>] /\ f[n - 1] \in Seq(T) /\ g[n - 1] = f[n - 1]
        BY <1>4, <4>1
      <4> QED
        BY <3>2, <4>1, <4>2
    <3> QED
      BY <3>1, <3>2
  <2> QED
    BY <2>1
<1>6. Solves(KeptUpTo(s, keep))
  BY <1>5 DEF KeptUpTo
<1> DEFINE k == KeptUpTo(s, keep)
<1>7. /\ k[0] = <<>>
      /\ \A n \in 0..(Len(s) - 1) :
           k[n + 1] = IF s[n + 1] \in keep THEN Append(k[n], s[n + 1]) ELSE k[n]
  <2> HIDE DEF k
  <2>0. Solves(k)
    BY <1>6 DEF k
  <2>1. k[0] = <<>>
    BY <2>0
  <2>2. ASSUME NEW n \in 0..(Len(s) - 1)
        PROVE  k[n + 1] = IF s[n + 1] \in keep THEN Append(k[n], s[n + 1]) ELSE k[n]
    <3>1. n + 1 \in 0..Len(s) /\ n + 1 # 0 /\ (n + 1) - 1 = n
      OBVIOUS
    <3> QED
      BY <2>0, <3>1
  <2> QED
    BY <2>1, <2>2
<1>8. \A n \in 0..Len(s) : k[n] = f[n]
  <2> DEFINE F == {n \in Nat : n <= Len(s) => k[n] = f[n]}
  <2> HIDE DEF k
  <2>1. 0 \in F
    BY <1>4, <1>7
  <2>2. ASSUME NEW n \in F PROVE n + 1 \in F
    <3>1. CASE n + 1 <= Len(s)
      <4>0. Len(s) \in Nat /\ n \in Nat /\ (n <= Len(s) => k[n] = f[n])
        OBVIOUS
      <4>1. n \in 0..(Len(s) - 1) /\ n < Len(s) /\ k[n] = f[n] /\ f[n] \in Seq(T)
        <5> HIDE DEF F, step, Solves, g
        <5>1. n \in 0..(Len(s) - 1) /\ n < Len(s) /\ n <= Len(s)
          BY <3>1, <4>0
        <5> QED
          BY <4>0, <5>1, <1>4
      <4>2. f[n + 1] = step[<<n, f[n]>>]
        BY <1>4
      <4>3. k[n + 1] = IF s[n + 1] \in keep THEN Append(k[n], s[n + 1]) ELSE k[n]
        BY <1>7, <4>1
      <4>4. f[n + 1] = k[n + 1]
        BY <4>1, <4>2, <4>3
      <4> QED
        BY <4>4
    <3> QED
      BY <3>1
  <2>3. F = Nat
    <3> HIDE DEF F
    <3>1. F \subseteq Nat
      BY DEF F
    <3> QED
      BY <2>1, <2>2, <3>1, NatInduct
  <2>4. ASSUME NEW n \in 0..Len(s) PROVE k[n] = f[n]
    <3>1. n \in Nat /\ n <= Len(s)
      OBVIOUS
    <3>2. n \in F
      <4> HIDE DEF F
      <4> QED
        BY <2>3, <3>1
    <3> QED
      BY <3>1, <3>2
  <2> QED
    BY <2>4
<1>9. k \in [0..Len(s) -> Seq(T)]
  <2>1. Solves(k)
    BY <1>6
  <2> HIDE DEF k
  <2>2. k = [n \in 0..Len(s) |-> k[n]]
    BY <2>1
  <2>3. ASSUME NEW n \in 0..Len(s) PROVE k[n] \in Seq(T)
    <3>1. n \in Nat /\ k[n] = f[n]
      BY <1>8
    <3> QED
      BY <1>4, <3>1
  <2> QED
    BY <2>2, <2>3
<1> QED
  BY <1>7, <1>9

(* Kept is KeptUpTo at the end.                                            *)
LEMMA KeptIsUpTo ==
  ASSUME NEW s, NEW keep
  PROVE  Kept(s, keep) = KeptUpTo(s, keep)[Len(s)]
BY DEF Kept, KeptUpTo

(* Nothing is kept of the empty sequence.                                  *)
LEMMA KeptEmpty ==
  ASSUME NEW keep
  PROVE  Kept(<<>>, keep) = <<>>
<1>1. <<>> \in Seq({}) /\ Len(<<>>) = 0
  OBVIOUS
<1>2. KeptUpTo(<<>>, keep)[0] = <<>>
  <2> DEFINE none == <<>>
             T == {}
  <2>1. none \in Seq(T)
    BY <1>1
  <2> HIDE DEF none, T
  <2>2. KeptUpTo(none, keep)[0] = <<>>
    BY <2>1, KeptRecursion
  <2> QED
    BY <2>2 DEF none
<1>3. Kept(<<>>, keep) = KeptUpTo(<<>>, keep)[Len(<<>>)]
  BY KeptIsUpTo
<1> QED
  BY <1>1, <1>2, <1>3

(* What is kept has the type of the elements.                              *)
LEMMA KeptType ==
  ASSUME NEW T, NEW s \in Seq(T), NEW keep
  PROVE  Kept(s, keep) \in Seq(T)
BY KeptRecursion, KeptIsUpTo

(* What is kept up to some place depends on no later element, and on no    *)
(* other member of keep.                                                   *)
LEMMA KeptUpToAgrees ==
  ASSUME NEW T, NEW s \in Seq(T), NEW t \in Seq(T), NEW keep, NEW stay,
         NEW m \in Nat, m <= Len(s), m <= Len(t),
         \A i \in 1..m : s[i] = t[i] /\ (s[i] \in keep <=> s[i] \in stay)
  PROVE  KeptUpTo(s, keep)[m] = KeptUpTo(t, stay)[m]
<1> DEFINE k == KeptUpTo(s, keep)
           l == KeptUpTo(t, stay)
           F == {n \in Nat : n <= m => k[n] = l[n]}
<1>1. 0 \in F
  BY KeptRecursion
<1>2. ASSUME NEW n \in F PROVE n + 1 \in F
  <2>1. CASE n + 1 <= m
    <3>1. n \in 0..(Len(s) - 1) /\ n \in 0..(Len(t) - 1) /\ n + 1 \in 1..m /\ k[n] = l[n]
      BY <2>1
    <3>2. k[n + 1] = IF s[n + 1] \in keep THEN Append(k[n], s[n + 1]) ELSE k[n]
      BY <3>1, KeptRecursion
    <3>3. l[n + 1] = IF t[n + 1] \in stay THEN Append(l[n], t[n + 1]) ELSE l[n]
      BY <3>1, KeptRecursion
    <3>4. s[n + 1] = t[n + 1] /\ (s[n + 1] \in keep <=> s[n + 1] \in stay)
      BY <3>1
    <3> HIDE DEF k, l
    <3>5. k[n + 1] = l[n + 1]
      BY <3>1, <3>2, <3>3, <3>4
    <3> QED
      BY <3>5
  <2> QED
    BY <2>1
<1>3. F = Nat
  <2> HIDE DEF F
  <2>1. F \subseteq Nat
    BY DEF F
  <2> QED
    BY <1>1, <1>2, <2>1, NatInduct
<1>4. m \in F
  <2> HIDE DEF F
  <2> QED
    BY <1>3
<1> QED
  BY <1>4

(* One element more is kept last, or not at all.                           *)
LEMMA KeptAppend ==
  ASSUME NEW T, NEW s \in Seq(T), NEW x \in T, NEW keep
  PROVE  Kept(Append(s, x), keep) =
           IF x \in keep THEN Append(Kept(s, keep), x) ELSE Kept(s, keep)
<1> DEFINE t == Append(s, x)
           n == Len(s)
<1>1. t \in Seq(T) /\ Len(t) = n + 1 /\ t[n + 1] = x /\ n \in 0..(Len(t) - 1)
  OBVIOUS
<1>2. \A i \in 1..n : s[i] = t[i]
  OBVIOUS
<1>3. KeptUpTo(t, keep)[n] = KeptUpTo(s, keep)[n]
  <2> HIDE DEF t
  <2>1. n \in Nat /\ n <= Len(s) /\ n <= Len(t)
    BY <1>1
  <2> QED
    BY <1>1, <1>2, <2>1, KeptUpToAgrees
<1>4. KeptUpTo(t, keep)[n + 1] =
        IF x \in keep THEN Append(KeptUpTo(t, keep)[n], x) ELSE KeptUpTo(t, keep)[n]
  <2> HIDE DEF t
  <2> QED
    BY <1>1, KeptRecursion
<1> HIDE DEF t
<1> QED
  BY <1>1, <1>3, <1>4, KeptIsUpTo DEF t

(* Two tests that agree on the elements keep the same.                     *)
LEMMA KeptSame ==
  ASSUME NEW T, NEW s \in Seq(T), NEW keep, NEW stay,
         \A i \in 1..Len(s) : s[i] \in keep <=> s[i] \in stay
  PROVE  Kept(s, keep) = Kept(s, stay)
<1> DEFINE m == Len(s)
<1>1. m \in Nat /\ m <= Len(s)
  OBVIOUS
<1>2. \A i \in 1..m : s[i] = s[i] /\ (s[i] \in keep <=> s[i] \in stay)
  OBVIOUS
<1>3. KeptUpTo(s, keep)[m] = KeptUpTo(s, stay)[m]
  <2> HIDE DEF m
  <2> QED
    BY <1>1, <1>2, KeptUpToAgrees
<1> QED
  BY <1>3, KeptIsUpTo

(* Appending to a concatenation appends to its last part.                  *)
AppendsLast(T) ==
  \A f \in Seq(T), v \in Seq(T), x \in T : Append(f \o v, x) = f \o Append(v, x)

(* Appending to the right part appends to the whole.                       *)
LEMMA AppendToConcat ==
  ASSUME NEW T
  PROVE  AppendsLast(T)
BY DEF AppendsLast

(* Concatenations can be bracketed in any way.                             *)
Associates(T) ==
  \A u \in Seq(T), v \in Seq(T), w \in Seq(T) : (u \o v) \o w = u \o (v \o w)

(* Concatenation is associative.                                           *)
LEMMA Associativity ==
  ASSUME NEW T
  PROVE  Associates(T)
BY ConcatAssociative DEF Associates

(* The first element is kept before the others, or not at all.             *)
LEMMA KeptFirst ==
  ASSUME NEW T, NEW s \in Seq(T), s # <<>>, NEW keep
  PROVE  Kept(s, keep) = (IF Head(s) \in keep THEN <<Head(s)>> ELSE <<>>) \o Kept(Tail(s), keep)
<1>0. AppendsLast(T)
  BY AppendToConcat
<1>1. PICK m \in Nat : Len(s) = m + 1
  <2>1. Len(s) \in Nat /\ Len(s) # 0
    BY EmptySeq
  <2>2. Len(s) - 1 \in Nat /\ Len(s) = (Len(s) - 1) + 1
    BY <2>1
  <2> QED
    BY <2>2
<1>2. PICK rest \in Seq(T) : rest = Tail(s)
  BY HeadTailProperties
<1>3. Len(rest) = m /\ \A i \in 1..m : rest[i] = s[i + 1]
  <2>1. Len(rest) = Len(s) - 1 /\ \A i \in 1..Len(rest) : rest[i] = s[i + 1]
    BY <1>2, HeadTailProperties
  <2>2. Len(rest) = m
    BY <1>1, <2>1
  <2> QED
    BY <2>1, <2>2
<1>4. Head(s) \in T /\ s[1] = Head(s)
  BY <1>1, HeadTailProperties
<1>5. PICK first \in Seq(T) : first = IF Head(s) \in keep THEN <<Head(s)>> ELSE <<>>
  <2>1. <<>> \in Seq(T) /\ <<Head(s)>> \in Seq(T)
    BY <1>4
  <2> QED
    BY <2>1, Zenon
<1>6. /\ \A n \in 0..(Len(s) - 1) :
           KeptUpTo(s, keep)[n + 1] =
             IF s[n + 1] \in keep THEN Append(KeptUpTo(s, keep)[n], s[n + 1])
                                  ELSE KeptUpTo(s, keep)[n]
      /\ KeptUpTo(s, keep)[0] = <<>>
  BY KeptRecursion
<1>7. /\ KeptUpTo(rest, keep) \in [0..Len(rest) -> Seq(T)]
      /\ KeptUpTo(rest, keep)[0] = <<>>
      /\ \A n \in 0..(Len(rest) - 1) :
           KeptUpTo(rest, keep)[n + 1] =
             IF rest[n + 1] \in keep THEN Append(KeptUpTo(rest, keep)[n], rest[n + 1])
                                     ELSE KeptUpTo(rest, keep)[n]
  BY KeptRecursion
<1>8. PICK k : k = KeptUpTo(s, keep)
  OBVIOUS
<1>9. PICK l \in [0..m -> Seq(T)] : l = KeptUpTo(rest, keep)
  BY <1>3, <1>7
<1>10. k[1] = first
  <2>1. 0 \in 0..(Len(s) - 1) /\ 0 + 1 = 1
    BY <1>1
  <2>2. k[0 + 1] = IF s[0 + 1] \in keep THEN Append(k[0], s[0 + 1]) ELSE k[0]
    BY <1>6, <1>8, <2>1
  <2>3. Append(<<>>, s[1]) = <<s[1]>>
    BY <1>4
  <2> QED
    BY <1>4, <1>5, <1>6, <1>8, <2>1, <2>2, <2>3
<1> DEFINE F == {n \in Nat : n <= m => k[n + 1] = first \o l[n]}
<1>11. 0 \in F
  <2>1. first \o <<>> = first
    BY ConcatEmptySeq
  <2>2. k[0 + 1] = first
    BY <1>10, 0 + 1 = 1
  <2>3. l[0] = <<>>
    BY <1>7, <1>9
  <2> QED
    BY <2>1, <2>2, <2>3
<1>12. ASSUME NEW n \in F PROVE n + 1 \in F
  <2>1. CASE n + 1 <= m
    <3>1. n \in Nat /\ n + 1 \in Nat /\ n \in 0..(m - 1) /\ n \in 0..m /\ n + 1 \in 1..m /\ n <= m
      BY <2>1
    <3>2. /\ n \in 0..(Len(rest) - 1) /\ n + 1 \in 0..(Len(s) - 1)
          /\ n + 1 \in 1..Len(rest)
      BY <1>1, <1>3, <3>1
    <3>3. PICK x \in T : x = rest[n + 1] /\ x = s[(n + 1) + 1]
      <4>1. rest[n + 1] \in T
        BY <3>2, ElementOfSeq
      <4>2. rest[n + 1] = s[(n + 1) + 1]
        BY <1>3, <3>1
      <4> QED
        BY <4>1, <4>2
    <3>4. PICK v \in Seq(T) : v = l[n]
      BY <3>1
    <3>5. k[n + 1] = first \o v
      BY <3>1, <3>4
    <3> HIDE DEF F
    <3>6. Append(first \o v, x) = first \o Append(v, x)
      BY <1>0, Zenon DEF AppendsLast
    <3>7. l[n + 1] = IF x \in keep THEN Append(v, x) ELSE v
      BY <1>7, <1>9, <3>2, <3>3, <3>4, Zenon
    <3>8. k[(n + 1) + 1] = IF x \in keep THEN Append(k[n + 1], x) ELSE k[n + 1]
      BY <1>6, <1>8, <3>2, <3>3, Zenon
    <3>9. k[(n + 1) + 1] = first \o l[n + 1]
      <4>1. CASE x \in keep
        BY <3>5, <3>6, <3>7, <3>8, <4>1, Zenon
      <4>2. CASE x \notin keep
        BY <3>5, <3>7, <3>8, <4>2, Zenon
      <4> QED
        BY <4>1, <4>2
    <3>10. F = {i \in Nat : i <= m => k[i + 1] = first \o l[i]}
      BY DEF F
    <3> QED
      BY <3>1, <3>9, <3>10, Zenon
  <2>2. n \in Nat /\ n + 1 \in Nat
    OBVIOUS
  <2>3. ~ (n + 1 <= m) => n + 1 \in F
    BY <2>2
  <2> HIDE DEF F
  <2> QED
    BY <2>1, <2>3
<1>13. m \in F
  <2>1. F \subseteq Nat
    OBVIOUS
  <2> HIDE DEF F
  <2>2. F = Nat
    BY <1>11, <1>12, <2>1, NatInduct
  <2> QED
    BY <2>2
<1>14. k[m + 1] = first \o l[m]
  BY <1>13
<1>15. Kept(s, keep) = first \o Kept(rest, keep)
  BY <1>1, <1>3, <1>8, <1>9, <1>14, KeptIsUpTo
<1> QED
  BY <1>2, <1>5, <1>15, Zenon
=============================================================================
