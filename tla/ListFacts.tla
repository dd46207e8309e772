------------------------------ MODULE ListFacts ------------------------------
(***************************************************************************)
(* What the proofs use of the natural numbers and of sequences, beyond     *)
(* what the provers know.                                                  *)
(***************************************************************************)
EXTENDS Lists, SequenceTheorems, FiniteSetTheorems, WellFoundedInduction, TLAPS

\* A set of naturals has a least one.
LEMMA Least ==
    ASSUME NEW S \in SUBSET Nat, S # {}
    PROVE  \E m \in S : \A k \in S : m <= k
  <1> DEFINE R == OpToRel(<, Nat)
  <1>1. IsWellFoundedOn(R, Nat)
    BY NatLessThanWellFounded
  <1>2. \A x, y \in Nat : x < y => <<x, y>> \in R
    BY DEF OpToRel
  <1> HIDE DEF R
  <1>3. PICK m \in S : \A k \in S : ~ (<<k, m>> \in R)
    BY <1>1, WFMin
  <1>4. \A k \in S : ~ (k < m)
    BY <1>2, <1>3, Zenon
  <1> QED  BY <1>4

\* A set of naturals with a bound has a greatest one.
LEMMA Greatest ==
    ASSUME NEW n \in Nat, NEW S \in SUBSET (1..n), S # {}
    PROVE  \E m \in S : \A k \in S : k <= m
  <1> DEFINE T == {n - k : k \in S}
  <1>0. \A k \in S : k \in Nat /\ n - k \in Nat
    OBVIOUS
  <1>1. T \in SUBSET Nat /\ T # {}
    BY <1>0
  <1>2. PICK t \in T : \A k \in T : t <= k
    BY <1>1, Least
  <1>3. PICK m \in S : t = n - m
    OBVIOUS
  <1>4. \A k \in S : n - m <= n - k
    BY <1>2, <1>3
  <1> QED  BY <1>0, <1>4

\* Induction on a number up to n.
LEMMA Upwards ==
    ASSUME NEW n \in Nat, NEW B, 0 \in B, \A k \in 1..n : k - 1 \in B => k \in B
    PROVE  \A k \in 0..n : k \in B
  <1> DEFINE Bad == {k \in 0..n : k \notin B}
  <1> SUFFICES ASSUME Bad # {} PROVE FALSE
    OBVIOUS
  <1>1. PICK k \in Bad : \A j \in Bad : k <= j
    <2>1. Bad \in SUBSET Nat
      OBVIOUS
    <2> HIDE DEF Bad
    <2> QED  BY <2>1, Least
  <1>2. k \in 1..n
    OBVIOUS
  <1>3. k - 1 \in 0..n /\ k - 1 \notin Bad
    BY <1>1, <1>2
  <1> QED  BY <1>2, <1>3

\* f is what n steps make of base, one after the other.
IsRun(M, base, step, n, f) ==
    /\ f \in [0..n -> M]
    /\ f[0] = base
    /\ \A k \in 1..n : f[k] = step[k][f[k - 1]]

\* There is such a function.
LEMMA Iterates ==
    ASSUME NEW M, NEW base \in M, NEW n \in Nat, NEW step \in [1..n -> [M -> M]]
    PROVE  \E f : IsRun(M, base, step, n, f)
  <1> DEFINE B == {m \in 0..n : \E f : IsRun(M, base, step, m, f)}
  <1>1. 0 \in B
    <2> DEFINE f == [k \in 0..0 |-> base]
    <2>1. IsRun(M, base, step, 0, f)
      BY DEF IsRun
    <2> QED  BY <2>1
  <1>2. ASSUME NEW m \in 1..n, m - 1 \in B PROVE m \in B
    <2>1. PICK f : IsRun(M, base, step, m - 1, f)
      BY <1>2
    <2> DEFINE g == [k \in 0..m |-> IF k = m THEN step[m][f[m - 1]] ELSE f[k]]
    <2>2. f[m - 1] \in M /\ step[m] \in [M -> M] /\ f \in [0..(m - 1) -> M]
      BY <2>1 DEF IsRun
    <2>3. step[m][f[m - 1]] \in M
      BY <2>2
    <2>4. g \in [0..m -> M]
      BY <2>2, <2>3
    <2>5. \A k \in 0..(m - 1) : g[k] = f[k]
      OBVIOUS
    <2>6. g[m] = step[m][g[m - 1]]
      BY <2>5
    <2>7. \A k \in 1..(m - 1) : g[k] = step[k][g[k - 1]]
      <3>1. \A k \in 1..(m - 1) : k \in 0..(m - 1) /\ k - 1 \in 0..(m - 1)
        OBVIOUS
      <3> QED  BY <2>1, <2>5, <3>1 DEF IsRun
    <2>8. g[0] = base
      BY <2>1, <2>5 DEF IsRun
    <2>9. \A k \in 1..m : g[k] = step[k][g[k - 1]]
      <3>1. \A k \in 1..m : k = m \/ k \in 1..(m - 1)
        OBVIOUS
      <3> QED  BY <2>6, <2>7, <3>1
    <2> HIDE DEF g
    <2>10. IsRun(M, base, step, m, g)
      BY <2>4, <2>8, <2>9 DEF IsRun
    <2> QED  BY <2>10
  <1> HIDE DEF B
  <1>3. \A k \in 0..n : k \in B
    BY <1>1, <1>2, Upwards
  <1>4. n \in B
    BY <1>3
  <1> QED  BY <1>4 DEF B
-----------------------------------------------------------------------------
\* What is kept of the first elements of s, one after the other.
KeptAt(s, removed, kept, i) ==
    CASE i = 0 -> <<>>
      [] i > 0 /\ s[i] \in removed -> kept[i - 1]
      [] OTHER -> Append(kept[i - 1], s[i])

IsKept(s, removed, n, kept) == kept = [i \in 0..n |-> KeptAt(s, removed, kept, i)]

\* The recursive function of Without exists for each number of elements,
LEMMA KeptExists ==
    ASSUME NEW S, NEW s \in Seq(S), NEW removed, NEW n \in Nat
    PROVE  \E kept : IsKept(s, removed, n, kept)
  <1> DEFINE Bad == {k \in Nat : ~\E kept : IsKept(s, removed, k, kept)}
  <1> SUFFICES ASSUME Bad # {} PROVE FALSE
    OBVIOUS
  <1>1. PICK k \in Bad : \A j \in Bad : k <= j
    BY Least
  <1>2. k # 0
    <2> DEFINE f == [i \in 0..0 |-> <<>>]
    <2>1. IsKept(s, removed, 0, f)
      BY DEF IsKept, KeptAt
    <2> QED  BY <2>1
  <1>3. k - 1 \in Nat /\ k - 1 \notin Bad
    BY <1>1, <1>2
  <1>4. PICK f : IsKept(s, removed, k - 1, f)
    BY <1>3
  <1> DEFINE g == [i \in 0..k |-> IF i < k THEN f[i] ELSE KeptAt(s, removed, f, k)]
  <1>5. ASSUME NEW i \in 0..k PROVE g[i] = KeptAt(s, removed, g, i)
    <2>1. CASE i < k
      <3>1. g[i] = KeptAt(s, removed, f, i)
        BY <1>4, <2>1 DEF IsKept
      <3>2. i # 0 => g[i - 1] = f[i - 1]
        BY <2>1
      <3> QED  BY <3>1, <3>2 DEF KeptAt
    <2>2. CASE i = k
      <3>1. g[i] = KeptAt(s, removed, f, k) /\ g[k - 1] = f[k - 1]
        BY <1>2, <2>2
      <3> QED  BY <1>2, <2>2, <3>1 DEF KeptAt
    <2> QED  BY <2>1, <2>2
  <1>6. IsKept(s, removed, k, g)
    BY <1>5 DEF IsKept
  <1> QED  BY <1>1, <1>6

\* and Without is its last value.
LEMMA WithoutKept ==
    ASSUME NEW S, NEW s \in Seq(S), NEW removed
    PROVE  \E kept : /\ IsKept(s, removed, Len(s), kept)
                     /\ Without(s, removed) = kept[Len(s)]
  <1> DEFINE F == CHOOSE kept : IsKept(s, removed, Len(s), kept)
  <1>1. Without(s, removed) = F[Len(s)]
    BY DEF Without, IsKept, KeptAt
  <1>2. \E kept : IsKept(s, removed, Len(s), kept)
    BY KeptExists
  <1>3. IsKept(s, removed, Len(s), F)
    BY <1>2
  <1> QED  BY <1>1, <1>3

\* It is the same for two sequences as far as they are the same.
LEMMA KeptAlike ==
    ASSUME NEW s, NEW t, NEW removed, NEW n \in Nat, NEW k \in Nat, NEW m \in Nat,
           m <= n, m <= k, \A i \in 1..m : s[i] = t[i],
           NEW f, IsKept(s, removed, n, f), NEW g, IsKept(t, removed, k, g)
    PROVE  f[m] = g[m]
  <1> DEFINE Bad == {i \in 0..m : f[i] # g[i]}
  <1> SUFFICES ASSUME Bad # {} PROVE FALSE
    OBVIOUS
  <1>1. PICK i \in Bad : \A j \in Bad : i <= j
    <2>1. Bad \in SUBSET Nat
      OBVIOUS
    <2> HIDE DEF Bad
    <2> QED  BY <2>1, Least
  <1>2. i \in 0..n /\ i \in 0..k
    OBVIOUS
  <1>3. f[i] = KeptAt(s, removed, f, i) /\ g[i] = KeptAt(t, removed, g, i)
    BY <1>2 DEF IsKept
  <1>4. i # 0 => f[i - 1] = g[i - 1]
    BY <1>1
  <1>5. KeptAt(s, removed, f, i) = KeptAt(t, removed, g, i)
    <2>1. CASE i = 0
      BY <2>1 DEF KeptAt
    <2>2. CASE i # 0
      <3>1. s[i] = t[i] /\ f[i - 1] = g[i - 1]
        BY <1>4, <2>2
      <3> QED  BY <2>2, <3>1 DEF KeptAt
    <2> QED  BY <2>1, <2>2
  <1> QED  BY <1>1, <1>3, <1>5

\* It is a sequence of the same elements.
LEMMA KeptType ==
    ASSUME NEW S, NEW s \in Seq(S), NEW removed, NEW f, IsKept(s, removed, Len(s), f)
    PROVE  f[Len(s)] \in Seq(S)
  <1> DEFINE Bad == {i \in 0..Len(s) : f[i] \notin Seq(S)}
  <1> SUFFICES ASSUME Bad # {} PROVE FALSE
    OBVIOUS
  <1>1. PICK i \in Bad : \A j \in Bad : i <= j
    <2>1. Bad \in SUBSET Nat
      OBVIOUS
    <2> HIDE DEF Bad
    <2> QED  BY <2>1, Least
  <1>0. i \in 0..Len(s) /\ f[i] \notin Seq(S)
    OBVIOUS
  <1>2. f[i] = KeptAt(s, removed, f, i)
    BY <1>0 DEF IsKept
  <1>3. CASE i = 0
    <2>1. f[i] = <<>> /\ <<>> \in Seq(S)
      BY <1>2, <1>3 DEF KeptAt
    <2> QED  BY <1>0, <2>1
  <1>4. CASE i # 0
    <2>1. f[i - 1] \in Seq(S) /\ s[i] \in S
      BY <1>1, <1>4
    <2>2. Append(f[i - 1], s[i]) \in Seq(S)
      BY <2>1
    <2>3. f[i] = f[i - 1] \/ f[i] = Append(f[i - 1], s[i])
      BY <1>0, <1>2, <1>4 DEF KeptAt
    <2> QED  BY <1>0, <2>1, <2>2, <2>3
  <1> QED  BY <1>3, <1>4
-----------------------------------------------------------------------------
\* Nothing is kept of nothing.
LEMMA WithoutNone ==
    ASSUME NEW S, NEW removed
    PROVE  Without(<<>>, removed) = <<>>
  <1>1. <<>> \in Seq(S) /\ Len(<<>>) = 0
    OBVIOUS
  <1>2. PICK f : IsKept(<<>>, removed, 0, f) /\ Without(<<>>, removed) = f[0]
    BY <1>1, WithoutKept
  <1>3. f[0] = KeptAt(<<>>, removed, f, 0)
    BY <1>2 DEF IsKept
  <1> QED  BY <1>2, <1>3 DEF KeptAt

\* What is kept is a sequence of the same elements.
LEMMA WithoutType ==
    ASSUME NEW S, NEW s \in Seq(S), NEW removed
    PROVE  Without(s, removed) \in Seq(S)
  <1>1. PICK f : IsKept(s, removed, Len(s), f) /\ Without(s, removed) = f[Len(s)]
    BY WithoutKept
  <1> QED  BY <1>1, KeptType

\* One more is kept at the end, unless it is removed.
LEMMA WithoutAppend ==
    ASSUME NEW S, NEW s \in Seq(S), NEW x \in S, NEW removed
    PROVE  Without(Append(s, x), removed)
             = IF x \in removed THEN Without(s, removed)
               ELSE Append(Without(s, removed), x)
  <1> DEFINE n == Len(s)
             t == Append(s, x)
  <1>1. /\ n \in Nat /\ t \in Seq(S) /\ Len(t) = n + 1
        /\ \A i \in 1..n : s[i] = t[i]
        /\ t[n + 1] = x
    OBVIOUS
  <1>2. PICK f : IsKept(s, removed, n, f) /\ Without(s, removed) = f[n]
    BY WithoutKept
  <1> HIDE DEF t
  <1>3. PICK g : IsKept(t, removed, Len(t), g) /\ Without(t, removed) = g[Len(t)]
    BY <1>1, WithoutKept
  <1>4. IsKept(t, removed, n + 1, g) /\ Without(t, removed) = g[n + 1]
    BY <1>1, <1>3
  <1>5. g[n] = f[n]
    <2>1. n \in Nat /\ n + 1 \in Nat /\ n <= n /\ n <= n + 1 /\ \A i \in 1..n : s[i] = t[i]
      BY <1>1
    <2>2. IsKept(s, removed, n, f) /\ IsKept(t, removed, n + 1, g)
      BY <1>2, <1>4
    <2> HIDE DEF n
    <2> QED  BY <2>1, <2>2, KeptAlike
  <1>6. g[n + 1] = KeptAt(t, removed, g, n + 1)
    <2>1. n + 1 \in 0..(n + 1)
      BY <1>1
    <2>2. IsKept(t, removed, n + 1, g)
      BY <1>4
    <2> HIDE DEF n
    <2> QED  BY <2>1, <2>2 DEF IsKept
  <1>7. g[n + 1] = IF x \in removed THEN g[n] ELSE Append(g[n], x)
    BY <1>1, <1>6 DEF KeptAt
  <1> QED  BY <1>2, <1>4, <1>5, <1>7 DEF t

\* If some sequence has a property, then the empty one does, or one has it
\* that has not without its last element.
LEMMA ShortestOf ==
    ASSUME NEW S, NEW B \in SUBSET Seq(S), B # {}
    PROVE  <<>> \in B \/ \E s \in Seq(S), x \in S : Append(s, x) \in B /\ s \notin B
  <1> DEFINE Lens == {Len(s) : s \in B}
  <1>1. Lens \in SUBSET Nat /\ Lens # {}
    <2>1. PICK s : s \in B
      OBVIOUS
    <2>2. Len(s) \in Lens
      BY <2>1
    <2>3. \A u \in Seq(S) : Len(u) \in Nat
      OBVIOUS
    <2> QED  BY <2>2, <2>3
  <1>2. PICK n \in Lens : \A k \in Lens : n <= k
    <2> HIDE DEF Lens
    <2> QED  BY <1>1, Least
  <1>3. PICK b \in B : Len(b) = n
    OBVIOUS
  <1>4. CASE b = <<>>
    BY <1>4
  <1>5. CASE b # <<>>
    <2>1. PICK s \in Seq(S), x \in S : b = Append(s, x)
      BY <1>5, SequenceEmptyOrAppend
    <2>2. Len(b) = Len(s) + 1 /\ Len(s) \in Nat
      BY <2>1, AppendProperties
    <2>3. s \notin B
      <3>1. s \in B => Len(s) \in Lens
        OBVIOUS
      <3>2. ~(n <= Len(s))
        BY <1>3, <2>2
      <3> QED  BY <1>2, <3>1, <3>2
    <2> QED  BY <2>1, <2>3
  <1> QED  BY <1>4, <1>5

\* An element behind the second of two sequences is behind both.
IsBehind(a, b, x) == Append(a \o b, x) = a \o Append(b, x)

LEMMA AppendConcat ==
    ASSUME NEW S, NEW a \in Seq(S), NEW b \in Seq(S), NEW x \in S
    PROVE  IsBehind(a, b, x)
  <1>1. <<x>> \in Seq(S) /\ a \o b \in Seq(S)
    OBVIOUS
  <1>2. Append(a \o b, x) = (a \o b) \o <<x>> /\ Append(b, x) = b \o <<x>>
    BY <1>1, AppendIsConcat
  <1>3. PICK c \in Seq(S) : c = <<x>>
    BY <1>1
  <1>4. (a \o b) \o c = a \o (b \o c)
    BY ConcatAssociative
  <1> QED  BY <1>2, <1>3, <1>4 DEF IsBehind

\* What is kept of two sequences in a row is what is kept of each in a row.
LEMMA WithoutConcat ==
    ASSUME NEW S, NEW s \in Seq(S), NEW t \in Seq(S), NEW removed
    PROVE  Without(s \o t, removed) = Without(s, removed) \o Without(t, removed)
  <1> DEFINE W(u) == Without(u, removed)
             Bad == {u \in Seq(S) : W(s \o u) # W(s) \o W(u)}
  <1>1. \A u \in Seq(S) : W(u) \in Seq(S)
    BY WithoutType
  <1>2. \A u \in Seq(S), x \in S :
           W(Append(u, x)) = IF x \in removed THEN W(u) ELSE Append(W(u), x)
    BY WithoutAppend
  <1>3. W(<<>>) = <<>>
    BY WithoutNone
  <1> HIDE DEF W
  <1>4. <<>> \notin Bad
    <2>1. s \o <<>> = s /\ W(s) \o <<>> = W(s)
      BY <1>1, ConcatEmptySeq
    <2> QED  BY <1>3, <2>1
  <1>5. ASSUME NEW u \in Seq(S), NEW x \in S, W(s \o u) = W(s) \o W(u)
        PROVE  W(s \o Append(u, x)) = W(s) \o W(Append(u, x))
    <2>1. s \o Append(u, x) = Append(s \o u, x)
      OBVIOUS
    <2>2. s \o u \in Seq(S)
      OBVIOUS
    <2>3. W(s \o Append(u, x)) = IF x \in removed THEN W(s) \o W(u) ELSE Append(W(s) \o W(u), x)
      BY <1>2, <1>5, <2>1, <2>2
    <2>4. W(s) \in Seq(S) /\ W(u) \in Seq(S)
      BY <1>1
    <2>5. Append(W(s) \o W(u), x) = W(s) \o Append(W(u), x)
      <3>1. PICK a \in Seq(S), b \in Seq(S) : a = W(s) /\ b = W(u)
        BY <2>4
      <3>2. IsBehind(a, b, x)
        BY AppendConcat
      <3> QED  BY <3>1, <3>2 DEF IsBehind
    <2> QED  BY <1>2, <2>3, <2>5
  <1>6. Bad = {}
    <2>1. Bad \in SUBSET Seq(S)
      OBVIOUS
    <2>2. \A u \in Seq(S), x \in S : Append(u, x) \in Bad => u \in Bad
      BY <1>5
    <2> HIDE DEF Bad
    <2> QED  BY <1>4, <2>1, <2>2, ShortestOf
  <1> QED  BY <1>6 DEF W

\* Of one element it is kept, unless it is removed.
LEMMA WithoutOne ==
    ASSUME NEW S, NEW h \in S, NEW removed
    PROVE  Without(<<h>>, removed) = IF h \in removed THEN <<>> ELSE <<h>>
  <1>1. PICK s \in Seq(S) : s = <<h>> /\ Len(s) = 1 /\ s[1] = h
    <2>1. <<h>> \in Seq(S) /\ Len(<<h>>) = 1 /\ <<h>>[1] = h
      OBVIOUS
    <2> QED  BY <2>1
  <1>2. PICK f : IsKept(s, removed, 1, f) /\ Without(s, removed) = f[1]
    BY <1>1, WithoutKept
  <1>3. f[0] = KeptAt(s, removed, f, 0) /\ f[1] = KeptAt(s, removed, f, 1)
    <2>1. 0 \in 0..1 /\ 1 \in 0..1
      OBVIOUS
    <2> QED  BY <1>2, <2>1 DEF IsKept
  <1>4. f[0] = <<>> /\ f[1] = IF h \in removed THEN f[0] ELSE Append(f[0], h)
    <2>1. f[0] = <<>>
      BY <1>3 DEF KeptAt
    <2>2. /\ s[1] \in removed => f[1] = f[0]
          /\ s[1] \notin removed => f[1] = Append(f[0], s[1])
      <3>1. f[1] = KeptAt(s, removed, f, 1)
        BY <1>3
      <3> QED  BY <3>1 DEF KeptAt
    <2> QED  BY <1>1, <2>1, <2>2, Zenon
  <1>5. Append(<<>>, h) = <<h>>
    OBVIOUS
  <1> QED  BY <1>1, <1>2, <1>4, <1>5

\* One more is kept in front, unless it is removed.
LEMMA WithoutCons ==
    ASSUME NEW S, NEW h \in S, NEW t \in Seq(S), NEW removed
    PROVE  Without(<<h>> \o t, removed) = IF h \in removed THEN Without(t, removed)
                                          ELSE <<h>> \o Without(t, removed)
  <1>1. <<h>> \in Seq(S) /\ <<h>> = Append(<<>>, h) /\ <<>> \in Seq(S)
    OBVIOUS
  <1>2. Without(<<h>> \o t, removed) = Without(<<h>>, removed) \o Without(t, removed)
    <2>1. PICK a \in Seq(S) : a = <<h>>
      BY <1>1
    <2>2. Without(a \o t, removed) = Without(a, removed) \o Without(t, removed)
      BY WithoutConcat
    <2> QED  BY <2>1, <2>2, Zenon
  <1>5. Without(<<h>>, removed) = IF h \in removed THEN <<>> ELSE <<h>>
    BY WithoutOne
  <1>6. Without(t, removed) \in Seq(S)
    BY WithoutType
  <1>7. <<>> \o Without(t, removed) = Without(t, removed)
    BY <1>6, ConcatEmptySeq
  <1> QED  BY <1>2, <1>5, <1>7

\* The first element is kept first.
LEMMA WithoutHead ==
    ASSUME NEW S, NEW s \in Seq(S), s # <<>>, NEW removed
    PROVE  Without(s, removed) = IF Head(s) \in removed THEN Without(Tail(s), removed)
                                 ELSE <<Head(s)>> \o Without(Tail(s), removed)
  <1>1. Head(s) \in S /\ Tail(s) \in Seq(S) /\ s = <<Head(s)>> \o Tail(s)
    OBVIOUS
  <1>2. PICK h \in S, t \in Seq(S) : h = Head(s) /\ t = Tail(s) /\ s = <<h>> \o t
    BY <1>1
  <1>3. Without(<<h>> \o t, removed) = IF h \in removed THEN Without(t, removed)
                                       ELSE <<h>> \o Without(t, removed)
    BY WithoutCons
  <1> QED  BY <1>2, <1>3, Zenon

\* Its elements are those of the sequence that are not removed.
LEMMA WithoutRange ==
    ASSUME NEW S, NEW s \in Seq(S), NEW removed
    PROVE  Range(Without(s, removed)) = Range(s) \ removed
  <1> DEFINE W(u) == Without(u, removed)
             Bad == {u \in Seq(S) : Range(W(u)) # Range(u) \ removed}
  <1>a. \A u \in Seq(S), x \in S : Range(Append(u, x)) = Range(u) \cup {x}
    <2> SUFFICES ASSUME NEW u \in Seq(S), NEW x \in S
                 PROVE  Range(Append(u, x)) = Range(u) \cup {x}
      OBVIOUS
    <2>1. /\ DOMAIN u = 1..Len(u) /\ DOMAIN Append(u, x) = 1..(Len(u) + 1) /\ Len(u) \in Nat
          /\ \A i \in 1..Len(u) : Append(u, x)[i] = u[i]
          /\ Append(u, x)[Len(u) + 1] = x
      OBVIOUS
    <2> QED  BY <2>1 DEF Range
  <1>0. \A u \in Seq(S) : W(u) \in Seq(S)
    BY WithoutType
  <1>1. \A u \in Seq(S), x \in S :
           W(Append(u, x)) = IF x \in removed THEN W(u) ELSE Append(W(u), x)
    BY WithoutAppend
  <1>2. W(<<>>) = <<>>
    BY WithoutNone
  <1> HIDE DEF W
  <1>3. <<>> \notin Bad
    <2>1. Range(<<>>) = {}
      BY DEF Range
    <2> QED  BY <1>2, <2>1
  <1>4. ASSUME NEW u \in Seq(S), NEW x \in S, Range(W(u)) = Range(u) \ removed
        PROVE  Range(W(Append(u, x))) = Range(Append(u, x)) \ removed
    <2>1. Range(Append(u, x)) = Range(u) \cup {x}
      BY <1>a
    <2>2. CASE x \in removed
      BY <1>1, <1>4, <2>1, <2>2
    <2>3. CASE x \notin removed
      <3>1. W(Append(u, x)) = Append(W(u), x) /\ W(u) \in Seq(S)
        BY <1>0, <1>1, <2>3
      <3>2. Range(W(Append(u, x))) = Range(W(u)) \cup {x}
        BY <1>a, <3>1
      <3> QED  BY <1>4, <2>1, <2>3, <3>2
    <2> QED  BY <2>2, <2>3
  <1>5. Bad = {}
    <2>1. Bad \in SUBSET Seq(S)
      OBVIOUS
    <2>2. \A u \in Seq(S), x \in S : Append(u, x) \in Bad => u \in Bad
      BY <1>4
    <2> HIDE DEF Bad
    <2> QED  BY <1>3, <2>1, <2>2, ShortestOf
  <1> QED  BY <1>5 DEF W
-----------------------------------------------------------------------------
\* One place of a sequence is cut out.
IsCut(s, i, cut) ==
    /\ Len(cut) = Len(s) - 1
    /\ \A k \in 1..(Len(s) - 1) : cut[k] = IF k < i THEN s[k] ELSE s[k + 1]

\* Two parts joined are the sequence without what is between them.
LEMMA CutOut ==
    ASSUME NEW S, NEW s \in Seq(S), NEW i \in 1..Len(s), NEW cut,
           cut = SubSeq(s, 1, i - 1) \o SubSeq(s, i + 1, Len(s))
    PROVE  cut \in Seq(S) /\ IsCut(s, i, cut)
  <1> DEFINE n == Len(s)
  <1>1. n \in Nat /\ i \in Nat /\ i <= n /\ 1 <= i /\ \A j \in 1..n : s[j] \in S
    OBVIOUS
  <1>2. PICK a \in Seq(S) : /\ a = SubSeq(s, 1, i - 1) /\ Len(a) = i - 1
                            /\ \A j \in 1..(i - 1) : a[j] = s[j]
    <2>1. \A j \in 1..(i - 1) : s[j] \in S
      BY <1>1
    <2>2. i - 1 \in Int /\ 1 \in Int
      BY <1>1
    <2>3. /\ SubSeq(s, 1, i - 1) \in Seq(S)
          /\ Len(SubSeq(s, 1, i - 1)) = IF 1 <= i - 1 THEN i - 1 - 1 + 1 ELSE 0
          /\ \A j \in 1..(i - 1 - 1 + 1) : SubSeq(s, 1, i - 1)[j] = s[1 + j - 1]
      BY <2>1, <2>2, SubSeqProperties
    <2>4. Len(SubSeq(s, 1, i - 1)) = i - 1 /\ \A j \in 1..(i - 1) : SubSeq(s, 1, i - 1)[j] = s[j]
      BY <1>1, <2>3
    <2> QED  BY <2>3, <2>4
  <1>3. PICK b \in Seq(S) : /\ b = SubSeq(s, i + 1, n) /\ Len(b) = n - i
                            /\ \A j \in 1..(n - i) : b[j] = s[i + j]
    <2>1. \A j \in (i + 1)..n : s[j] \in S
      BY <1>1
    <2>2. i + 1 \in Int /\ n \in Int
      BY <1>1
    <2>3. /\ SubSeq(s, i + 1, n) \in Seq(S)
          /\ Len(SubSeq(s, i + 1, n)) = IF i + 1 <= n THEN n - (i + 1) + 1 ELSE 0
          /\ \A j \in 1..(n - (i + 1) + 1) : SubSeq(s, i + 1, n)[j] = s[i + 1 + j - 1]
      <3> HIDE DEF n
      <3> QED  BY <2>1, <2>2, SubSeqProperties
    <2>4. Len(SubSeq(s, i + 1, n)) = n - i /\ \A j \in 1..(n - i) : SubSeq(s, i + 1, n)[j] = s[i + j]
      BY <1>1, <2>3
    <2> QED  BY <2>3, <2>4
  <1>4. cut = a \o b
    BY <1>2, <1>3
  <1> HIDE DEF n
  <1>5. /\ a \o b \in Seq(S) /\ Len(a \o b) = Len(a) + Len(b)
        /\ \A k \in 1..(Len(a) + Len(b)) : (a \o b)[k] = IF k <= Len(a) THEN a[k] ELSE b[k - Len(a)]
    BY ConcatProperties
  <1>6. /\ cut \in Seq(S) /\ Len(cut) = n - 1
        /\ \A k \in 1..(n - 1) : cut[k] = IF k <= i - 1 THEN a[k] ELSE b[k - (i - 1)]
    <2>1. Len(a) = i - 1 /\ Len(a) + Len(b) = n - 1
      BY <1>1, <1>2, <1>3
    <2>2. /\ cut \in Seq(S) /\ Len(cut) = Len(a) + Len(b)
          /\ \A k \in 1..(Len(a) + Len(b)) : cut[k] = IF k <= Len(a) THEN a[k] ELSE b[k - Len(a)]
      BY ONLY <1>4, <1>5, Zenon
    <2> QED  BY ONLY <2>1, <2>2, Zenon
  <1>7. ASSUME NEW k \in 1..(n - 1)
        PROVE  cut[k] = IF k < i THEN s[k] ELSE s[k + 1]
    <2>1. CASE k < i
      <3>1. k <= i - 1 /\ k \in 1..(i - 1)
        BY <1>1, <2>1
      <3> QED  BY <1>2, <1>6, <2>1, <3>1
    <2>2. CASE ~(k < i)
      <3>1. PICK j \in 1..(n - i) : k = i - 1 + j
        <4>1. k - i + 1 \in 1..(n - i) /\ k = i - 1 + (k - i + 1)
          BY <1>1, <2>2
        <4> QED  BY <4>1
      <3>2. ~(k <= i - 1) /\ k - (i - 1) = j /\ i + j = k + 1
        BY <1>1, <3>1
      <3>3. cut[k] = b[j] /\ b[j] = s[k + 1]
        BY <1>3, <1>6, <3>2
      <3> QED  BY <2>2, <3>3
    <2> QED  BY <2>1, <2>2
  <1> QED  BY <1>6, <1>7 DEF IsCut, n

\* The rest of a sequence is what is left without the first.
LEMMA TailIsCut ==
    ASSUME NEW S, NEW s \in Seq(S), s # <<>>
    PROVE  Tail(s) \in Seq(S) /\ 1 \in 1..Len(s) /\ s[1] = Head(s) /\ IsCut(s, 1, Tail(s))
  <1>1. /\ Head(s) = s[1] /\ Tail(s) \in Seq(S) /\ Len(Tail(s)) = Len(s) - 1
        /\ Len(s) \in Nat /\ Len(s) # 0
    BY EmptySeq, HeadTailProperties
  <1>2. \A k \in 1..(Len(s) - 1) : Tail(s)[k] = s[k + 1]
    BY <1>1, HeadTailProperties
  <1> QED  BY <1>1, <1>2 DEF IsCut

\* An element is appended to a sequence.
IsAppended(s, x, t) ==
    /\ Len(t) = Len(s) + 1
    /\ \A k \in 1..Len(s) : t[k] = s[k]
    /\ t[Len(s) + 1] = x

\* Append adds one at the end.
LEMMA Appended ==
    ASSUME NEW S, NEW s \in Seq(S), NEW x \in S, NEW t, t = Append(s, x)
    PROVE  t \in Seq(S) /\ t # <<>> /\ IsAppended(s, x, t)
  <1>1. /\ t \in Seq(S) /\ Len(t) = Len(s) + 1 /\ Len(s) \in Nat
        /\ \A k \in 1..Len(s) : t[k] = s[k]
        /\ t[Len(s) + 1] = x
    OBVIOUS
  <1>2. t # <<>>
    BY <1>1, EmptySeq
  <1> QED  BY <1>1, <1>2 DEF IsAppended

\* The places of a sequence with an element of T, and how many there are.
Places(s, T) == {i \in DOMAIN s : s[i] \in T}

\* The places are finitely many.
LEMMA PlacesFinite ==
    ASSUME NEW S, NEW s \in Seq(S), NEW T
    PROVE  IsFiniteSet(Places(s, T)) /\ Cardinality(Places(s, T)) \in Nat
  <1>1. Len(s) \in Nat /\ DOMAIN s = 1..Len(s)
    OBVIOUS
  <1>2. IsFiniteSet(1..Len(s))
    BY <1>1, FS_Interval
  <1>3. Places(s, T) \subseteq 1..Len(s)
    BY <1>1 DEF Places
  <1> QED  BY <1>2, <1>3, FS_Subset, FS_CardinalityType

\* One more at the end is one more place, if it is in T.
LEMMA PlacesAppend ==
    ASSUME NEW S, NEW s \in Seq(S), NEW x \in S, NEW t \in Seq(S), IsAppended(s, x, t), NEW T
    PROVE  Cardinality(Places(t, T)) = Cardinality(Places(s, T)) + (IF x \in T THEN 1 ELSE 0)
  <1> DEFINE n == Len(s)
  <1>1. /\ n \in Nat /\ DOMAIN s = 1..n /\ DOMAIN t = 1..(n + 1)
        /\ \A i \in 1..n : t[i] = s[i]
        /\ t[n + 1] = x
    BY DEF IsAppended
  <1> HIDE DEF n
  <1>2. n + 1 \notin Places(s, T)
    BY <1>1 DEF Places
  <1>3. Places(t, T) = IF x \in T THEN Places(s, T) \cup {n + 1} ELSE Places(s, T)
    BY <1>1 DEF Places
  <1>4. IsFiniteSet(Places(s, T)) /\ Cardinality(Places(s, T)) \in Nat
    BY PlacesFinite
  <1>5. Cardinality(Places(s, T) \cup {n + 1}) = Cardinality(Places(s, T)) + 1
    BY <1>2, <1>4, FS_AddElement
  <1> QED  BY <1>3, <1>4, <1>5

\* One cut out is one place less, if it was in T.
LEMMA PlacesCut ==
    ASSUME NEW S, NEW s \in Seq(S), NEW i \in 1..Len(s), NEW t \in Seq(S), IsCut(s, i, t), NEW T
    PROVE  Cardinality(Places(s, T))
             = Cardinality(Places(t, T)) + (IF s[i] \in T THEN 1 ELSE 0)
  <1> DEFINE n == Len(s)
  <1>1. /\ n \in Nat /\ DOMAIN s = 1..n /\ DOMAIN t = 1..(n - 1) /\ i \in 1..n
        /\ \A k \in 1..(n - 1) : t[k] = IF k < i THEN s[k] ELSE s[k + 1]
    BY DEF IsCut
  <1> HIDE DEF n
  <1> DEFINE A == Places(t, T)
             B == Places(s, T) \ {i}
             f == [k \in A |-> IF k < i THEN k ELSE k + 1]
  <1>2. A \subseteq 1..(n - 1) /\ B \subseteq 1..n
    BY <1>1 DEF Places
  <1>3. f \in [A -> B]
    <2> SUFFICES ASSUME NEW k \in A PROVE (IF k < i THEN k ELSE k + 1) \in B
      OBVIOUS
    <2>1. k \in 1..(n - 1) /\ t[k] \in T
      BY <1>1 DEF Places
    <2> QED  BY <1>1, <2>1 DEF Places
  <1>4. \A k, j \in A : f[k] = f[j] => k = j
    BY <1>1, <1>2
  <1>5. \A j \in B : \E k \in A : f[k] = j
    <2> SUFFICES ASSUME NEW j \in B PROVE \E k \in A : f[k] = j
      OBVIOUS
    <2>1. j \in 1..n /\ j # i /\ s[j] \in T
      BY <1>1 DEF Places
    <2>2. CASE j < i
      <3>1. j \in A
        BY <1>1, <2>1, <2>2 DEF Places
      <3> QED  BY <2>2, <3>1
    <2>3. CASE j > i
      <3>1. j - 1 \in 1..(n - 1) /\ ~(j - 1 < i) /\ (j - 1) + 1 = j
        BY <1>1, <2>1, <2>3
      <3>2. t[j - 1] = s[j]
        BY <1>1, <3>1
      <3>3. j - 1 \in A
        BY <1>1, <2>1, <3>1, <3>2 DEF Places
      <3> QED  BY <3>1, <3>3
    <2> QED  BY <1>1, <2>1, <2>2, <2>3
  <1>6. IsFiniteSet(A) /\ Cardinality(A) \in Nat
    BY PlacesFinite
  <1>7. IsFiniteSet(Places(s, T)) /\ Cardinality(Places(s, T)) \in Nat
    BY PlacesFinite
  <1> HIDE DEF A, B, f
  <1>8. f \in Bijection(A, B)
    BY <1>3, <1>4, <1>5 DEF Bijection, Injection, Surjection, IsInjective
  <1>9. ExistsBijection(A, B)
    BY <1>8 DEF ExistsBijection
  <1>10. Cardinality(B) = Cardinality(A)
    BY <1>6, <1>9, FS_Bijection
  <1>11. Cardinality(B) = IF i \in Places(s, T) THEN Cardinality(Places(s, T)) - 1
                          ELSE Cardinality(Places(s, T))
    BY <1>7, FS_RemoveElement DEF B
  <1>12. i \in Places(s, T) <=> s[i] \in T
    BY <1>1 DEF Places
  <1>13. Cardinality(Places(s, T)) = Cardinality(A) + (IF s[i] \in T THEN 1 ELSE 0)
    BY <1>6, <1>7, <1>10, <1>11, <1>12
  <1> QED  BY <1>13 DEF A

\* One place of a sequence is replaced.
IsPut(s, i, y, put) ==
    /\ Len(put) = Len(s)
    /\ \A k \in 1..Len(s) : put[k] = IF k = i THEN y ELSE s[k]

\* One place gets another value.
LEMMA PutIn ==
    ASSUME NEW S, NEW s \in Seq(S), NEW i \in 1..Len(s), NEW y \in S,
           NEW put, put = [s EXCEPT ![i] = y]
    PROVE  put \in Seq(S) /\ IsPut(s, i, y, put)
  BY DEF IsPut

\* It is counted if the new value is in T and not for the old one.
LEMMA PlacesPut ==
    ASSUME NEW S, NEW s \in Seq(S), NEW i \in 1..Len(s), NEW y \in S, NEW put \in Seq(S),
           IsPut(s, i, y, put), NEW T
    PROVE  Cardinality(Places(put, T)) + (IF s[i] \in T THEN 1 ELSE 0)
             = Cardinality(Places(s, T)) + (IF y \in T THEN 1 ELSE 0)
  <1>1. DOMAIN s = 1..Len(s) /\ DOMAIN put = 1..Len(s)
    BY DEF IsPut
  <1>2. IsFiniteSet(Places(s, T)) /\ Cardinality(Places(s, T)) \in Nat
    BY PlacesFinite
  <1> DEFINE P == Places(s, T)
  <1>3. Places(put, T) = IF y \in T THEN P \cup {i} ELSE P \ {i}
    BY <1>1 DEF Places, IsPut
  <1>4. i \in P <=> s[i] \in T
    BY <1>1 DEF Places
  <1> HIDE DEF P
  <1>5. /\ Cardinality(P \cup {i}) = IF i \in P THEN Cardinality(P) ELSE Cardinality(P) + 1
        /\ Cardinality(P \ {i}) = IF i \in P THEN Cardinality(P) - 1 ELSE Cardinality(P)
    BY <1>2, FS_AddElement, FS_RemoveElement DEF P
  <1> QED  BY <1>2, <1>3, <1>4, <1>5 DEF P
=============================================================================
