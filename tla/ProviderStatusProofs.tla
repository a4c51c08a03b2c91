------------------------ MODULE ProviderStatusProofs ------------------------
(***************************************************************************)
(* Proofs about the provider status: its conditions never name a type      *)
(* twice, its region label is that of the Prism Central, its addresses are *)
(* the usable ones of the VM, and reporting a VM again changes nothing.    *)
(***************************************************************************)
EXTENDS ProviderStatus, FiniteSetTheorems, FunctionTheorems, SequenceTheorems, TLAPS

-----------------------------------------------------------------------------
(* Lists.  The provers take no induction principle with a predicate as     *)
(* parameter, so each induction goes by the least counterexample.          *)

\* A set of naturals that is not empty has a least element.
LEMMA Least ==
    ASSUME NEW P, P \subseteq Nat, P # {}
    PROVE  \E n \in P : \A m \in P : n <= m
<1>1. PICK n \in P : \A m \in P : <<m, n>> \notin OpToRel(<, Nat)
  BY NatLessThanWellFounded, WFMin
<1>2. ASSUME NEW m \in P PROVE ~(m < n)
  <2>1. m \in Nat /\ n \in Nat
    OBVIOUS
  <2>2. m < n => <<m, n>> \in OpToRel(<, Nat)
    BY <2>1 DEF OpToRel
  <2> QED
    BY <1>1, <2>2
<1> QED
  BY <1>2

\* What holds of 1, and of every number whose predecessor is in, holds of all.
LEMMA UpTo ==
    ASSUME NEW N \in Nat, NEW Good, N > 0 => 1 \in Good,
           \A n \in 2 .. N : n - 1 \in Good => n \in Good
    PROVE  \A n \in 1 .. N : n \in Good
<1> SUFFICES ASSUME {n \in 1 .. N : n \notin Good} # {} PROVE FALSE
  OBVIOUS
<1> DEFINE Bad == {n \in 1 .. N : n \notin Good}
<1>1. PICK n \in Bad : \A m \in Bad : n <= m
  <2>1. Bad \subseteq Nat
    OBVIOUS
  <2> HIDE DEF Bad
  <2> QED
    BY <2>1, Least DEF Bad
<1>2. n \in 2 .. N /\ n - 1 \notin Bad
  BY <1>1
<1> QED
  BY <1>1, <1>2

\* FlattenSeq is well defined: there are the lists it builds one by one.
LEMMA FlattenSteps ==
    ASSUME NEW S, NEW seqs \in Seq(Seq(S)), seqs # <<>>
    PROVE  \E f \in [1 .. Len(seqs) -> Seq(S)] :
              /\ f[1] = seqs[1] /\ f[Len(seqs)] = FlattenSeq(seqs)
              /\ \A i \in 2 .. Len(seqs) : f[i] = f[i - 1] \o seqs[i]
<1> DEFINE N == Len(seqs)
           Cat(s, t) == s \o t
           Step(g, i) == IF i = 1 THEN seqs[i] ELSE Cat(g[i - 1], seqs[i])
           Builds(g, n) == g \in [1 .. n -> Seq(S)] /\ \A i \in 1 .. n : g[i] = Step(g, i)
           Good == {n \in 1 .. N : \E g : Builds(g, n)}
           flatten == CHOOSE f : f = [i \in 1 .. N |-> Step(f, i)]
<1>1. N \in Nat /\ N # 0 /\ \A i \in 1 .. N : seqs[i] \in Seq(S)
  OBVIOUS
<1>2. FlattenSeq(seqs) = flatten[N]
  BY <1>1 DEF FlattenSeq
<1>3. \A s, t \in Seq(S) : Cat(s, t) \in Seq(S)
  BY ConcatProperties
<1> HIDE DEF Cat, N, flatten
<1>4. \E g : Builds(g, 1)
  <2>1. Builds([i \in 1 .. 1 |-> seqs[1]], 1)
    BY <1>1
  <2> HIDE DEF Builds
  <2> QED
    BY <2>1
<1>5. ASSUME NEW n \in 2 .. N, \E g : Builds(g, n - 1) PROVE \E g : Builds(g, n)
  <2>1. PICK g : Builds(g, n - 1)
    BY <1>5
  <2> DEFINE h == [i \in 1 .. n |-> IF i = n THEN Cat(g[n - 1], seqs[n]) ELSE g[i]]
  <2>2. Cat(g[n - 1], seqs[n]) \in Seq(S)
    BY <1>1, <1>3, <2>1
  <2>3. h \in [1 .. n -> Seq(S)]
    BY <1>1, <2>1, <2>2
  <2>4. ASSUME NEW i \in 1 .. n PROVE h[i] = Step(h, i)
    BY <1>1, <2>1
  <2>5. Builds(h, n)
    BY <2>3, <2>4
  <2> HIDE DEF Builds, h
  <2> QED
    BY <2>5
<1>6. N \in Good
  <2> HIDE DEF Builds
  <2>1. 1 \in Good
    BY <1>1, <1>4
  <2>2. ASSUME NEW n \in 2 .. N, n - 1 \in Good PROVE n \in Good
    <3>1. n \in 1 .. N /\ \E g : Builds(g, n - 1)
      BY <1>1, <2>2
    <3>2. \E g : Builds(g, n)
      BY <1>5, <3>1
    <3> QED
      BY <3>1, <3>2
  <2> HIDE DEF Good
  <2>3. \A n \in 1 .. N : n \in Good
    BY <1>1, <2>1, <2>2, UpTo
  <2> QED
    BY <1>1, <2>3
<1>7. PICK g : Builds(g, N)
  <2> HIDE DEF Builds
  <2> QED
    BY <1>6
<1>8. flatten = [i \in 1 .. N |-> Step(flatten, i)]
  <2>1. g = [i \in 1 .. N |-> Step(g, i)]
    BY <1>7
  <2> HIDE DEF Step
  <2> QED
    BY <2>1 DEF flatten
<1>9. \A i \in 1 .. N : g[i] = flatten[i]
  <2> DEFINE Same == {i \in 1 .. N : g[i] = flatten[i]}
  <2>1. 1 \in Same
    BY <1>1, <1>7, <1>8
  <2>2. ASSUME NEW n \in 2 .. N, n - 1 \in Same PROVE n \in Same
    BY <1>1, <1>7, <1>8, <2>2
  <2> HIDE DEF Same
  <2>3. \A i \in 1 .. N : i \in Same
    BY <1>1, <2>1, <2>2, UpTo
  <2> QED
    BY <2>3 DEF Same
<1>10. g[1] = seqs[1] /\ g[N] = flatten[N] /\ \A i \in 2 .. N : g[i] = Cat(g[i - 1], seqs[i])
  BY <1>1, <1>7, <1>9
<1> QED
  BY <1>2, <1>7, <1>10 DEF Cat, N

\* The places of the elements in a list of lists.
Places(seqs, n) == {w \in (1 .. n) \X Nat : w[2] \in 1 .. Len(seqs[w[1]])}

\* FlattenSeq yields every element of every list once, and nothing else.
LEMMA Flattened ==
    ASSUME NEW S, NEW seqs \in Seq(Seq(S))
    PROVE  /\ FlattenSeq(seqs) \in Seq(S)
           /\ \E place \in Bijection(1 .. Len(FlattenSeq(seqs)), Places(seqs, Len(seqs))) :
                 \A k \in 1 .. Len(FlattenSeq(seqs)) :
                    FlattenSeq(seqs)[k] = seqs[place[k][1]][place[k][2]]
<1> DEFINE N == Len(seqs)
           Placed(list, n, place) ==
              /\ place \in Bijection(1 .. Len(list), Places(seqs, n))
              /\ \A k \in 1 .. Len(list) : list[k] = seqs[place[k][1]][place[k][2]]
<1>1. N \in Nat /\ \A i \in 1 .. N : seqs[i] \in Seq(S) /\ Len(seqs[i]) \in Nat
  OBVIOUS
<1>2. CASE N = 0
  <2>1. FlattenSeq(seqs) = <<>> /\ Len(<<>>) = 0
    BY <1>2 DEF FlattenSeq
  <2>2. 1 .. Len(<<>>) = {} /\ Places(seqs, N) = {}
    BY <1>2 DEF Places
  <2>3. [k \in {} |-> k] \in Bijection({}, {})
    BY DEF Bijection, Injection, Surjection, IsInjective
  <2> QED
    BY <1>2, <2>1, <2>2, <2>3
<1>3. CASE N # 0
  <2>1. PICK f \in [1 .. N -> Seq(S)] :
              /\ f[1] = seqs[1] /\ f[N] = FlattenSeq(seqs)
              /\ \A i \in 2 .. N : f[i] = f[i - 1] \o seqs[i]
    <3>1. seqs # <<>>
      BY <1>3
    <3> QED
      BY <3>1, FlattenSteps
  <2> DEFINE Good == {n \in 1 .. N : \E place : Placed(f[n], n, place)}
  <2>2. \E place : Placed(f[1], 1, place)
    <3> DEFINE place == [k \in 1 .. Len(seqs[1]) |-> <<1, k>>]
    <3>1. place \in [1 .. Len(seqs[1]) -> Places(seqs, 1)]
      BY <1>1, <1>3 DEF Places
    <3>2. \A a, b \in 1 .. Len(seqs[1]) : place[a] = place[b] => a = b
      OBVIOUS
    <3>3. \A w \in Places(seqs, 1) : \E a \in 1 .. Len(seqs[1]) : place[a] = w
      BY DEF Places
    <3>4. place \in Bijection(1 .. Len(seqs[1]), Places(seqs, 1))
      <4> HIDE DEF place
      <4> QED
        BY <3>1, <3>2, <3>3, Fun_IsBij
    <3>5. Placed(f[1], 1, place)
      BY <2>1, <3>4
    <3> HIDE DEF Placed, place
    <3> QED
      BY <3>5
  <2>3. ASSUME NEW n \in 2 .. N, \E place : Placed(f[n - 1], n - 1, place)
        PROVE  \E place : Placed(f[n], n, place)
    <3>1. PICK old : Placed(f[n - 1], n - 1, old)
      BY <2>3
    <3> DEFINE L == Len(f[n - 1])
               M == Len(seqs[n])
               place == [k \in 1 .. L + M |-> IF k <= L THEN old[k] ELSE <<n, k - L>>]
    <3>2. /\ n \in 1 .. N /\ n - 1 \in 1 .. N /\ n \in Nat
          /\ f[n - 1] \in Seq(S) /\ seqs[n] \in Seq(S) /\ L \in Nat /\ M \in Nat
      <4>1. n \in 1 .. N /\ n - 1 \in 1 .. N /\ n \in Nat
        BY <1>1
      <4>2. f[n - 1] \in Seq(S) /\ seqs[n] \in Seq(S)
        BY <1>1, <4>1
      <4> QED
        BY <4>1, <4>2, LenProperties
    <3>3. /\ Len(f[n]) = L + M
          /\ \A k \in 1 .. L : f[n][k] = f[n - 1][k]
          /\ \A k \in L + 1 .. L + M : f[n][k] = seqs[n][k - L]
      <4> DEFINE both == f[n - 1] \o seqs[n]
      <4>1. f[n] = both
        BY <2>1
      <4>2. /\ Len(both) = L + M
            /\ \A k \in 1 .. L + M : both[k] = IF k <= L THEN f[n - 1][k] ELSE seqs[n][k - L]
        BY <3>2, ConcatProperties
      <4> HIDE DEF L, M, both
      <4> QED
        BY <3>2, <4>1, <4>2
    <3>4. /\ old \in [1 .. L -> Places(seqs, n - 1)]
          /\ \A a, b \in 1 .. L : old[a] = old[b] => a = b
          /\ \A w \in Places(seqs, n - 1) : \E a \in 1 .. L : old[a] = w
          /\ \A k \in 1 .. L : f[n - 1][k] = seqs[old[k][1]][old[k][2]]
      BY <3>1, Fun_BijectionProperties
    <3> HIDE DEF L, Placed
    <3>5. /\ \A w \in Places(seqs, n - 1) : w \in Places(seqs, n) /\ w[1] # n
          /\ \A k \in 1 .. M : <<n, k>> \in Places(seqs, n)
          /\ \A w \in Places(seqs, n) : w \in Places(seqs, n - 1) \/ \E k \in 1 .. M : w = <<n, k>>
      BY <3>2 DEF Places
    <3> HIDE DEF M
    <3>6. place \in [1 .. L + M -> Places(seqs, n)]
      <4>1. ASSUME NEW k \in 1 .. L + M PROVE place[k] \in Places(seqs, n)
        <5>1. CASE k <= L
          BY <3>2, <3>4, <3>5, <5>1
        <5>2. CASE ~(k <= L)
          <6>1. k - L \in 1 .. M
            BY <3>2, <5>2
          <6> QED
            BY <3>5, <5>2, <6>1
        <5> QED
          BY <5>1, <5>2
      <4> QED
        BY <4>1
    <3>7. ASSUME NEW a \in 1 .. L + M, NEW b \in 1 .. L + M, place[a] = place[b] PROVE a = b
      <4>1. a <= L => place[a] = old[a] /\ a \in 1 .. L /\ old[a][1] # n
        BY <3>2, <3>4, <3>5
      <4>2. b <= L => place[b] = old[b] /\ b \in 1 .. L /\ old[b][1] # n
        BY <3>2, <3>4, <3>5
      <4>3. /\ ~(a <= L) => place[a] = <<n, a - L>>
            /\ ~(b <= L) => place[b] = <<n, b - L>>
        OBVIOUS
      <4> HIDE DEF place
      <4> QED
        BY <3>2, <3>4, <3>7, <4>1, <4>2, <4>3
    <3>8. ASSUME NEW w \in Places(seqs, n) PROVE \E a \in 1 .. L + M : place[a] = w
      <4>1. CASE w \in Places(seqs, n - 1)
        <5>1. PICK a \in 1 .. L : old[a] = w
          BY <3>4, <4>1
        <5>2. a \in 1 .. L + M /\ place[a] = w
          BY <3>2, <5>1
        <5> QED
          BY <5>2
      <4>2. CASE \E k \in 1 .. M : w = <<n, k>>
        <5>1. PICK k \in 1 .. M : w = <<n, k>>
          BY <4>2
        <5>2. PICK j \in 1 .. L + M : ~(j <= L) /\ j - L = k
          <6>1. k + L \in 1 .. L + M /\ ~(k + L <= L) /\ (k + L) - L = k
            BY <3>2
          <6> QED
            BY <6>1
        <5>3. place[j] = <<n, j - L>>
          BY <5>2
        <5> QED
          BY <5>1, <5>2, <5>3
      <4> QED
        BY <3>5, <4>1, <4>2
    <3>9. ASSUME NEW k \in 1 .. L + M PROVE f[n][k] = seqs[place[k][1]][place[k][2]]
      <4>1. CASE k <= L
        BY <3>2, <3>3, <3>4, <4>1
      <4>2. CASE ~(k <= L)
        <5>1. k \in L + 1 .. L + M /\ place[k] = <<n, k - L>>
          BY <3>2, <4>2
        <5> QED
          BY <3>3, <5>1
      <4> QED
        BY <4>1, <4>2
    <3> HIDE DEF place
    <3>10. place \in Bijection(1 .. L + M, Places(seqs, n))
      BY <3>6, <3>7, <3>8, Fun_IsBij
    <3>11. Placed(f[n], n, place)
      BY <3>3, <3>9, <3>10 DEF Placed
    <3> QED
      BY <3>11
  <2> HIDE DEF Placed
  <2>4. N \in Good
    <3>1. 1 \in Good
      BY <1>1, <1>3, <2>2
    <3>2. ASSUME NEW n \in 2 .. N, n - 1 \in Good PROVE n \in Good
      <4>1. n \in 1 .. N /\ \E place : Placed(f[n - 1], n - 1, place)
        BY <1>1, <3>2
      <4>2. \E place : Placed(f[n], n, place)
        BY <2>3, <4>1
      <4> QED
        BY <4>1, <4>2
    <3> HIDE DEF Good, N
    <3>3. \A n \in 1 .. N : n \in Good
      BY <1>1, <3>1, <3>2, UpTo
    <3> QED
      BY <1>1, <1>3, <3>3
  <2>5. PICK place : Placed(f[N], N, place)
    BY <2>4
  <2> QED
    BY <1>1, <1>3, <2>1, <2>5 DEF Placed
<1> QED
  BY <1>2, <1>3

\* The elements of the flattened list.
LEMMA FlattenedRange ==
    ASSUME NEW S, NEW seqs \in Seq(Seq(S))
    PROVE  /\ FlattenSeq(seqs) \in Seq(S)
           /\ Range(FlattenSeq(seqs)) = UNION {Range(seqs[i]) : i \in DOMAIN seqs}
<1> DEFINE N == Len(seqs)
           flat == FlattenSeq(seqs)
<1>1. flat \in Seq(S)
  BY Flattened
<1>2. PICK place \in Bijection(1 .. Len(flat), Places(seqs, N)) :
            \A k \in 1 .. Len(flat) : flat[k] = seqs[place[k][1]][place[k][2]]
  BY Flattened
<1>3. /\ place \in [1 .. Len(flat) -> Places(seqs, N)]
      /\ \A w \in Places(seqs, N) : \E k \in 1 .. Len(flat) : place[k] = w
  BY Fun_BijectionProperties
<1>4. DOMAIN flat = 1 .. Len(flat) /\ DOMAIN seqs = 1 .. N
  BY <1>1, LenProperties
<1>5. \A i \in 1 .. N : DOMAIN seqs[i] = 1 .. Len(seqs[i]) /\ Len(seqs[i]) \in Nat
  BY LenProperties, ElementOfSeq
<1> HIDE DEF flat, N
<1>6. ASSUME NEW x \in Range(flat) PROVE \E i \in DOMAIN seqs : x \in Range(seqs[i])
  <2>1. PICK k \in 1 .. Len(flat) : x = flat[k]
    BY <1>4 DEF Range
  <2>2. place[k][1] \in 1 .. N /\ place[k][2] \in 1 .. Len(seqs[place[k][1]])
    BY <1>3 DEF Places
  <2> QED
    BY <1>2, <1>4, <1>5, <2>1, <2>2 DEF Range
<1>7. ASSUME NEW i \in DOMAIN seqs, NEW x \in Range(seqs[i]) PROVE x \in Range(flat)
  <2>1. PICK j \in 1 .. Len(seqs[i]) : x = seqs[i][j]
    BY <1>4, <1>5 DEF Range
  <2>2. <<i, j>> \in Places(seqs, N)
    BY <1>4, <1>5 DEF Places
  <2>3. PICK k \in 1 .. Len(flat) : place[k] = <<i, j>>
    BY <1>3, <2>2
  <2> QED
    BY <1>2, <1>4, <2>1, <2>3 DEF Range
<1> QED
  BY <1>1, <1>6, <1>7 DEF flat

\* other holds what list does, perhaps in another order.
Rearranged(other, list) ==
    \E move \in Bijection(1 .. Len(other), 1 .. Len(list)) :
        \A k \in 1 .. Len(other) : other[k] = list[move[k]]

\* What a permutation does.
LEMMA Permutes ==
    ASSUME NEW I, NEW q \in Bijection(I, I)
    PROVE  /\ q \in [I -> I] /\ \A i \in I : q[i] \in I
           /\ \A i, j \in I : q[i] = q[j] => i = j
           /\ \A k \in I : \E i \in I : q[i] = k
BY Fun_BijectionProperties

\* Lists of lists in another order have the same elements.
LEMMA FlattenedMoved ==
    ASSUME NEW S, NEW seqs \in Seq(Seq(S)), NEW other \in Seq(Seq(S)), Len(other) = Len(seqs),
           NEW q \in Bijection(1 .. Len(seqs), 1 .. Len(seqs)),
           \A i \in 1 .. Len(seqs) : other[i] = seqs[q[i]]
    PROVE  Rearranged(FlattenSeq(other), FlattenSeq(seqs))
<1> DEFINE N == Len(seqs)
           flat == FlattenSeq(seqs)
           flatOther == FlattenSeq(other)
           A == Places(seqs, N)
           B == Places(other, N)
           turn == [w \in B |-> <<q[w[1]], w[2]>>]
<1>1. N \in Nat
  OBVIOUS
<1>2. PICK place \in Bijection(1 .. Len(flat), A) :
            \A k \in 1 .. Len(flat) : flat[k] = seqs[place[k][1]][place[k][2]]
  BY Flattened
<1>3. PICK placeOther \in Bijection(1 .. Len(flatOther), B) :
            \A k \in 1 .. Len(flatOther) : flatOther[k] = other[placeOther[k][1]][placeOther[k][2]]
  BY Flattened
<1>4. /\ \A i \in 1 .. N : other[i] = seqs[q[i]] /\ q[i] \in 1 .. N
      /\ \A i, j \in 1 .. N : q[i] = q[j] => i = j
      /\ \A k \in 1 .. N : \E i \in 1 .. N : q[i] = k
  <2> DEFINE I == 1 .. N
  <2>1. q \in Bijection(I, I) /\ \A i \in I : other[i] = seqs[q[i]]
    OBVIOUS
  <2> HIDE DEF I
  <2>2. /\ \A i, j \in I : q[i] = q[j] => i = j
        /\ \A i \in I : q[i] \in I
        /\ \A k \in I : \E i \in I : q[i] = k
    BY <2>1, Permutes
  <2> QED
    BY <2>1, <2>2 DEF I
<1> HIDE DEF N, flat, flatOther
<1>5. turn \in Bijection(B, A)
  <2>1. ASSUME NEW w \in B
        PROVE  /\ w[1] \in 1 .. N /\ w = <<w[1], w[2]>> /\ turn[w] = <<q[w[1]], w[2]>>
               /\ turn[w] \in A
    <3>1. w[1] \in 1 .. N /\ w[2] \in Nat /\ w[2] \in 1 .. Len(other[w[1]]) /\ w = <<w[1], w[2]>>
      BY DEF Places
    <3>2. q[w[1]] \in 1 .. N
      BY <1>4, <3>1
    <3>3. <<q[w[1]], w[2]>> \in A
      BY <1>4, <3>1, <3>2 DEF Places
    <3> QED
      BY <3>1, <3>3
  <2>2. turn \in [B -> A] /\ \A v, w \in B : turn[v] = turn[w] => v = w
    <3>1. turn \in [B -> A]
      <4>1. turn = [w \in B |-> turn[w]]
        OBVIOUS
      <4> HIDE DEF turn, A, B
      <4> QED
        BY <2>1, <4>1
    <3>2. ASSUME NEW v \in B, NEW w \in B, turn[v] = turn[w] PROVE v = w
      <4> HIDE DEF turn, A, B
      <4>1. q[v[1]] = q[w[1]] /\ v[2] = w[2]
        BY <2>1, <3>2
      <4>2. v[1] = w[1]
        BY <1>4, <2>1, <4>1
      <4> QED
        BY <2>1, <4>1, <4>2
    <3> QED
      BY <3>1, <3>2
  <2>3. ASSUME NEW w \in A PROVE \E v \in B : turn[v] = w
    <3>1. w[1] \in 1 .. N /\ w[2] \in Nat /\ w[2] \in 1 .. Len(seqs[w[1]]) /\ w = <<w[1], w[2]>>
      BY DEF Places
    <3>2. PICK i \in 1 .. N : q[i] = w[1]
      BY <1>4, <3>1
    <3> DEFINE v == <<i, w[2]>>
    <3>3. v \in B
      <4>1. other[i] = seqs[w[1]]
        <5> HIDE DEF A, B, turn, v
        <5>1. other[i] = seqs[q[i]]
          BY <1>4
        <5> QED
          BY <3>2, <5>1
      <4>2. v \in (1 .. N) \X Nat /\ v[1] = i /\ v[2] = w[2]
        BY <3>1
      <4>3. v[2] \in 1 .. Len(other[v[1]])
        BY <3>1, <4>1, <4>2
      <4> HIDE DEF v
      <4> QED
        BY <4>2, <4>3 DEF Places
    <3>4. turn[v] = w
      BY <3>1, <3>2, <3>3
    <3> QED
      BY <3>3, <3>4
  <2> HIDE DEF turn, A, B
  <2> QED
    BY <2>2, <2>3, Fun_IsBij
<1> DEFINE back == Inverse(place, 1 .. Len(flat), A)
           there == [k \in 1 .. Len(flatOther) |-> turn[placeOther[k]]]
           move == [k \in 1 .. Len(flatOther) |-> back[there[k]]]
<1>6. \A w \in B : turn[w][1] = q[w[1]] /\ turn[w][2] = w[2] /\ w[1] \in 1 .. N
  BY DEF Places
<1> HIDE DEF turn, A, B
<1>7. there \in Bijection(1 .. Len(flatOther), A)
  BY <1>5, Fun_BijTransitive
<1>8. back \in Bijection(A, 1 .. Len(flat)) /\ \A w \in A : place[back[w]] = w
  <2>1. back \in Bijection(A, 1 .. Len(flat))
    BY Fun_BijInverse
  <2>2. \A k \in 1 .. Len(flat) : back[place[k]] = k
    BY Fun_BijInverse
  <2>3. \A w \in A : \E k \in 1 .. Len(flat) : place[k] = w
    BY Fun_BijectionProperties
  <2> HIDE DEF back
  <2> QED
    BY <2>1, <2>2, <2>3
<1> HIDE DEF back
<1>9. move \in Bijection(1 .. Len(flatOther), 1 .. Len(flat))
  <2> DEFINE I == 1 .. Len(flatOther)
             J == 1 .. Len(flat)
  <2>1. there \in Bijection(I, A) /\ back \in Bijection(A, J) /\ move = [k \in I |-> back[there[k]]]
    BY <1>7, <1>8
  <2> HIDE DEF there, move, I, J
  <2>2. move \in Bijection(I, J)
    BY <2>1, Fun_BijTransitive
  <2> QED
    BY <2>2 DEF I, J
<1>10. ASSUME NEW k \in 1 .. Len(flatOther) PROVE flatOther[k] = flat[move[k]]
  <2>1. /\ placeOther[k] \in B /\ there[k] = turn[placeOther[k]]
        /\ there[k] \in A /\ move[k] = back[there[k]] /\ move[k] \in 1 .. Len(flat)
    <3>1. /\ placeOther \in [1 .. Len(flatOther) -> B]
          /\ there \in [1 .. Len(flatOther) -> A]
          /\ move \in [1 .. Len(flatOther) -> 1 .. Len(flat)]
      <4> HIDE DEF there, move
      <4> QED
        BY <1>7, <1>9, Fun_BijectionProperties
    <3> QED
      BY <3>1
  <2> HIDE DEF there, move
  <2>2. place[move[k]] = turn[placeOther[k]]
    BY <1>8, <2>1
  <2>3. flat[move[k]] = seqs[q[placeOther[k][1]]][placeOther[k][2]]
    BY <1>2, <1>6, <2>1, <2>2
  <2> QED
    BY <1>3, <1>4, <1>6, <2>1, <2>3
<1> HIDE DEF move
<1> QED
  BY <1>9, <1>10 DEF Rearranged, flat, flatOther

\* Every list of addresses can be sorted: each element goes to the place that
\* is the number of those that belong before it, itself included.
LEMMA Sortable ==
    ASSUME NEW ips \in Seq(Nat)
    PROVE  \E p \in Bijection(1 .. Len(ips), 1 .. Len(ips)) :
              \A i, j \in 1 .. Len(ips) : i < j => ips[p[i]] <= ips[p[j]]
<1> DEFINE N == Len(ips)
           I == 1 .. N
           Before(j, i) == ips[j] < ips[i] \/ (ips[j] = ips[i] /\ j <= i)
           Below(i) == {j \in I : Before(j, i)}
           rank == [i \in I |-> Cardinality(Below(i))]
<1>1. N \in Nat /\ \A i \in I : ips[i] \in Nat
  OBVIOUS
<1>2. IsFiniteSet(I) /\ Cardinality(I) = N
  BY <1>1, FS_Interval
<1>3. I \subseteq Nat
  BY <1>1
<1> HIDE DEF N, I
<1>4. ASSUME NEW i \in I
      PROVE  /\ IsFiniteSet(Below(i)) /\ i \in Below(i) /\ rank[i] = Cardinality(Below(i))
             /\ rank[i] \in Nat /\ rank[i] \in I
  <2>1. i \in Below(i) /\ Below(i) \subseteq I
    BY <1>1, <1>3
  <2>2. IsFiniteSet(Below(i)) /\ Cardinality(Below(i)) <= N /\ Cardinality(Below(i)) \in Nat
    <3> HIDE DEF Below
    <3> QED
      BY <1>2, <2>1, FS_Subset, FS_CardinalityType
  <2>3. Cardinality(Below(i)) # 0
    <3> HIDE DEF Below
    <3> QED
      BY <2>1, <2>2, FS_EmptySet
  <2>4. rank[i] = Cardinality(Below(i))
    OBVIOUS
  <2> HIDE DEF Below, rank
  <2> QED
    BY <1>1, <2>1, <2>2, <2>3, <2>4 DEF I
<1>5. ASSUME NEW i \in I, NEW j \in I, i # j, Before(i, j) PROVE rank[i] < rank[j]
  <2>1. ASSUME NEW k \in Below(i) PROVE k \in Below(j) /\ k # j
    <3>1. k \in I /\ Before(k, i) /\ k \in Nat /\ i \in Nat /\ j \in Nat
      BY <1>3
    <3>2. ips[k] \in Nat /\ ips[i] \in Nat /\ ips[j] \in Nat
      BY <1>1, <3>1
    <3> QED
      BY <1>5, <3>1, <3>2
  <2> HIDE DEF Below, rank
  <2>2. Cardinality(Below(i)) <= Cardinality(Below(j)) /\ Cardinality(Below(i)) # Cardinality(Below(j))
    BY <1>4, <2>1, FS_Subset
  <2> QED
    BY <1>4, <2>2
<1>6. \A i, j \in I : Before(i, j) \/ Before(j, i)
  BY <1>1, <1>3
<1>7. rank \in Bijection(I, I)
  <2>1. rank \in [I -> I]
    <3>1. rank = [i \in I |-> rank[i]]
      OBVIOUS
    <3> HIDE DEF rank
    <3> QED
      BY <1>4, <3>1
  <2> HIDE DEF rank, Before, Below
  <2>2. ASSUME NEW i \in I, NEW j \in I, rank[i] = rank[j] PROVE i = j
    <3>1. ~(rank[i] < rank[j]) /\ ~(rank[j] < rank[i])
      BY <1>4, <2>2
    <3>2. CASE Before(i, j)
      BY <1>5, <3>1, <3>2
    <3>3. CASE Before(j, i)
      BY <1>5, <3>1, <3>3
    <3> QED
      BY <1>6, <3>2, <3>3
  <2>3. rank \in Injection(I, I)
    BY <2>1, <2>2, Fun_IsInj
  <2>4. rank \in Surjection(I, I)
    BY <1>2, <2>3, FS_Injection
  <2> QED
    BY <2>3, <2>4, Fun_IsBij
<1> HIDE DEF rank
<1> DEFINE p == Inverse(rank, I, I)
<1>8. p \in Bijection(I, I) /\ p \in [I -> I]
  BY <1>7, Fun_BijInverse, Fun_BijectionProperties
<1>9. \A i \in I : rank[p[i]] = i
  <2>1. \A i \in I : p[rank[i]] = i
    BY <1>7, Fun_BijInverse
  <2>2. \A i \in I : \E k \in I : rank[k] = i
    BY <1>7, Fun_BijectionProperties
  <2> HIDE DEF p
  <2> QED
    BY <2>1, <2>2
<1> HIDE DEF p
<1>10. ASSUME NEW i \in I, NEW j \in I, i < j PROVE ips[p[i]] <= ips[p[j]]
  <2>1. p[i] \in I /\ p[j] \in I /\ rank[p[i]] = i /\ rank[p[j]] = j
    BY <1>8, <1>9
  <2>2. CASE Before(p[i], p[j])
    BY <1>1, <2>1, <2>2
  <2>3. CASE ~Before(p[i], p[j])
    <3>1. Before(p[j], p[i]) /\ p[j] # p[i]
      <4> HIDE DEF Before
      <4> QED
        BY <1>3, <1>6, <1>10, <2>1, <2>3
    <3>2. j < i
      <4> HIDE DEF Before
      <4> QED
        BY <1>5, <2>1, <3>1
    <3> QED
      BY <1>3, <1>10, <3>2
  <2> QED
    BY <2>2, <2>3
<1> QED
  BY <1>8, <1>10 DEF I, N

\* Sort returns an arrangement of its argument, in order.
LEMMA Sorted ==
    ASSUME NEW ips \in Seq(Nat)
    PROVE  /\ Sort(ips) \in Seq(Nat) /\ DOMAIN Sort(ips) = 1 .. Len(ips)
           /\ Range(Sort(ips)) = Range(ips)
<1> DEFINE I == 1 .. Len(ips)
<1>1. DOMAIN ips = I /\ ips \in [I -> Nat] /\ Len(ips) \in Nat
  BY LenProperties
<1>2. PICK p \in Bijection(I, I) : \A i, j \in I : i < j => ips[p[i]] <= ips[p[j]]
  BY Sortable
<1> HIDE DEF I
<1>3. \E t \in Arrangements(ips) : \A i, j \in DOMAIN ips : i < j => t[i] <= t[j]
  <2> DEFINE t == [i \in I |-> ips[p[i]]]
  <2>1. t \in Arrangements(ips)
    BY <1>1 DEF Arrangements
  <2>2. \A i, j \in DOMAIN ips : i < j => t[i] <= t[j]
    BY <1>1, <1>2
  <2> HIDE DEF t
  <2> QED
    BY <2>1, <2>2
<1>4. Sort(ips) \in Arrangements(ips)
  BY <1>3 DEF Sort
<1>5. PICK q \in Bijection(I, I) : Sort(ips) = [i \in I |-> ips[q[i]]]
  BY <1>1, <1>4 DEF Arrangements
<1>6. q \in [I -> I] /\ \A i \in I : \E k \in I : q[k] = i
  BY Fun_BijectionProperties
<1>7. Sort(ips) \in [I -> Nat] /\ DOMAIN Sort(ips) = I /\ \A i \in I : Sort(ips)[i] = ips[q[i]]
  BY <1>1, <1>5, <1>6
<1>8. Sort(ips) \in Seq(Nat)
  BY <1>1, <1>7, SeqDef DEF I
<1>9. Range(Sort(ips)) = Range(ips)
  BY <1>1, <1>6, <1>7 DEF Range
<1> QED
  BY <1>7, <1>8, <1>9 DEF I

\* The arrangements of a rearranged list are among those of the list.
LEMMA SameArrangements ==
    ASSUME NEW ips \in Seq(Nat), NEW other \in Seq(Nat), Len(other) = Len(ips),
           Rearranged(other, ips)
    PROVE  Arrangements(other) \subseteq Arrangements(ips)
<1> DEFINE I == 1 .. Len(ips)
<1>1. DOMAIN ips = I /\ DOMAIN other = I
  BY LenProperties
<1>2. PICK move \in Bijection(I, I) : \A k \in I : other[k] = ips[move[k]]
  BY DEF Rearranged
<1> HIDE DEF I
<1>3. ASSUME NEW p \in Bijection(I, I)
      PROVE  \E q \in Bijection(I, I) : [i \in I |-> other[p[i]]] = [i \in I |-> ips[q[i]]]
  <2> DEFINE q == [i \in I |-> move[p[i]]]
  <2>1. q \in Bijection(I, I)
    BY Fun_BijTransitive
  <2>2. p \in [I -> I]
    BY Fun_BijectionProperties
  <2>3. [i \in I |-> other[p[i]]] = [i \in I |-> ips[q[i]]]
    BY <1>2, <2>2
  <2> HIDE DEF q
  <2> QED
    BY <2>1, <2>3
<1> SUFFICES ASSUME NEW t \in Arrangements(other) PROVE t \in Arrangements(ips)
  OBVIOUS
<1>4. PICK p \in Bijection(I, I) : t = [i \in I |-> other[p[i]]]
  BY <1>1 DEF Arrangements
<1>5. PICK q \in Bijection(I, I) : t = [i \in I |-> ips[q[i]]]
  BY <1>3, <1>4
<1> QED
  BY <1>1, <1>5 DEF Arrangements

\* So sorting forgets the order.
LEMMA SortSame ==
    ASSUME NEW ips \in Seq(Nat), NEW other \in Seq(Nat), Rearranged(other, ips)
    PROVE  Sort(other) = Sort(ips)
<1>1. PICK move \in Bijection(1 .. Len(other), 1 .. Len(ips)) :
            \A k \in 1 .. Len(other) : other[k] = ips[move[k]]
  BY DEF Rearranged
<1>2. Len(ips) \in Nat /\ Len(other) \in Nat
  BY LenProperties
<1>3. Len(other) = Len(ips)
  <2>1. \A n \in Nat : IsFiniteSet(1 .. n) /\ Cardinality(1 .. n) = n
    BY FS_Interval
  <2>2. ExistsBijection(1 .. Len(other), 1 .. Len(ips))
    BY <1>1, Fun_ExistsBij
  <2> QED
    BY <1>2, <2>1, <2>2, FS_Bijection
<1> DEFINE I == 1 .. Len(ips)
           back == Inverse(move, I, I)
<1>4. move \in Bijection(I, I) /\ \A k \in I : other[k] = ips[move[k]]
  BY <1>1, <1>3
<1> HIDE DEF I
<1>5. back \in Bijection(I, I) /\ \A k \in I : ips[k] = other[back[k]]
  <2>1. move \in [I -> I] /\ \A k \in I : \E i \in I : move[i] = k
    BY <1>4, Fun_BijectionProperties
  <2>2. back \in Bijection(I, I) /\ \A i \in I : back[move[i]] = i
    BY <1>4, Fun_BijInverse
  <2> HIDE DEF back
  <2> QED
    BY <1>4, <2>1, <2>2
<1>6. Rearranged(ips, other)
  <2> HIDE DEF back
  <2> QED
    BY <1>3, <1>5 DEF Rearranged, I
<1>7. Arrangements(other) = Arrangements(ips)
  BY <1>3, <1>6, SameArrangements
<1>8. DOMAIN other = DOMAIN ips
  BY <1>3, LenProperties
<1> QED
  BY <1>7, <1>8 DEF Sort

-----------------------------------------------------------------------------
(* The region.                                                             *)

\* The first of the Prism Centrals is one of them.
LEMMA FirstPrismCentral ==
    ASSUME NEW vm \in VMs, PrismCentrals(vm.clusters) # {}
    PROVE  Min(PrismCentrals(vm.clusters)) \in PrismCentrals(vm.clusters)
<1> DEFINE P == PrismCentrals(vm.clusters)
<1>1. P \subseteq Nat
  <2>1. DOMAIN vm.clusters = 1 .. Len(vm.clusters)
    BY AnswersAssumption, LenProperties
  <2> QED
    BY <2>1 DEF PrismCentrals
<1> HIDE DEF P
<1>2. \E n \in P : \A m \in P : n <= m
  BY <1>1, Least DEF P
<1> QED
  BY <1>2 DEF Min, P

\* getPrismCentralCluster answers None, or a cluster of the list that has an
\* ExtId and is a Prism Central or the only one.
LEMMA PrismCentralFound ==
    ASSUME NEW vm \in VMs, getPrismCentralCluster(vm.clusters) # None
    PROVE  \E c \in Range(vm.clusters) :
              /\ c = getPrismCentralCluster(vm.clusters) /\ c.id # None
              /\ "PRISM_CENTRAL" \in c.functions \/ Range(vm.clusters) = {c}
<1> DEFINE cs == vm.clusters
<1>1. CASE PrismCentrals(cs) # {}
  <2>1. PICK i \in PrismCentrals(cs) : getPrismCentralCluster(cs) = cs[i]
    BY <1>1, FirstPrismCentral DEF getPrismCentralCluster
  <2> QED
    BY <2>1 DEF PrismCentrals, IsPrismCentral, Range
<1>2. CASE PrismCentrals(cs) = {}
  <2>1. Len(cs) = 1 /\ cs[1].id # None /\ getPrismCentralCluster(cs) = cs[1]
    BY <1>2 DEF getPrismCentralCluster
  <2>2. DOMAIN cs = {1}
    <3>1. DOMAIN cs = 1 .. Len(cs)
      BY AnswersAssumption, LenProperties
    <3> QED
      BY <2>1, <3>1
  <2> QED
    BY <2>1, <2>2 DEF Range
<1> QED
  BY <1>1, <1>2

\* What SetLabels writes is the region of the VM.
LEMMA SetLabelsRegion ==
    ASSUME NEW vm \in VMs, SetLabels(vm)
    PROVE  RegionOfVM(labels'.region, vm)
<1>1. /\ getPrismCentralCluster(vm.clusters) # None
      /\ labels'.region = RegionOf(getPrismCentralCluster(vm.clusters))
  BY DEF SetLabels, LabelsOf
<1> QED
  BY <1>1, PrismCentralFound DEF RegionOfVM

\* As long as the last call is a success with a VM, the label is of that VM:
\* the request for the deletion leaves both as they are.
RegionInv == HasVM /\ last.error = None => RegionOfVM(labels.region, last.vm)

\* A step of the operations: the label is written by a success and by nothing
\* else.
LEMMA RegionStep ==
    ASSUME RegionInv, [Next]_vars
    PROVE  /\ RegionInv'
           /\ IF HasVM' /\ last'.error = None THEN RegionOfVM(labels'.region, last'.vm)
              ELSE labels' = labels
<1>1. ASSUME NEW vm \in VMs, CreateSucceeds(vm) \/ UpdateSucceeds(vm)
      PROVE  RegionOfVM(labels'.region, vm) /\ last'.vm = vm /\ vm # None
             /\ last'.error = None /\ last'.op \in {"create", "update"}
  BY <1>1, SetLabelsRegion, AnswersAssumption DEF CreateSucceeds, UpdateSucceeds
<1>2. ASSUME NEW vm \in VMs, NEW e \in Errors, UpdateStateFails(vm, e)
      PROVE  labels' = labels /\ last'.error # None
  BY <1>2, AnswersAssumption DEF UpdateStateFails
<1>3. ASSUME NEW e \in Errors, CreateFails(e) \/ UpdateFails(e) \/ DeleteFails(e)
      PROVE  labels' = labels /\ last'.error # None
  BY <1>3, AnswersAssumption DEF CreateFails, UpdateFails, DeleteFails
<1>4. ASSUME NEW found \in BOOLEAN, DeleteSucceeds(found)
      PROVE  labels' = labels /\ last'.op = "delete"
  BY <1>4 DEF DeleteSucceeds
<1>5. ASSUME UserDelete \/ UNCHANGED vars
      PROVE  labels' = labels /\ last' = last
  BY <1>5 DEF UserDelete, vars
<1> QED
  BY <1>1, <1>2, <1>3, <1>4, <1>5 DEF Next, RegionInv, HasVM

\* After every success the region is that of the Prism Central, and a failure
\* leaves it alone.
THEOREM RegionRightHolds == Spec => RegionRight
<1>1. Init => RegionInv
  BY DEF Init, RegionInv, HasVM
<1>2. RegionInv /\ [Next]_vars => RegionInv'
  BY RegionStep
<1>3. RegionInv /\ [Next]_vars =>
         [IF HasVM' /\ last'.error = None THEN RegionOfVM(labels'.region, last'.vm)
          ELSE labels' = labels]_vars
  BY RegionStep
<1> QED
  BY <1>1, <1>2, <1>3, PTL DEF Spec, RegionRight
-----------------------------------------------------------------------------
(* The addresses.                                                          *)

\* The IPv4 part of a NIC.
Ipv4Typed(nic) ==
    Ipv4Of(nic).static \in Nat \cup {None} /\ Ipv4Of(nic).learned \in Seq(Nat \cup {None})

\* A list of NICs, as both calls return it.
NicList(nics) == nics \in Seq(Range(nics)) /\ \A nic \in Range(nics) : Ipv4Typed(nic)

\* Both NIC lists of a VM are such.
LEMMA NicLists ==
    ASSUME NEW vm \in VMs PROVE NicList(vm.nics) /\ NicList(vm.listed)
<1>1. ASSUME NEW nic \in Range(vm.nics) \cup Range(vm.listed) PROVE Ipv4Typed(nic)
  <2>1. Ipv4Of(nic) \in {nic.info, nic.old}
    BY DEF Ipv4Of
  <2> QED
    BY <2>1, VMsAssumption DEF Ipv4Typed
<1> QED
  BY <1>1, AnswersAssumption DEF NicList

\* The loop keeps the usable addresses.
LEMMA UsableKept ==
    ASSUME NEW ips \in Seq(Nat \cup {None})
    PROVE  /\ UsableOnes(ips) \in Seq(Nat)
           /\ Range(UsableOnes(ips)) = {ip \in Range(ips) : Usable(ip)}
<1> DEFINE parts == [i \in DOMAIN ips |-> IF Usable(ips[i]) THEN <<ips[i]>> ELSE <<>>]
<1>1. DOMAIN ips = 1 .. Len(ips) /\ Len(ips) \in Nat /\ \A i \in DOMAIN ips : ips[i] \in Nat \cup {None}
  BY LenProperties
<1>2. ASSUME NEW i \in DOMAIN ips
      PROVE  /\ parts[i] \in Seq(Nat)
             /\ Range(parts[i]) = IF Usable(ips[i]) THEN {ips[i]} ELSE {}
  <2>1. CASE Usable(ips[i])
    <3>1. ips[i] \in Nat /\ parts[i] = <<ips[i]>>
      BY <1>1, <2>1 DEF Usable
    <3> QED
      BY <2>1, <3>1 DEF Range
  <2>2. CASE ~Usable(ips[i])
    <3>1. parts[i] = <<>>
      BY <2>2
    <3> QED
      BY <2>2, <3>1 DEF Range
  <2> QED
    BY <2>1, <2>2
<1>3. DOMAIN parts = DOMAIN ips /\ parts \in Seq(Seq(Nat))
  <2>1. parts \in [1 .. Len(ips) -> Seq(Nat)]
    <3>1. parts = [i \in 1 .. Len(ips) |-> parts[i]]
      BY <1>1
    <3> HIDE DEF parts
    <3> QED
      BY <1>1, <1>2, <3>1
  <2>2. DOMAIN parts = DOMAIN ips
    OBVIOUS
  <2> HIDE DEF parts
  <2> QED
    BY <1>1, <2>1, <2>2, SeqDef
<1>4. UsableOnes(ips) = FlattenSeq(parts)
  BY DEF UsableOnes
<1> HIDE DEF parts
<1>5. /\ UsableOnes(ips) \in Seq(Nat)
      /\ Range(UsableOnes(ips)) = UNION {Range(parts[i]) : i \in DOMAIN ips}
  BY <1>3, <1>4, FlattenedRange
<1>6. UNION {Range(parts[i]) : i \in DOMAIN ips} = {ip \in Range(ips) : Usable(ip)}
  <2>1. ASSUME NEW x, NEW i \in DOMAIN ips, x \in Range(parts[i]) PROVE x \in Range(ips) /\ Usable(x)
    <3>1. Usable(ips[i]) /\ x = ips[i]
      BY <1>2, <2>1
    <3> QED
      BY <3>1 DEF Range
  <2>2. ASSUME NEW x \in Range(ips), Usable(x) PROVE \E i \in DOMAIN ips : x \in Range(parts[i])
    <3>1. PICK i \in DOMAIN ips : x = ips[i]
      BY DEF Range
    <3> QED
      BY <1>2, <2>2, <3>1
  <2> QED
    BY <2>1, <2>2
<1> QED
  BY <1>5, <1>6

\* getIPsFromNic takes the usable addresses of the NIC.
LEMMA NicAddresses ==
    ASSUME NEW nic, Ipv4Typed(nic)
    PROVE  getIPsFromNic(nic) \in Seq(Nat) /\ Range(getIPsFromNic(nic)) = UsableAddressesOf(nic)
<1> DEFINE static == Ipv4Of(nic).static
           learned == Ipv4Of(nic).learned
<1>1. \A ip : Usable(ip) <=> ip \notin LinkLocal \cup {None, Empty}
  BY DEF Usable, isLinkLocal
<1>2. static \in Nat \cup {None} /\ learned \in Seq(Nat \cup {None})
  BY DEF Ipv4Typed
<1>3. UsableAddressesOf(nic) = IF Usable(static) THEN {static} ELSE {ip \in Range(learned) : Usable(ip)}
  <2>1. {ip \in {static} : ip \notin LinkLocal \cup {None, Empty}} # {} <=> Usable(static)
    BY <1>1
  <2>2. {ip \in Range(learned) : ip \notin LinkLocal \cup {None, Empty}} =
           {ip \in Range(learned) : Usable(ip)}
    BY <1>1
  <2> QED
    BY <2>1, <2>2 DEF UsableAddressesOf
<1>4. CASE Usable(static)
  <2>1. static \in Nat /\ getIPsFromNic(nic) = <<static>>
    BY <1>2, <1>4 DEF Usable, getIPsFromNic
  <2> HIDE DEF static
  <2>2. <<static>> \in Seq(Nat) /\ Range(<<static>>) = {static}
    BY <2>1 DEF Range
  <2> QED
    BY <1>3, <1>4, <2>1, <2>2
<1>5. CASE ~Usable(static)
  BY <1>2, <1>3, <1>5, UsableKept DEF getIPsFromNic
<1> QED
  BY <1>4, <1>5

\* The addresses of each NIC of a list, as a list.
PerNic(nics) == [i \in DOMAIN nics |-> getIPsFromNic(nics[i])]

\* One list of usable addresses for each NIC.
LEMMA PerNicLists ==
    ASSUME NEW nics, NicList(nics)
    PROVE  /\ PerNic(nics) \in Seq(Seq(Nat)) /\ Len(PerNic(nics)) = Len(nics)
           /\ DOMAIN nics = 1 .. Len(nics) /\ Len(nics) \in Nat /\ DOMAIN PerNic(nics) = DOMAIN nics
           /\ \A i \in DOMAIN nics : Range(PerNic(nics)[i]) = UsableAddressesOf(nics[i])
<1>1. nics \in Seq(Range(nics)) /\ \A nic \in Range(nics) : Ipv4Typed(nic)
  BY DEF NicList
<1>2. DOMAIN nics = 1 .. Len(nics) /\ Len(nics) \in Nat
  BY <1>1, LenProperties
<1>3. ASSUME NEW i \in DOMAIN nics
      PROVE  /\ PerNic(nics)[i] \in Seq(Nat)
             /\ Range(PerNic(nics)[i]) = UsableAddressesOf(nics[i])
  <2>1. nics[i] \in Range(nics) /\ PerNic(nics)[i] = getIPsFromNic(nics[i])
    BY DEF Range, PerNic
  <2> QED
    BY <1>1, <2>1, NicAddresses
<1>4. DOMAIN PerNic(nics) = DOMAIN nics /\ PerNic(nics) = [i \in 1 .. Len(nics) |-> PerNic(nics)[i]]
  BY <1>2 DEF PerNic
<1>5. PerNic(nics) \in [1 .. Len(nics) -> Seq(Nat)]
  BY <1>2, <1>3, <1>4
<1>6. PerNic(nics) \in Seq(Seq(Nat))
  BY <1>2, <1>5, SeqDef
<1>7. Len(PerNic(nics)) = Len(nics)
  BY <1>2, <1>4, <1>6, LenProperties
<1> QED
  BY <1>2, <1>3, <1>4, <1>6, <1>7

\* getIPsFromNics takes the usable addresses of all NICs.
LEMMA NicsAddresses ==
    ASSUME NEW nics, NicList(nics)
    PROVE  /\ getIPsFromNics(nics) \in Seq(Nat)
           /\ Range(getIPsFromNics(nics)) = UsableAddressesIn(nics)
           /\ getIPsFromNics(nics) # <<>> <=> UsableAddressesIn(nics) # {}
<1>1. getIPsFromNics(nics) = FlattenSeq(PerNic(nics))
  BY DEF getIPsFromNics, PerNic
<1>2. /\ getIPsFromNics(nics) \in Seq(Nat)
      /\ Range(getIPsFromNics(nics)) = UNION {Range(PerNic(nics)[i]) : i \in DOMAIN nics}
  BY <1>1, PerNicLists, FlattenedRange
<1>3. UNION {Range(PerNic(nics)[i]) : i \in DOMAIN nics} = UsableAddressesIn(nics)
  <2>1. ASSUME NEW x, NEW i \in DOMAIN nics, x \in Range(PerNic(nics)[i]) PROVE x \in UsableAddressesIn(nics)
    <3>1. x \in UsableAddressesOf(nics[i]) /\ nics[i] \in Range(nics)
      <4>1. nics[i] \in Range(nics)
        BY DEF Range
      <4> QED
        BY <2>1, <4>1, PerNicLists
    <3> QED
      BY <3>1 DEF UsableAddressesIn
  <2>2. ASSUME NEW x \in UsableAddressesIn(nics) PROVE \E i \in DOMAIN nics : x \in Range(PerNic(nics)[i])
    <3>1. PICK nic \in Range(nics) : x \in UsableAddressesOf(nic)
      BY DEF UsableAddressesIn
    <3>2. PICK i \in DOMAIN nics : nic = nics[i]
      BY DEF Range
    <3> QED
      BY <3>1, <3>2, PerNicLists
  <2> QED
    BY <2>1, <2>2
<1>4. ASSUME NEW ips \in Seq(Nat) PROVE ips # <<>> <=> Range(ips) # {}
  <2>1. ips # <<>> => 1 \in DOMAIN ips
    BY EmptySeq, LenProperties
  <2> QED
    BY <2>1 DEF Range
<1> QED
  BY <1>2, <1>3, <1>4

\* The usable addresses of a VM: of the Get, or else of ListNicsByVmId.
UsableAddressesOfVM(vm) ==
    IF UsableAddressesIn(vm.nics) # {} THEN UsableAddressesIn(vm.nics)
    ELSE IF vm.listFails THEN {}
    ELSE UsableAddressesIn(vm.listed)

\* buildNodeAddresses finds these, from the Get or from the fallback.
LEMMA Found ==
    ASSUME NEW vm \in VMs
    PROVE  FoundIPs(vm) \in Seq(Nat) /\ Range(FoundIPs(vm)) = UsableAddressesOfVM(vm)
<1>1. <<>> \in Seq(Nat) /\ Range(<<>>) = {}
  BY DEF Range
<1> QED
  BY <1>1, NicLists, NicsAddresses DEF FoundIPs, UsableAddressesOfVM

\* The InternalIPs of a VM are its usable ones; the name has other types.
LEMMA Built ==
    ASSUME NEW vm \in VMs
    PROVE  {a.address : a \in {b \in Range(buildNodeAddresses(vm)) : b.type = "InternalIP"}} =
              UsableAddressesOfVM(vm)
<1> DEFINE ips == Sort(FoundIPs(vm))
           shown == [i \in DOMAIN ips |-> InternalIP(ips[i])]
           names == NameAddresses(vm)
           all == shown \o names
<1>1. /\ ips \in Seq(Nat) /\ DOMAIN ips = 1 .. Len(ips) /\ Len(ips) \in Nat
      /\ Range(ips) = UsableAddressesOfVM(vm)
  BY Found, Sorted, LenProperties
<1>2. buildNodeAddresses(vm) = all
  BY DEF buildNodeAddresses
<1> HIDE DEF ips
<1> DEFINE Entry == {InternalIP(ip) : ip \in Nat} \cup Range(names)
<1>3. /\ shown \in [1 .. Len(ips) -> Entry] /\ DOMAIN shown = 1 .. Len(ips)
      /\ \A i \in 1 .. Len(ips) : shown[i] = InternalIP(ips[i])
  BY <1>1
<1>4. /\ names \in Seq(Entry) /\ Len(names) \in Nat
      /\ \A j \in 1 .. Len(names) : names[j].type # "InternalIP"
  <2>1. CASE vm.name \in {None, ""}
    <3>1. names = <<>>
      BY <2>1 DEF NameAddresses
    <3> HIDE DEF names
    <3> QED BY <3>1
  <2>2. CASE vm.name \notin {None, ""}
    <3> DEFINE dns == [type |-> "InternalDNS", address |-> vm.name]
               host == [type |-> "Hostname", address |-> vm.name]
    <3>1. names = <<dns, host>> /\ dns.type # "InternalIP" /\ host.type # "InternalIP"
      BY <2>2 DEF NameAddresses
    <3> HIDE DEF dns, host, names
    <3>2. dns \in Range(names) /\ host \in Range(names)
      BY <3>1 DEF Range
    <3> QED BY <3>1, <3>2
  <2> QED BY <2>1, <2>2
<1> HIDE DEF shown, Entry, names
<1>5. shown \in Seq(Entry) /\ Len(shown) = Len(ips)
  BY <1>1, <1>3, SeqDef, LenProperties
<1>6. /\ all \in Seq(Entry) /\ Len(all) = Len(ips) + Len(names)
      /\ \A k \in 1 .. Len(ips) + Len(names) :
            all[k] = IF k <= Len(ips) THEN shown[k] ELSE names[k - Len(ips)]
  <2>1. /\ all \in Seq(Entry) /\ Len(all) = Len(shown) + Len(names)
        /\ \A k \in 1 .. Len(shown) + Len(names) :
              all[k] = IF k <= Len(shown) THEN shown[k] ELSE names[k - Len(shown)]
    BY <1>4, <1>5, ConcatProperties
  <2> HIDE DEF all
  <2> QED
    BY <1>4, <1>5, <2>1
<1> HIDE DEF all
<1>7. DOMAIN all = 1 .. Len(ips) + Len(names)
  BY <1>1, <1>6, LenProperties
<1>8. ASSUME NEW k \in 1 .. Len(ips) + Len(names)
      PROVE  IF k <= Len(ips) THEN k \in 1 .. Len(ips) /\ all[k] = InternalIP(ips[k])
             ELSE all[k].type # "InternalIP"
  <2>1. CASE k <= Len(ips)
    BY <1>1, <1>3, <1>6, <2>1
  <2>2. CASE ~(k <= Len(ips))
    <3>1. k - Len(ips) \in 1 .. Len(names)
      BY <1>1, <2>2
    <3> QED
      BY <1>4, <1>6, <2>2, <3>1
  <2> QED
    BY <2>1, <2>2
<1>9. \A ip : InternalIP(ip).type = "InternalIP" /\ InternalIP(ip).address = ip
  BY DEF InternalIP
<1>10. ASSUME NEW a \in Range(all), a.type = "InternalIP" PROVE a.address \in Range(ips)
  <2>1. PICK k \in 1 .. Len(ips) + Len(names) : a = all[k]
    BY <1>7 DEF Range
  <2>2. k \in DOMAIN ips /\ a.address = ips[k]
    BY <1>1, <1>8, <1>9, <1>10, <2>1
  <2> QED
    BY <2>2 DEF Range
<1>11. ASSUME NEW ip \in Range(ips)
       PROVE  \E a \in Range(all) : a.type = "InternalIP" /\ a.address = ip
  <2>1. PICK k \in 1 .. Len(ips) : ip = ips[k]
    BY <1>1 DEF Range
  <2>2. k \in 1 .. Len(ips) + Len(names) /\ k <= Len(ips)
    BY <1>1
  <2>3. all[k] = InternalIP(ip) /\ all[k] \in Range(all)
    BY <1>7, <1>8, <2>1, <2>2 DEF Range
  <2> QED
    BY <1>9, <2>3
<1>12. {a.address : a \in {b \in Range(all) : b.type = "InternalIP"}} = Range(ips)
  BY <1>10, <1>11
<1> QED
  BY <1>1, <1>2, <1>7, <1>12

-----------------------------------------------------------------------------
(* What the status shows of the last VM reported.                          *)

\* The conditions that an operation reports of a VM.
Reported(op, error) ==
    LET type == IF op = "create" THEN "MachineCreation" ELSE "MachineUpdate"
    IN  << IF error = None THEN conditionSuccess(type) ELSE conditionFailed(type, error),
           conditionInstanceReady(IF error = None THEN "True" ELSE "Unknown") >>

\* Addresses and conditions are those of the last VM reported, and so are
\* the labels if there was no error.
StatusInv ==
    HasVM =>
        /\ last.vm \in VMs
        /\ addresses = buildNodeAddresses(last.vm)
        /\ conditions = Reported(last.op, last.error)
        /\ last.error = None => labels = LabelsOf(last.vm)

\* What the steps do: the status is written for the VM at hand, and an error
\* leaves the labels alone.
LEMMA StatusStep ==
    ASSUME StatusInv, [Next]_vars
    PROVE  StatusInv' /\ (HasVM' /\ last'.error # None => labels' = labels)
<1>1. ASSUME NEW vm \in VMs, NEW op \in {"create", "update"}, NEW error, NEW type, NEW ready,
             type = IF op = "create" THEN "MachineCreation" ELSE "MachineUpdate",
             ready = IF error = None THEN "True" ELSE "Unknown",
             addresses' = buildNodeAddresses(vm), Report(type, error, ready),
             last' = [op |-> op, vm |-> vm, error |-> error],
             error = None => labels' = LabelsOf(vm)
      PROVE  StatusInv' /\ last'.error = error
  <2>1. conditions' = Reported(op, error)
    BY <1>1 DEF Report, setNutanixProviderConditions, Reported
  <2>2. last'.op = op /\ last'.vm = vm /\ last'.error = error
    BY <1>1
  <2> QED
    BY <1>1, <2>1, <2>2 DEF StatusInv
<1>2. ASSUME NEW vm \in VMs, CreateSucceeds(vm)
      PROVE  StatusInv' /\ last'.error = None
  BY <1>1, <1>2 DEF CreateSucceeds, SetLabels
<1>3. ASSUME NEW vm \in VMs, UpdateSucceeds(vm)
      PROVE  StatusInv' /\ last'.error = None
  BY <1>1, <1>3 DEF UpdateSucceeds, SetLabels
<1>4. ASSUME NEW vm \in VMs, NEW e \in Errors, UpdateStateFails(vm, e)
      PROVE  StatusInv' /\ labels' = labels
  <2>1. e # None
    BY AnswersAssumption
  <2> QED
    BY <1>1, <1>4, <2>1 DEF UpdateStateFails
<1>5. ASSUME NEW e \in Errors, CreateFails(e) \/ UpdateFails(e) \/ DeleteFails(e)
      PROVE  ~HasVM'
  BY <1>5 DEF CreateFails, UpdateFails, DeleteFails, HasVM
<1>6. ASSUME NEW found \in BOOLEAN, DeleteSucceeds(found)
      PROVE  ~HasVM'
  BY <1>6 DEF DeleteSucceeds, HasVM
<1>7. ASSUME UserDelete \/ UNCHANGED vars
      PROVE  UNCHANGED <<addresses, conditions, labels, last>>
  BY <1>7 DEF UserDelete, vars
<1>8. UNCHANGED <<addresses, conditions, labels, last>> => StatusInv'
  BY DEF StatusInv, HasVM
<1>9. ~HasVM' => StatusInv'
  BY DEF StatusInv
<1> QED
  BY <1>2, <1>3, <1>4, <1>5, <1>6, <1>7, <1>8, <1>9 DEF Next

\* The status always shows the last VM reported.
THEOREM StatusInvHolds == Spec => []StatusInv
<1>1. Init => StatusInv
  BY DEF Init, StatusInv, HasVM
<1>2. StatusInv /\ [Next]_vars => StatusInv'
  BY StatusStep
<1> QED
  BY <1>1, <1>2, PTL DEF Spec

\* The InternalIPs of a Machine are all usable addresses of its VM and
\* nothing else, for any NICs in any number.
THEOREM IPsCompleteHolds == Spec => []IPsComplete
<1>1. StatusInv => IPsComplete
  BY Built DEF StatusInv, IPsComplete, UsableAddressesOfVM
<1> QED
  BY <1>1, StatusInvHolds, PTL

-----------------------------------------------------------------------------
(* Reporting a VM again.                                                   *)

\* A list and an arrangement of it.
LEMMA Moved ==
    ASSUME NEW list, list \in Seq(Range(list)), NEW other \in Arrangements(list)
    PROVE  /\ Len(list) \in Nat /\ Len(other) = Len(list)
           /\ DOMAIN list = 1 .. Len(list) /\ DOMAIN other = 1 .. Len(list)
           /\ \E q \in Bijection(1 .. Len(list), 1 .. Len(list)) :
                 \A i \in 1 .. Len(list) : q[i] \in 1 .. Len(list) /\ other[i] = list[q[i]]
           /\ Range(other) = Range(list)
<1> DEFINE N == Len(list)
<1>1. DOMAIN list = 1 .. N /\ N \in Nat /\ list \in [1 .. N -> Range(list)]
  BY LenProperties
<1> HIDE DEF N
<1>2. PICK q \in Bijection(1 .. N, 1 .. N) : other = [i \in 1 .. N |-> list[q[i]]]
  BY <1>1 DEF Arrangements
<1>3. q \in [1 .. N -> 1 .. N] /\ \A k \in 1 .. N : \E i \in 1 .. N : q[i] = k
  <2> DEFINE I == 1 .. N
  <2>1. q \in Bijection(I, I)
    OBVIOUS
  <2> HIDE DEF I
  <2>2. q \in [I -> I] /\ \A k \in I : \E i \in I : q[i] = k
    BY <2>1, Permutes
  <2> QED
    BY <2>2 DEF I
<1>4. DOMAIN other = 1 .. N /\ \A i \in 1 .. N : q[i] \in 1 .. N /\ other[i] = list[q[i]]
  BY <1>2, <1>3
<1>5. other \in Seq(Range(list))
  <2>1. other \in [1 .. N -> Range(list)]
    BY <1>1, <1>2, <1>3
  <2> QED
    BY <1>1, <2>1, SeqDef
<1>6. Len(other) = N
  BY <1>1, <1>4, <1>5, LenProperties
<1>7. Range(other) = Range(list)
  <2>1. ASSUME NEW x \in Range(list) PROVE x \in Range(other)
    <3>1. PICK k \in 1 .. N : x = list[k]
      BY <1>1 DEF Range
    <3>2. PICK i \in 1 .. N : q[i] = k
      BY <1>3
    <3> QED
      BY <1>4, <3>1, <3>2 DEF Range
  <2>2. ASSUME NEW x \in Range(other) PROVE x \in Range(list)
    <3>1. PICK i \in 1 .. N : x = list[q[i]]
      BY <1>4 DEF Range
    <3> QED
      BY <1>1, <1>4, <3>1 DEF Range
  <2> QED
    BY <2>1, <2>2
<1> QED
  BY <1>1, <1>4, <1>6, <1>7 DEF N

\* The order of the NICs does not show in the sorted addresses.
LEMMA SameNics ==
    ASSUME NEW nics, NEW other, NicList(nics), NicList(other), other \in Arrangements(nics)
    PROVE  /\ Sort(getIPsFromNics(other)) = Sort(getIPsFromNics(nics))
           /\ UsableAddressesIn(other) = UsableAddressesIn(nics)
<1> DEFINE N == Len(nics)
<1>1. /\ N \in Nat /\ Len(other) = N /\ Range(other) = Range(nics)
      /\ DOMAIN nics = 1 .. N /\ DOMAIN other = 1 .. N
  BY Moved DEF NicList
<1>2. PICK q \in Bijection(1 .. N, 1 .. N) :
            \A i \in 1 .. N : q[i] \in 1 .. N /\ other[i] = nics[q[i]]
  BY Moved DEF NicList
<1>3. /\ PerNic(nics) \in Seq(Seq(Nat)) /\ Len(PerNic(nics)) = N
      /\ PerNic(other) \in Seq(Seq(Nat)) /\ Len(PerNic(other)) = N
  BY <1>1, PerNicLists
<1> HIDE DEF N
<1>4. \A i \in 1 .. N : PerNic(other)[i] = PerNic(nics)[q[i]]
  BY <1>1, <1>2 DEF PerNic
<1>5. Rearranged(FlattenSeq(PerNic(other)), FlattenSeq(PerNic(nics)))
  BY <1>3, <1>4, FlattenedMoved
<1>6. /\ getIPsFromNics(other) = FlattenSeq(PerNic(other))
      /\ getIPsFromNics(nics) = FlattenSeq(PerNic(nics))
  BY DEF getIPsFromNics, PerNic
<1>7. Sort(getIPsFromNics(other)) = Sort(getIPsFromNics(nics))
  BY <1>5, <1>6, NicsAddresses, SortSame
<1> QED
  BY <1>1, <1>7 DEF UsableAddressesIn

\* Nor does that of the clusters in the choice of the only Prism Central.
LEMMA SamePrismCentral ==
    ASSUME NEW list, list \in Seq(Range(list)), Cardinality(PrismCentrals(list)) = 1,
           NEW other \in Arrangements(list)
    PROVE  getPrismCentralCluster(other) = getPrismCentralCluster(list) /\ Range(other) = Range(list)
<1> DEFINE N == Len(list)
<1>1. N \in Nat /\ DOMAIN list = 1 .. N /\ DOMAIN other = 1 .. N /\ Range(other) = Range(list)
  BY Moved
<1>2. PICK q \in Bijection(1 .. N, 1 .. N) :
            \A i \in 1 .. N : q[i] \in 1 .. N /\ other[i] = list[q[i]]
  BY Moved
<1> HIDE DEF N
<1>3. /\ \A i, j \in 1 .. N : q[i] = q[j] => i = j
      /\ \A k \in 1 .. N : \E i \in 1 .. N : q[i] = k
  <2> DEFINE I == 1 .. N
  <2>1. q \in Bijection(I, I)
    OBVIOUS
  <2> HIDE DEF I
  <2>2. (\A i, j \in I : q[i] = q[j] => i = j) /\ \A k \in I : \E i \in I : q[i] = k
    BY <2>1, Permutes
  <2> QED
    BY <2>2 DEF I
<1>4. PICK i : PrismCentrals(list) = {i}
  <2>1. IsFiniteSet(1 .. N)
    BY <1>1, FS_Interval
  <2>2. IsFiniteSet(PrismCentrals(list))
    BY <1>1, <2>1, FS_Subset DEF PrismCentrals
  <2> QED
    BY <2>2, FS_Singleton
<1>5. i \in 1 .. N
  BY <1>1, <1>4 DEF PrismCentrals
<1>6. PICK j \in 1 .. N : q[j] = i
  BY <1>3, <1>5
<1>7. PrismCentrals(other) = {j}
  <2>1. \A k \in 1 .. N : k \in PrismCentrals(list) <=> IsPrismCentral(list[k])
    BY <1>1 DEF PrismCentrals
  <2>2. \A k \in 1 .. N : k \in PrismCentrals(other) <=> IsPrismCentral(other[k])
    BY <1>1 DEF PrismCentrals
  <2>3. j \in PrismCentrals(other)
    BY <1>2, <1>4, <1>5, <1>6, <2>1, <2>2
  <2>4. ASSUME NEW k \in PrismCentrals(other) PROVE k = j
    <3>1. k \in 1 .. N
      BY <1>1 DEF PrismCentrals
    <3>2. q[k] \in PrismCentrals(list)
      BY <1>2, <2>1, <2>2, <3>1
    <3> QED
      BY <1>3, <1>4, <1>6, <3>1, <3>2
  <2> QED
    BY <2>3, <2>4
<1>8. \A k \in Nat : Min({k}) = k
  BY DEF Min
<1>9. Min(PrismCentrals(list)) = i /\ Min(PrismCentrals(other)) = j
  BY <1>1, <1>4, <1>5, <1>6, <1>7, <1>8
<1> QED
  BY <1>1, <1>2, <1>4, <1>6, <1>7, <1>9 DEF getPrismCentralCluster

\* So two answers about the same VM give the same addresses and labels.
LEMMA SameReport ==
    ASSUME NEW vm \in VMs, NEW other \in VMs, SameVM(vm, other)
    PROVE  buildNodeAddresses(other) = buildNodeAddresses(vm) /\ LabelsOf(other) = LabelsOf(vm)
<1>1. /\ Sort(getIPsFromNics(other.nics)) = Sort(getIPsFromNics(vm.nics))
      /\ UsableAddressesIn(other.nics) = UsableAddressesIn(vm.nics)
  BY NicLists, SameNics DEF SameVM
<1>2. Sort(getIPsFromNics(other.listed)) = Sort(getIPsFromNics(vm.listed))
  BY NicLists, SameNics DEF SameVM
<1>3. getIPsFromNics(other.nics) # <<>> <=> getIPsFromNics(vm.nics) # <<>>
  BY <1>1, NicLists, NicsAddresses
<1>4. Sort(FoundIPs(other)) = Sort(FoundIPs(vm))
  BY <1>1, <1>2, <1>3 DEF FoundIPs, SameVM
<1>5. /\ getPrismCentralCluster(other.clusters) = getPrismCentralCluster(vm.clusters)
      /\ Range(other.clusters) = Range(vm.clusters)
  BY AnswersAssumption, SamePrismCentral DEF SameVM
<1>6. getClusterNameByUUID(other) = getClusterNameByUUID(vm)
  BY <1>5 DEF getClusterNameByUUID, SameVM
<1> QED
  BY <1>4, <1>5, <1>6 DEF buildNodeAddresses, NameAddresses, LabelsOf, SameVM

\* Reporting an unchanged VM again writes nothing, for any NICs and clusters
\* in any order.
THEOREM RepeatQuietHolds == Spec => RepeatQuiet
<1>1. ASSUME StatusInv, [Next]_vars, HasVM, HasVM', last'.op = last.op, last'.error = last.error,
             SameVM(last.vm, last'.vm)
      PROVE  addresses' = addresses /\ conditions' = conditions /\ labels' = labels
  <2>1. StatusInv' /\ (last'.error # None => labels' = labels)
    BY <1>1, StatusStep
  <2>2. /\ last.vm \in VMs /\ addresses = buildNodeAddresses(last.vm)
        /\ conditions = Reported(last.op, last.error)
        /\ last.error = None => labels = LabelsOf(last.vm)
    BY <1>1 DEF StatusInv
  <2>3. /\ last'.vm \in VMs /\ addresses' = buildNodeAddresses(last'.vm)
        /\ conditions' = Reported(last'.op, last'.error)
        /\ last'.error = None => labels' = LabelsOf(last'.vm)
    BY <1>1, <2>1 DEF StatusInv
  <2>4. buildNodeAddresses(last'.vm) = buildNodeAddresses(last.vm) /\ LabelsOf(last'.vm) = LabelsOf(last.vm)
    BY <1>1, <2>2, <2>3, SameReport
  <2> QED
    BY <1>1, <2>1, <2>2, <2>3, <2>4
<1>2. StatusInv /\ [Next]_vars =>
         [HasVM /\ HasVM' /\ last'.op = last.op /\ last'.error = last.error
             /\ SameVM(last.vm, last'.vm)
             => addresses' = addresses /\ conditions' = conditions /\ labels' = labels]_vars
  BY <1>1
<1> QED
  BY <1>2, StatusInvHolds, PTL DEF Spec, RepeatQuiet
=============================================================================
