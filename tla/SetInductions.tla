---------------------------- MODULE SetInductions ----------------------------
(***************************************************************************)
(* Induction over the naturals for sets instead of predicates: what the        *)
(* proofs about recursive functions rest on; and what follows about sequences  *)
(* of sequences, their parts and the sequence they make up.                    *)
(***************************************************************************)
EXTENDS Integers, SequencesExt, SequenceTheorems, WellFoundedInduction, TLAPS

\* A set of naturals that is not empty has a least element.
LEMMA LeastNat ==
  ASSUME NEW T, T \subseteq Nat, T # {}
  PROVE  \E x \in T : \A y \in T : x <= y
  <1> DEFINE R == OpToRel(<, Nat)
  <1>1. IsWellFoundedOn(R, Nat)
    BY NatLessThanWellFounded, Zenon
  <1>2. \E x \in T : \A y \in T : <<y, x>> \notin R
    <2> HIDE DEF R
    <2> QED BY <1>1, WFMin, Zenon
  <1>3. \A x, y \in Nat : y < x => <<y, x>> \in R
    BY Zenon DEF OpToRel
  <1> HIDE DEF R
  <1>4. PICK x \in T : \A y \in T : <<y, x>> \notin R
    BY <1>2, Zenon
  <1>5. \A y \in T : ~(y < x)
    BY <1>3, <1>4, Zenon
  <1>6. \A y \in T : x <= y
    BY <1>5
  <1> QED BY <1>6

\* A set with 0 that is closed under + 1 has all naturals.
LEMMA SetInduction ==
  ASSUME NEW T, 0 \in T, \A n \in Nat : n \in T => n + 1 \in T
  PROVE  Nat \subseteq T
  <1> SUFFICES ASSUME Nat \ T # {} PROVE FALSE
    OBVIOUS
  <1>1. PICK x \in Nat \ T : \A y \in Nat \ T : x <= y
    <2> DEFINE U == Nat \ T
    <2>1. U \subseteq Nat /\ U # {}
      OBVIOUS
    <2> HIDE DEF U
    <2>2. \E x \in U : \A y \in U : x <= y
      BY <2>1, LeastNat
    <2> QED BY <2>2 DEF U
  <1>2. x # 0 /\ x - 1 \in Nat
    BY <1>1
  <1>3. x - 1 \in T
    BY <1>1, <1>2
  <1>4. (x - 1) + 1 = x
    BY <1>1
  <1> QED BY <1>1, <1>2, <1>3, <1>4

\* A set with every place of which it has all later ones has all places.
LEMMA DownInduction ==
  ASSUME NEW T, NEW l \in Nat,
         \A p \in 1..(l + 1) : (\A q \in (p + 1)..(l + 1) : q \in T) => p \in T
  PROVE  1..(l + 1) \subseteq T
  <1> DEFINE U == {n \in Nat : n <= l /\ l + 1 - n \notin T}
  <1>1. CASE U = {}
    <2>1. ASSUME NEW p \in 1..(l + 1) PROVE p \in T
      <3>1. l + 1 - p \in Nat /\ l + 1 - p <= l /\ l + 1 - (l + 1 - p) = p
        OBVIOUS
      <3> QED BY <1>1, <3>1
    <2> QED BY <2>1
  <1>2. CASE U # {}
    <2>1. U \subseteq Nat
      OBVIOUS
    <2>2. PICK n \in U : \A m \in U : n <= m
      <3> HIDE DEF U
      <3> QED BY <1>2, <2>1, LeastNat
    <2>3. n \in Nat /\ n <= l /\ l + 1 - n \notin T /\ l + 1 - n \in 1..(l + 1)
      BY <2>2
    <2>4. ASSUME NEW q \in (l + 1 - n + 1)..(l + 1), q \notin T PROVE FALSE
      <3>1. l + 1 - q \in Nat /\ l + 1 - q < n /\ l + 1 - (l + 1 - q) = q
        BY <2>3
      <3>2. l + 1 - q \in U
        BY <2>3, <2>4, <3>1
      <3> QED BY <2>2, <2>3, <3>1, <3>2
    <2> QED BY <2>3, <2>4
  <1> QED BY <1>1, <1>2

\* A set of naturals that is not empty and has a bound has a greatest element.
LEMMA GreatestNat ==
  ASSUME NEW T, NEW b \in Nat, T \subseteq 0..b, T # {}
  PROVE  \E x \in T : \A y \in T : y <= x
  <1> DEFINE U == {d \in Nat : d <= b /\ b - d \in T}
  <1>1. U \subseteq Nat
    OBVIOUS
  <1>2. \A y \in T : y \in Nat /\ b - y \in Nat /\ b - y <= b /\ b - (b - y) = y
    OBVIOUS
  <1>3. U # {}
    <2>1. PICK y \in T : TRUE
      OBVIOUS
    <2>2. b - y \in U
      BY <1>2
    <2> QED BY <2>2
  <1>4. PICK d \in U : \A e \in U : d <= e
    <2> HIDE DEF U
    <2> QED BY <1>1, <1>3, LeastNat
  <1>5. ASSUME NEW y \in T PROVE y <= b - d
    <2>1. b - y \in U
      BY <1>2
    <2>2. d <= b - y
      BY <1>4, <2>1
    <2> QED BY <1>2, <1>4, <2>2
  <1> QED BY <1>4, <1>5

\* f gives, from the place k on, what begins at a place and what begins where that ends.
FromPlace(f, val, next, l, k) ==
  f = [p \in k..(l + 1) |-> IF p > l THEN <<>> ELSE val[p] \o f[next[p]]]

\* There is such a function for all places.
LEMMA DownRecursion ==
  ASSUME NEW l \in Nat, NEW val, NEW next, \A p \in 1..l : next[p] \in (p + 1)..(l + 1)
  PROVE  \E f : FromPlace(f, val, next, l, 1)
  <1> DEFINE T == {d \in Nat : d <= l => \E f : FromPlace(f, val, next, l, l + 1 - d)}
  <1>1. 0 \in T
    <2> DEFINE f == [p \in (l + 1)..(l + 1) |-> <<>>]
    <2>1. f = [p \in (l + 1)..(l + 1) |-> IF p > l THEN <<>> ELSE val[p] \o f[next[p]]]
      <3>1. \A p \in (l + 1)..(l + 1) : p > l
        OBVIOUS
      <3> QED BY <3>1
    <2>2. l + 1 - 0 = l + 1
      OBVIOUS
    <2>3. FromPlace(f, val, next, l, l + 1 - 0)
      BY <2>1, <2>2 DEF FromPlace
    <2> QED BY <2>3
  <1>2. ASSUME NEW d \in Nat, d \in T PROVE d + 1 \in T
    <2> SUFFICES ASSUME d + 1 <= l PROVE \E f : FromPlace(f, val, next, l, l + 1 - (d + 1))
      BY DEF T
    <2> DEFINE k == l - d
    <2>0. k \in 1..l /\ l + 1 - (d + 1) = k /\ l + 1 - d = k + 1
      OBVIOUS
    <2>1. PICK f : FromPlace(f, val, next, l, k + 1)
      BY <1>2, <2>0
    <2>2. \A p \in (k + 1)..(l + 1) : f[p] = IF p > l THEN <<>> ELSE val[p] \o f[next[p]]
      BY <2>1, Zenon DEF FromPlace
    <2> HIDE DEF k
    <2> DEFINE g == [p \in k..(l + 1) |-> IF p = k THEN val[p] \o f[next[p]] ELSE f[p]]
    <2>3. ASSUME NEW p \in k..(l + 1)
          PROVE  g[p] = IF p > l THEN <<>> ELSE val[p] \o g[next[p]]
      <3>1. CASE p > l
        <4>1. p \in (k + 1)..(l + 1) /\ p # k
          BY <2>0, <3>1
        <4> QED BY <2>2, <3>1, <4>1
      <3>2. CASE ~(p > l)
        <4>1. p \in 1..l
          BY <2>0, <3>2
        <4>2. next[p] \in (k + 1)..(l + 1) /\ next[p] # k /\ next[p] \in k..(l + 1)
          BY <2>0, <4>1
        <4>3. g[next[p]] = f[next[p]]
          BY <4>2
        <4>4. CASE p = k
          BY <3>2, <4>3, <4>4
        <4>5. CASE p # k
          <5>1. p \in (k + 1)..(l + 1)
            BY <2>0, <4>5
          <5> QED BY <2>2, <3>2, <4>3, <4>5, <5>1
        <4> QED BY <4>4, <4>5
      <3> QED BY <3>1, <3>2
    <2>4. g = [p \in k..(l + 1) |-> g[p]]
      OBVIOUS
    <2> HIDE DEF g
    <2>5. FromPlace(g, val, next, l, k)
      BY <2>3, <2>4, Zenon DEF FromPlace
    <2> QED BY <2>0, <2>5
  <1>3. Nat \subseteq T
    <2> HIDE DEF T
    <2> QED BY <1>1, <1>2, SetInduction
  <1>4. l \in T /\ l + 1 - l = 1
    BY <1>3
  <1> QED BY <1>4

\* f begins with x and goes on from each value to the next.
Iterated(f, x, step, l) == f = [k \in 0..l |-> IF k = 0 THEN x ELSE step[f[k - 1]]]

\* There is such a function.
LEMMA UpRecursion ==
  ASSUME NEW X, NEW x \in X, NEW step \in [X -> X], NEW l \in Nat
  PROVE  \E f \in [0..l -> X] : Iterated(f, x, step, l)
  <1> DEFINE T == {m \in Nat : \E f \in [0..m -> X] : Iterated(f, x, step, m)}
  <1>1. 0 \in T
    <2> DEFINE f == [k \in 0..0 |-> x]
    <2>1. \A k \in 0..0 : k = 0
      OBVIOUS
    <2>2. Iterated(f, x, step, 0) /\ f \in [0..0 -> X]
      BY <2>1 DEF Iterated
    <2> HIDE DEF f
    <2> QED BY <2>2
  <1>2. ASSUME NEW m \in Nat, m \in T PROVE m + 1 \in T
    <2>1. PICK f \in [0..m -> X] : Iterated(f, x, step, m)
      BY <1>2
    <2>2. \A k \in 0..m : f[k] = IF k = 0 THEN x ELSE step[f[k - 1]]
      BY <2>1, Zenon DEF Iterated
    <2> DEFINE g == [k \in 0..(m + 1) |-> IF k \in 0..m THEN f[k] ELSE step[f[m]]]
    <2>3. ASSUME NEW k \in 0..(m + 1)
          PROVE  g[k] = (IF k = 0 THEN x ELSE step[g[k - 1]]) /\ g[k] \in X
      <3>1. CASE k = 0
        <4>1. 0 \in 0..m
          OBVIOUS
        <4> QED BY <2>2, <3>1, <4>1
      <3>2. CASE k # 0
        <4>1. k - 1 \in 0..m /\ k - 1 \in 0..(m + 1) /\ m \in 0..m
          BY <3>2
        <4>2. g[k - 1] = f[k - 1] /\ f[k - 1] \in X /\ f[m] \in X
          BY <4>1
        <4>3. CASE k \in 0..m
          BY <2>2, <3>2, <4>2, <4>3
        <4>4. CASE k \notin 0..m
          <5>1. k - 1 = m
            BY <4>4
          <5> QED BY <3>2, <4>2, <4>4, <5>1
        <4> QED BY <4>3, <4>4
      <3> QED BY <3>1, <3>2
    <2>4. g = [k \in 0..(m + 1) |-> g[k]]
      OBVIOUS
    <2> HIDE DEF g
    <2>5. Iterated(g, x, step, m + 1)
      BY <2>3, <2>4, Zenon DEF Iterated
    <2>6. g \in [0..(m + 1) -> X]
      BY <2>3, <2>4
    <2> QED BY <2>5, <2>6
  <1>3. Nat \subseteq T
    <2> HIDE DEF T
    <2> QED BY <1>1, <1>2, SetInduction
  <1> QED BY <1>3

-----------------------------------------------------------------------------
(* FlattenSeq: what it is of a longer sequence.                               *)

Flats(f, ss, l) == f = [j \in 1..l |-> IF j = 1 THEN ss[j] ELSE f[j - 1] \o ss[j]]

LEMMA FlatsExist == ASSUME NEW ss PROVE \A l \in Nat : \E f : Flats(f, ss, l)
  <1> DEFINE T == {l \in Nat : \E f : Flats(f, ss, l)}
  <1>1. 0 \in T
    <2> DEFINE f == [j \in 1..0 |-> <<>>]
    <2>1. f = [j \in 1..0 |-> IF j = 1 THEN ss[j] ELSE f[j - 1] \o ss[j]]
      OBVIOUS
    <2> QED BY <2>1 DEF Flats
  <1>2. ASSUME NEW l \in Nat, l \in T PROVE l + 1 \in T
    <2>1. PICK f : Flats(f, ss, l)
      BY <1>2
    <2>2. \A j \in 1..l : f[j] = IF j = 1 THEN ss[j] ELSE f[j - 1] \o ss[j]
      BY <2>1, Zenon DEF Flats
    <2> DEFINE g == [j \in 1..(l + 1) |->
                       IF j \in 1..l THEN f[j] ELSE IF j = 1 THEN ss[j] ELSE f[j - 1] \o ss[j]]
    <2>3. ASSUME NEW j \in 1..(l + 1)
          PROVE  g[j] = IF j = 1 THEN ss[j] ELSE g[j - 1] \o ss[j]
      <3>1. CASE j = 1
        BY <2>2, <3>1
      <3>2. CASE j # 1
        <4>1. j - 1 \in 1..l /\ j - 1 \in 1..(l + 1)
          BY <3>2
        <4>2. g[j - 1] = f[j - 1]
          BY <4>1
        <4>3. g[j] = f[j - 1] \o ss[j]
          BY <2>2, <3>2
        <4> QED BY <3>2, <4>2, <4>3
      <3> QED BY <3>1, <3>2
    <2>4. g = [j \in 1..(l + 1) |-> IF j = 1 THEN ss[j] ELSE g[j - 1] \o ss[j]]
      <3>1. g = [j \in 1..(l + 1) |-> g[j]]
        OBVIOUS
      <3> HIDE DEF g
      <3> QED BY <2>3, <3>1
    <2>5. Flats(g, ss, l + 1)
      <3> HIDE DEF g
      <3> QED BY <2>4, Zenon DEF Flats
    <2> QED BY <2>5
  <1>3. Nat \subseteq T
    <2> HIDE DEF T
    <2> QED BY <1>1, <1>2, SetInduction
  <1> QED BY <1>3

\* Two sequences that begin alike are flattened alike up to there.
LEMMA FlatsAgree ==
  ASSUME NEW f, NEW g, NEW ss, NEW tt, NEW l \in Nat, NEW m \in Nat, l <= m,
         Flats(f, ss, l), Flats(g, tt, m), \A j \in 1..l : ss[j] = tt[j]
  PROVE  \A j \in 1..l : f[j] = g[j]
  <1> DEFINE T == {d \in Nat : d <= l /\ d > 0 => f[d] = g[d]}
  <1>0. /\ \A j \in 1..l : f[j] = IF j = 1 THEN ss[j] ELSE f[j - 1] \o ss[j]
        /\ \A j \in 1..m : g[j] = IF j = 1 THEN tt[j] ELSE g[j - 1] \o tt[j]
    BY Zenon DEF Flats
  <1>1. 0 \in T
    OBVIOUS
  <1>2. ASSUME NEW d \in Nat, d \in T PROVE d + 1 \in T
    <2> SUFFICES ASSUME d + 1 <= l PROVE f[d + 1] = g[d + 1]
      OBVIOUS
    <2>1. d + 1 \in 1..l /\ d + 1 \in 1..m /\ ss[d + 1] = tt[d + 1] /\ (d + 1) - 1 = d
      OBVIOUS
    <2>2. CASE d = 0
      BY <1>0, <2>1, <2>2
    <2>3. CASE d > 0
      <3>1. f[d] = g[d]
        BY <1>2, <2>3
      <3>2. f[d + 1] = f[d] \o ss[d + 1] /\ g[d + 1] = g[d] \o tt[d + 1]
        <4>1. d + 1 # 1
          BY <2>3
        <4>2. f[d + 1] = f[(d + 1) - 1] \o ss[d + 1] /\ g[d + 1] = g[(d + 1) - 1] \o tt[d + 1]
          BY <1>0, <2>1, <4>1, Zenon
        <4> QED BY <2>1, <4>2, Zenon
      <3> QED BY <2>1, <3>1, <3>2
    <2> QED BY <2>2, <2>3
  <1>3. Nat \subseteq T
    <2> HIDE DEF T
    <2> QED BY <1>1, <1>2, SetInduction
  <1> QED BY <1>3

LEMMA FlattenOfMore ==
  ASSUME NEW S, NEW ss \in Seq(Seq(S)), NEW x \in Seq(S)
  PROVE  FlattenSeq(Append(ss, x)) = FlattenSeq(ss) \o x
  <1> DEFINE tt == Append(ss, x)
             l == Len(ss)
             F(rr, m) == CHOOSE f : Flats(f, rr, m)
  <1>1. /\ l \in Nat /\ Len(tt) = l + 1 /\ tt[l + 1] = x
        /\ \A j \in 1..l : ss[j] = tt[j]
    OBVIOUS
  <1>2. \A rr : \A m \in Nat : Flats(F(rr, m), rr, m)
    BY FlatsExist, Zenon
  <1>3. \A rr : Len(rr) # 0 => FlattenSeq(rr) = F(rr, Len(rr))[Len(rr)]
    BY Zenon DEF FlattenSeq, Flats
  <1> HIDE DEF F, tt, l
  <1>4. l + 1 \in Nat /\ l + 1 # 0 /\ l + 1 \in 1..(l + 1)
    BY <1>1
  <1>5. FlattenSeq(tt) = F(tt, l + 1)[l + 1]
    BY <1>1, <1>3, <1>4
  <1>6. Flats(F(tt, l + 1), tt, l + 1)
    BY <1>2, <1>4
  <1>7. F(tt, l + 1)[l + 1] = IF l + 1 = 1 THEN tt[l + 1] ELSE F(tt, l + 1)[(l + 1) - 1] \o tt[l + 1]
    BY <1>4, <1>6, Zenon DEF Flats
  <1>8. CASE l = 0
    <2>1. FlattenSeq(tt) = x
      BY <1>1, <1>5, <1>7, <1>8
    <2>2. ss = <<>>
      BY <1>8 DEF l
    <2>3. FlattenSeq(ss) = <<>>
      BY <2>2 DEF FlattenSeq
    <2> QED BY <2>1, <2>3 DEF tt
  <1>9. CASE l # 0
    <2>1. FlattenSeq(ss) = F(ss, l)[l]
      BY <1>3, <1>9 DEF l
    <2>2. F(ss, l)[l] = F(tt, l + 1)[l]
      <3> DEFINE f == F(ss, l)
                 g == F(tt, l + 1)
      <3>1. Flats(f, ss, l) /\ Flats(g, tt, l + 1)
        BY <1>1, <1>2, <1>6
      <3> HIDE DEF f, g
      <3>2. \A j \in 1..l : f[j] = g[j]
        BY <1>1, <1>4, <3>1, FlatsAgree
      <3>3. l \in 1..l
        BY <1>1, <1>9
      <3> QED BY <3>2, <3>3 DEF f, g
    <2>3. F(tt, l + 1)[l + 1] = F(tt, l + 1)[l] \o x
      <3>1. (l + 1) - 1 = l /\ l + 1 # 1
        BY <1>1, <1>9
      <3> QED BY <1>1, <1>7, <3>1
    <2> QED BY <1>5, <2>1, <2>2, <2>3 DEF tt
  <1> QED BY <1>8, <1>9

LEMMA FlattenType ==
  ASSUME NEW S, NEW ss \in Seq(Seq(S))
  PROVE  FlattenSeq(ss) \in Seq(S) /\ FlattenSeq(<<>>) = <<>>
  <1>1. FlattenSeq(<<>>) = <<>>
    BY DEF FlattenSeq
  <1> DEFINE T == {l \in Nat : \A tt \in Seq(Seq(S)) : Len(tt) = l => FlattenSeq(tt) \in Seq(S)}
  <1>2. 0 \in T
    <2>1. ASSUME NEW tt \in Seq(Seq(S)), Len(tt) = 0 PROVE FlattenSeq(tt) \in Seq(S)
      <3>1. tt = <<>>
        BY <2>1, EmptySeq
      <3>2. FlattenSeq(tt) = <<>>
        BY <1>1, <3>1, Zenon
      <3> QED BY <3>2
    <2> QED BY <2>1
  <1>3. ASSUME NEW l \in Nat, l \in T PROVE l + 1 \in T
    <2> SUFFICES ASSUME NEW tt \in Seq(Seq(S)), Len(tt) = l + 1 PROVE FlattenSeq(tt) \in Seq(S)
      OBVIOUS
    <2> DEFINE rr == SubSeq(tt, 1, l)
    <2>1. rr \in Seq(Seq(S)) /\ Len(rr) = l /\ tt[l + 1] \in Seq(S) /\ tt = Append(rr, tt[l + 1])
      OBVIOUS
    <2> HIDE DEF rr
    <2>2. FlattenSeq(rr) \in Seq(S)
      BY <1>3, <2>1
    <2>3. FlattenSeq(tt) = FlattenSeq(rr) \o tt[l + 1]
      BY <2>1, FlattenOfMore
    <2> QED BY <2>1, <2>2, <2>3, ConcatProperties
  <1>4. Nat \subseteq T
    <2> HIDE DEF T
    <2> QED BY <1>2, <1>3, SetInduction
  <1>5. Len(ss) \in Nat
    OBVIOUS
  <1> QED BY <1>1, <1>4, <1>5

-----------------------------------------------------------------------------
(* FlattenSeq of two sequences.                                               *)

LEMMA FlattenOfTwo ==
  ASSUME NEW S, NEW ss \in Seq(Seq(S))
  PROVE  \A tt \in Seq(Seq(S)) : FlattenSeq(ss \o tt) = FlattenSeq(ss) \o FlattenSeq(tt)
  <1> DEFINE T == {l \in Nat : \A tt \in Seq(Seq(S)) :
                     Len(tt) = l => FlattenSeq(ss \o tt) = FlattenSeq(ss) \o FlattenSeq(tt)}
  <1>0. FlattenSeq(ss) \in Seq(S) /\ FlattenSeq(<<>>) = <<>>
    BY FlattenType
  <1>1. 0 \in T
    <2>1. ASSUME NEW tt \in Seq(Seq(S)), Len(tt) = 0
          PROVE  FlattenSeq(ss \o tt) = FlattenSeq(ss) \o FlattenSeq(tt)
      <3>1. tt = <<>>
        BY <2>1, EmptySeq
      <3>2. ss \o <<>> = ss /\ FlattenSeq(ss) \o <<>> = FlattenSeq(ss)
        BY <1>0, ConcatEmptySeq
      <3> QED BY <1>0, <3>1, <3>2, Zenon
    <2> QED BY <2>1
  <1>2. ASSUME NEW l \in Nat, l \in T PROVE l + 1 \in T
    <2> SUFFICES ASSUME NEW tt \in Seq(Seq(S)), Len(tt) = l + 1
                 PROVE  FlattenSeq(ss \o tt) = FlattenSeq(ss) \o FlattenSeq(tt)
      OBVIOUS
    <2> DEFINE rr == SubSeq(tt, 1, l)
               x == tt[l + 1]
    <2>1. rr \in Seq(Seq(S)) /\ Len(rr) = l /\ x \in Seq(S) /\ tt = Append(rr, x)
      OBVIOUS
    <2> HIDE DEF rr, x
    <2>2. FlattenSeq(ss \o rr) = FlattenSeq(ss) \o FlattenSeq(rr)
      BY <1>2, <2>1
    <2>3. FlattenSeq(tt) = FlattenSeq(rr) \o x
      BY <2>1, FlattenOfMore
    <2>4. ss \o tt = Append(ss \o rr, x) /\ ss \o rr \in Seq(Seq(S))
      BY <2>1, SMTT(30)
    <2>5. FlattenSeq(ss \o tt) = FlattenSeq(ss \o rr) \o x
      BY <2>1, <2>4, FlattenOfMore
    <2>6. FlattenSeq(rr) \in Seq(S)
      BY <2>1, FlattenType
    <2>7. (FlattenSeq(ss) \o FlattenSeq(rr)) \o x = FlattenSeq(ss) \o (FlattenSeq(rr) \o x)
      BY <1>0, <2>1, <2>6, ConcatAssociative, SMTT(30)
    <2> QED BY <2>2, <2>3, <2>5, <2>7
  <1>3. Nat \subseteq T
    <2> HIDE DEF T
    <2> QED BY <1>1, <1>2, SetInduction
  <1> QED BY <1>3

LEMMA FlattenOfNone == FlattenSeq(<<>>) = <<>>
  BY DEF FlattenSeq

LEMMA FlattenOfOne ==
  ASSUME NEW S, NEW x \in Seq(S) PROVE FlattenSeq(<<x>>) = x
  <1>1. <<x>> = Append(<<>>, x) /\ <<>> \in Seq(Seq(S))
    OBVIOUS
  <1>2. FlattenSeq(<<x>>) = FlattenSeq(<<>>) \o x /\ FlattenSeq(<<>>) = <<>>
    BY <1>1, FlattenOfMore, FlattenType
  <1> QED BY <1>2, ConcatEmptySeq

LEMMA HeadOfMore ==
  ASSUME NEW S, NEW s \in Seq(S), NEW l \in Nat, l + 1 <= Len(s)
  PROVE  SubSeq(s, 1, l) \in Seq(S) /\ SubSeq(s, 1, l + 1) = Append(SubSeq(s, 1, l), s[l + 1])
  <1> DEFINE r == SubSeq(s, 1, l)
             t == SubSeq(s, 1, l + 1)
  <1>1. r \in Seq(S) /\ Len(r) = l /\ \A k \in 1..l : r[k] = s[k]
    OBVIOUS
  <1>2. t \in Seq(S) /\ Len(t) = l + 1 /\ \A k \in 1..(l + 1) : t[k] = s[k]
    OBVIOUS
  <1>3. s[l + 1] \in S
    OBVIOUS
  <1> HIDE DEF r, t
  <1>4. /\ Append(r, s[l + 1]) \in Seq(S) /\ Len(Append(r, s[l + 1])) = l + 1
        /\ \A k \in 1..l : Append(r, s[l + 1])[k] = r[k]
        /\ Append(r, s[l + 1])[l + 1] = s[l + 1]
    BY <1>1, <1>3
  <1>5. \A k \in 1..(l + 1) : k \in 1..l \/ k = l + 1
    OBVIOUS
  <1>6. \A k \in 1..Len(t) : t[k] = Append(r, s[l + 1])[k]
    BY <1>1, <1>2, <1>4, <1>5
  <1>7. t = Append(r, s[l + 1])
    BY <1>2, <1>4, <1>6, SeqEqual
  <1> QED BY <1>1, <1>7 DEF r, t

-----------------------------------------------------------------------------
(* Parts of a sequence.                                                       *)

LEMMA PartFacts ==
  ASSUME NEW S, NEW s \in Seq(S), NEW a \in Nat, NEW b \in Nat, 1 <= a, a <= b + 1, b <= Len(s)
  PROVE  /\ SubSeq(s, a, b) \in Seq(S) /\ Len(SubSeq(s, a, b)) = b - a + 1
         /\ \A k \in 1..(b - a + 1) : SubSeq(s, a, b)[k] = s[a + k - 1]
  <1>1. \A i \in a..b : s[i] \in S
    <2>1. \A i \in a..b : i \in 1..Len(s)
      OBVIOUS
    <2> QED BY <2>1, ElementOfSeq
  <1> QED BY <1>1, SubSeqProperties

LEMMA PartsJoin ==
  ASSUME NEW S, NEW s \in Seq(S), NEW a \in Nat, NEW b \in Nat, NEW c \in Nat,
         1 <= a, a <= b + 1, b <= c, c <= Len(s)
  PROVE  SubSeq(s, a, b) \o SubSeq(s, b + 1, c) = SubSeq(s, a, c)
  <1> DEFINE u == SubSeq(s, a, b)
             v == SubSeq(s, b + 1, c)
             w == SubSeq(s, a, c)
             n == Len(s)
  <1>0. n \in Nat /\ b <= n
    OBVIOUS
  <1>1. u \in Seq(S) /\ Len(u) = b - a + 1 /\ \A k \in 1..(b - a + 1) : u[k] = s[a + k - 1]
    BY <1>0, PartFacts
  <1>2. v \in Seq(S) /\ Len(v) = c - b /\ \A k \in 1..(c - b) : v[k] = s[b + k]
    <2>1. b + 1 \in Nat /\ 1 <= b + 1 /\ b + 1 <= c + 1 /\ c - (b + 1) + 1 = c - b
      OBVIOUS
    <2>2. \A k \in 1..(c - b) : (b + 1) + k - 1 = b + k
      OBVIOUS
    <2>3. v \in Seq(S) /\ Len(v) = c - b /\ \A k \in 1..(c - b) : v[k] = s[(b + 1) + k - 1]
      <3> HIDE DEF v
      <3>1. SubSeq(s, b + 1, c) \in Seq(S) /\ Len(SubSeq(s, b + 1, c)) = c - (b + 1) + 1
            /\ \A k \in 1..(c - (b + 1) + 1) : SubSeq(s, b + 1, c)[k] = s[(b + 1) + k - 1]
        BY <2>1, PartFacts
      <3> QED BY <2>1, <3>1 DEF v
    <2> QED BY <2>2, <2>3
  <1>3. w \in Seq(S) /\ Len(w) = c - a + 1 /\ \A k \in 1..(c - a + 1) : w[k] = s[a + k - 1]
    BY <1>0, PartFacts
  <1> HIDE DEF u, v, w, n
  <1>4. /\ u \o v \in Seq(S) /\ Len(u \o v) = Len(u) + Len(v)
        /\ \A k \in 1..(Len(u) + Len(v)) :
             (u \o v)[k] = IF k <= Len(u) THEN u[k] ELSE v[k - Len(u)]
    BY <1>1, <1>2, ConcatProperties
  <1>5. Len(u \o v) = Len(w) /\ Len(u) + Len(v) = c - a + 1 /\ Len(u) = b - a + 1
    BY <1>1, <1>2, <1>3, <1>4
  <1>6. ASSUME NEW k \in 1..(c - a + 1) PROVE (u \o v)[k] = w[k]
    <2>1. CASE k <= b - a + 1
      <3>1. k \in 1..(b - a + 1)
        BY <2>1
      <3> QED BY <1>1, <1>3, <1>4, <1>5, <2>1, <3>1
    <2>2. CASE ~(k <= b - a + 1)
      <3>1. k - (b - a + 1) \in 1..(c - b) /\ b + (k - (b - a + 1)) = a + k - 1
        BY <2>2
      <3> QED BY <1>2, <1>3, <1>4, <1>5, <2>2, <3>1, SMTT(30)
    <2> QED BY <2>1, <2>2
  <1>7. u \o v = w
    BY <1>3, <1>4, <1>5, <1>6, SeqEqual
  <1> QED BY <1>7 DEF u, v, w

-----------------------------------------------------------------------------
(* Joining two pieces of a sequence.                                          *)

Runs(S) == Seq(S) \ {<<>>}

\* The sequence w with its places j and j + 1 joined.
JoinedAt(w, j) == SubSeq(w, 1, j - 1) \o <<w[j] \o w[j + 1]>> \o SubSeq(w, j + 2, Len(w))

LEMMA JoinedAtFacts ==
  ASSUME NEW S, NEW w \in Seq(Runs(S)), NEW j \in 1..(Len(w) - 1)
  PROVE  /\ JoinedAt(w, j) \in Seq(Runs(S)) /\ Len(JoinedAt(w, j)) = Len(w) - 1
         /\ \A i \in 1..(Len(w) - 1) :
              JoinedAt(w, j)[i] = IF i < j THEN w[i] ELSE IF i = j THEN w[j] \o w[j + 1] ELSE w[i + 1]
         /\ FlattenSeq(JoinedAt(w, j)) = FlattenSeq(w)
  <1> DEFINE n == Len(w)
             A == SubSeq(w, 1, j - 1)
             B == SubSeq(w, j + 2, n)
             x == w[j]
             y == w[j + 1]
  <1>0. n \in Nat /\ j \in 1..n /\ j + 1 \in 1..n /\ j \in Nat
    <2>1. n \in Nat /\ j \in 1..(n - 1)
      BY LenProperties
    <2> HIDE DEF n
    <2> QED BY <2>1
  <1>1. x \in Runs(S) /\ y \in Runs(S)
    BY <1>0, ElementOfSeq
  <1>2. x \o y \in Runs(S) /\ x \in Seq(S) /\ y \in Seq(S) /\ x \o y \in Seq(S)
    <2>1. x \in Seq(S) /\ y \in Seq(S) /\ x # <<>>
      BY <1>1 DEF Runs
    <2> HIDE DEF x, y
    <2>2. x \o y \in Seq(S) /\ x \o y # <<>>
      BY <2>1, ConcatProperties, ConcatEqualIffEmpty
    <2> QED BY <2>1, <2>2 DEF Runs
  <1>3. A \in Seq(Runs(S)) /\ Len(A) = j - 1 /\ \A i \in 1..(j - 1) : A[i] = w[i]
    <2> DEFINE b == j - 1
    <2>1. b \in Nat /\ 1 <= b + 1 /\ b <= Len(w) /\ b - 1 + 1 = b /\ 1 \in Nat /\ 1 <= 1
      BY <1>0
    <2> HIDE DEF b
    <2>2. SubSeq(w, 1, b) \in Seq(Runs(S)) /\ Len(SubSeq(w, 1, b)) = b - 1 + 1
          /\ \A i \in 1..(b - 1 + 1) : SubSeq(w, 1, b)[i] = w[1 + i - 1]
      BY <2>1, PartFacts
    <2>3. \A i \in 1..b : 1 + i - 1 = i
      BY <2>1
    <2> QED BY <2>1, <2>2, <2>3 DEF b
  <1>4. B \in Seq(Runs(S)) /\ Len(B) = n - j - 1 /\ \A i \in 1..(n - j - 1) : B[i] = w[j + 1 + i]
    <2> DEFINE a == j + 2
    <2>1. a \in Nat /\ 1 <= a /\ a <= n + 1 /\ n <= Len(w) /\ n - a + 1 = n - j - 1
      BY <1>0
    <2> HIDE DEF a, n
    <2>2. SubSeq(w, a, n) \in Seq(Runs(S)) /\ Len(SubSeq(w, a, n)) = n - a + 1
          /\ \A i \in 1..(n - a + 1) : SubSeq(w, a, n)[i] = w[a + i - 1]
      BY <1>0, <2>1, PartFacts
    <2>3. \A i \in 1..(n - j - 1) : a + i - 1 = j + 1 + i
      BY <1>0 DEF a
    <2> QED BY <2>1, <2>2, <2>3 DEF a
  <1> DEFINE C == A \o <<x \o y>>
  <1>5. JoinedAt(w, j) = C \o B
    BY DEF JoinedAt
  <1>6. w = Append(Append(A, x), y) \o B
    <2>1. SubSeq(w, 1, j) = Append(A, x)
      <3>1. SubSeq(w, 1, (j - 1) + 1) = Append(SubSeq(w, 1, j - 1), w[(j - 1) + 1])
        <4> DEFINE b == j - 1
        <4>1. b \in Nat /\ b + 1 <= Len(w)
          BY <1>0
        <4> HIDE DEF b
        <4> QED BY <4>1, HeadOfMore DEF b
      <3>2. (j - 1) + 1 = j
        BY <1>0
      <3> QED BY <3>1, <3>2
    <2>2. SubSeq(w, 1, j + 1) = Append(SubSeq(w, 1, j), y)
      <3>1. j + 1 <= Len(w)
        BY <1>0
      <3> QED BY <1>0, <3>1, HeadOfMore
    <2>3. SubSeq(w, 1, j + 1) \o SubSeq(w, (j + 1) + 1, n) = SubSeq(w, 1, n)
      <3> DEFINE b == j + 1
      <3>1. b \in Nat /\ 1 <= b + 1 /\ b <= n /\ 1 \in Nat /\ 1 <= 1 /\ n <= Len(w)
        BY <1>0
      <3> HIDE DEF b, n
      <3> QED BY <1>0, <3>1, PartsJoin DEF b
    <2>4. (j + 1) + 1 = j + 2 /\ SubSeq(w, 1, n) = w
      BY <1>0, SubSeqFull
    <2> QED BY <2>1, <2>2, <2>3, <2>4
  <1> HIDE DEF A, B, x, y, n
  <1>7. C = Append(A, x \o y)
    BY <1>2, <1>3
  <1>8. C \in Seq(Runs(S)) /\ Len(C) = j /\ C[j] = x \o y /\ \A i \in 1..(j - 1) : C[i] = A[i]
    <2> DEFINE z == x \o y
    <2>1. z \in Runs(S)
      BY <1>2
    <2> HIDE DEF C, z
    <2>2. /\ Append(A, z) \in Seq(Runs(S)) /\ Len(Append(A, z)) = Len(A) + 1
          /\ \A i \in 1..Len(A) : Append(A, z)[i] = A[i]
          /\ Append(A, z)[Len(A) + 1] = z
      BY <1>3, <2>1, AppendProperties
    <2>3. Len(A) + 1 = j
      BY <1>0, <1>3
    <2> QED BY <1>3, <1>7, <2>2, <2>3 DEF z
  <1> HIDE DEF C
  <1>9. /\ C \o B \in Seq(Runs(S)) /\ Len(C \o B) = n - 1
        /\ \A i \in 1..(n - 1) : (C \o B)[i] = IF i <= j THEN C[i] ELSE B[i - j]
    <2>1. /\ C \o B \in Seq(Runs(S)) /\ Len(C \o B) = Len(C) + Len(B)
          /\ \A i \in 1..(Len(C) + Len(B)) :
               (C \o B)[i] = IF i <= Len(C) THEN C[i] ELSE B[i - Len(C)]
      BY <1>4, <1>8, ConcatProperties, ZenonT(60)
    <2>2. Len(C) = j /\ Len(C) + Len(B) = n - 1
      BY <1>0, <1>4, <1>8
    <2> QED BY <2>1, <2>2
  <1>10. ASSUME NEW i \in 1..(n - 1)
         PROVE  (C \o B)[i] = IF i < j THEN w[i] ELSE IF i = j THEN x \o y ELSE w[i + 1]
    <2>1. CASE i < j
      <3>1. i \in 1..(j - 1) /\ i <= j
        BY <1>0, <2>1
      <3> QED BY <1>3, <1>8, <1>9, <2>1, <3>1
    <2>2. CASE i = j
      <3>1. i <= j /\ ~(i < j)
        BY <1>0, <2>2
      <3> QED BY <1>8, <1>9, <2>2, <3>1
    <2>3. CASE i > j
      <3>1. i - j \in 1..(n - j - 1) /\ j + 1 + (i - j) = i + 1 /\ ~(i <= j) /\ ~(i < j) /\ i # j
        BY <1>0, <2>3
      <3>2. B[i - j] = w[i + 1]
        BY <1>4, <3>1
      <3> QED BY <1>9, <3>1, <3>2
    <2>4. i < j \/ i = j \/ i > j
      BY <1>0
    <2> QED BY <2>1, <2>2, <2>3, <2>4, Zenon
  <1>11. FlattenSeq(C \o B) = FlattenSeq(w)
    <2>1. A \in Seq(Seq(S)) /\ B \in Seq(Seq(S)) /\ C \in Seq(Seq(S))
      <3>1. Runs(S) \subseteq Seq(S)
        BY DEF Runs
      <3> QED BY <1>3, <1>4, <1>8, <3>1, SeqMonotonic
    <2>2. FlattenSeq(C \o B) = FlattenSeq(C) \o FlattenSeq(B)
      BY <2>1, FlattenOfTwo
    <2>3. FlattenSeq(C) = FlattenSeq(A) \o (x \o y)
      BY <1>2, <1>7, <2>1, FlattenOfMore
    <2>4. Append(A, x) \in Seq(Seq(S)) /\ Append(Append(A, x), y) \in Seq(Seq(S))
      BY <1>2, <2>1, AppendProperties
    <2>5. FlattenSeq(Append(A, x)) = FlattenSeq(A) \o x
      BY <1>2, <2>1, FlattenOfMore
    <2>6. FlattenSeq(Append(Append(A, x), y)) = FlattenSeq(Append(A, x)) \o y
      BY <1>2, <2>4, FlattenOfMore
    <2>7. FlattenSeq(Append(Append(A, x), y) \o B) = FlattenSeq(Append(Append(A, x), y)) \o FlattenSeq(B)
      BY <2>1, <2>4, FlattenOfTwo
    <2>8. FlattenSeq(A) \in Seq(S)
      BY <2>1, FlattenType
    <2>9. (FlattenSeq(A) \o x) \o y = FlattenSeq(A) \o (x \o y)
      BY <1>2, <2>8, ConcatAssociative, SMTT(30)
    <2> QED BY <1>6, <2>2, <2>3, <2>5, <2>6, <2>7, <2>9
  <1> QED BY <1>5, <1>9, <1>10, <1>11 DEF n, x, y

-----------------------------------------------------------------------------
(* Spelling a sequence of sequences piece by piece.                            *)

\* Spelling the whole is spelling each of the parts.
PartByPart(spell, A, B) ==
  /\ spell \in [Seq(A) -> Seq(B)] /\ spell[<<>>] = <<>>
  /\ \A x, y \in Seq(A) : spell[x \o y] = spell[x] \o spell[y]

LEMMA FlattenOfFlat ==
  ASSUME NEW A, NEW B, NEW spell, NEW ids \in Seq(Seq(A)), NEW ss \in Seq(Seq(B)),
         Len(ids) = Len(ss), PartByPart(spell, A, B),
         \A k \in DOMAIN ss : spell[ids[k]] = ss[k]
  PROVE  spell[FlattenSeq(ids)] = FlattenSeq(ss)
  <1> DEFINE T == {l \in Nat : l <= Len(ss) =>
                     spell[FlattenSeq(SubSeq(ids, 1, l))] = FlattenSeq(SubSeq(ss, 1, l))}
  <1>0. FlattenSeq(<<>>) = <<>>
    BY FlattenType
  <1>1. 0 \in T
    <2>1. SubSeq(ids, 1, 0) = <<>> /\ SubSeq(ss, 1, 0) = <<>>
      OBVIOUS
    <2> QED BY <1>0, <2>1 DEF PartByPart
  <1>2. ASSUME NEW l \in Nat, l \in T PROVE l + 1 \in T
    <2> SUFFICES ASSUME l + 1 <= Len(ss)
                 PROVE  spell[FlattenSeq(SubSeq(ids, 1, l + 1))] = FlattenSeq(SubSeq(ss, 1, l + 1))
      OBVIOUS
    <2> DEFINE ii == SubSeq(ids, 1, l)
               tt == SubSeq(ss, 1, l)
               i == ids[l + 1]
               t == ss[l + 1]
    <2>1. /\ ii \in Seq(Seq(A)) /\ i \in Seq(A) /\ SubSeq(ids, 1, l + 1) = Append(ii, i)
          /\ tt \in Seq(Seq(B)) /\ t \in Seq(B) /\ SubSeq(ss, 1, l + 1) = Append(tt, t)
          /\ l + 1 \in DOMAIN ss /\ spell[i] = t
      <3>1. l + 1 \in 1..Len(ss) /\ l + 1 \in 1..Len(ids) /\ l + 1 \in DOMAIN ss
        OBVIOUS
      <3>2. i \in Seq(A) /\ t \in Seq(B) /\ spell[i] = t
        BY <3>1, ElementOfSeq
      <3>3. ii \in Seq(Seq(A)) /\ SubSeq(ids, 1, l + 1) = Append(ii, i)
        BY <3>1, HeadOfMore
      <3>4. tt \in Seq(Seq(B)) /\ SubSeq(ss, 1, l + 1) = Append(tt, t)
        BY <3>1, HeadOfMore
      <3> QED BY <3>1, <3>2, <3>3, <3>4
    <2>2. spell[FlattenSeq(ii)] = FlattenSeq(tt)
      BY <1>2
    <2> HIDE DEF ii, tt, i, t
    <2>3. FlattenSeq(Append(ii, i)) = FlattenSeq(ii) \o i /\ FlattenSeq(ii) \in Seq(A)
      BY <2>1, FlattenOfMore, FlattenType
    <2>4. FlattenSeq(Append(tt, t)) = FlattenSeq(tt) \o t
      BY <2>1, FlattenOfMore
    <2> QED BY <2>1, <2>2, <2>3, <2>4, ZenonT(60) DEF PartByPart
  <1>3. Nat \subseteq T
    <2> HIDE DEF T
    <2> QED BY <1>1, <1>2, SetInduction
  <1>4. Len(ss) \in Nat /\ Len(ss) <= Len(ss)
    OBVIOUS
  <1>5. SubSeq(ids, 1, Len(ids)) = ids
    OBVIOUS
  <1>6. SubSeq(ss, 1, Len(ss)) = ss
    OBVIOUS
  <1>7. Len(ss) \in T
    BY <1>3, <1>4
  <1> QED BY <1>4, <1>5, <1>6, <1>7

\* Spelling each with F and one after the other.
EachSpelt(F, A) == [x \in Seq(A) |-> FlattenSeq([k \in DOMAIN x |-> F[x[k]]])]

LEMMA FlattenOfParts ==
  ASSUME NEW B, NEW fx \in Seq(Seq(B)), NEW fy \in Seq(Seq(B)), NEW fz \in Seq(Seq(B)),
         Len(fz) = Len(fx) + Len(fy),
         \A k \in 1..Len(fx) : fz[k] = fx[k], \A k \in 1..Len(fy) : fz[Len(fx) + k] = fy[k]
  PROVE  FlattenSeq(fz) = FlattenSeq(fx) \o FlattenSeq(fy)
  <1>1. Len(fx) \in Nat /\ Len(fy) \in Nat
    OBVIOUS
  <1>2. /\ fx \o fy \in Seq(Seq(B)) /\ Len(fx \o fy) = Len(fx) + Len(fy)
        /\ \A k \in 1..(Len(fx) + Len(fy)) :
             (fx \o fy)[k] = IF k <= Len(fx) THEN fx[k] ELSE fy[k - Len(fx)]
    BY ConcatProperties, ZenonT(60)
  <1>3. ASSUME NEW k \in 1..Len(fz) PROVE fz[k] = (fx \o fy)[k]
    <2> DEFINE j == k - Len(fx)
    <2>1. CASE k <= Len(fx)
      <3>1. k \in 1..Len(fx)
        BY <1>1, <2>1
      <3> QED BY <1>2, <2>1, <3>1
    <2>2. CASE ~(k <= Len(fx))
      <3>1. j \in 1..Len(fy) /\ Len(fx) + j = k
        BY <1>1, <2>2
      <3>2. fz[Len(fx) + j] = fy[j]
        BY <3>1
      <3> QED BY <1>2, <2>2, <3>1, <3>2
    <2> QED BY <2>1, <2>2
  <1>4. fz = fx \o fy
    BY <1>2, <1>3, SeqEqual, ZenonT(60)
  <1> QED BY <1>4, FlattenOfTwo

LEMMA EachIsSpelt ==
  ASSUME NEW A, NEW B, NEW F \in [A -> Seq(B)]
  PROVE  PartByPart(EachSpelt(F, A), A, B) /\ \A a \in A : EachSpelt(F, A)[<<a>>] = F[a]
  <1> DEFINE M(x) == [k \in DOMAIN x |-> F[x[k]]]
             spell == EachSpelt(F, A)
  <1>1. \A a \in A : F[a] \in Seq(B)
    OBVIOUS
  <1>2. spell = [x \in Seq(A) |-> FlattenSeq(M(x))]
    BY DEF EachSpelt
  <1>3. \A x \in Seq(A) : /\ M(x) \in Seq(Seq(B)) /\ Len(M(x)) = Len(x) /\ Len(x) \in Nat
                          /\ \A k \in 1..Len(x) : M(x)[k] = F[x[k]]
    <2>1. ASSUME NEW x \in Seq(A)
          PROVE  /\ M(x) \in Seq(Seq(B)) /\ Len(M(x)) = Len(x) /\ Len(x) \in Nat
                 /\ \A k \in 1..Len(x) : M(x)[k] = F[x[k]]
      <3>1. DOMAIN x = 1..Len(x) /\ Len(x) \in Nat
        BY LenProperties
      <3>2. \A k \in 1..Len(x) : x[k] \in A
        BY ElementOfSeq
      <3> QED BY <1>1, <3>1, <3>2
    <2> QED BY <2>1
  <1>4. \A x \in Seq(A) : spell[x] = FlattenSeq(M(x))
    BY <1>2
  <1>5. M(<<>>) = <<>> /\ \A a \in A : M(<<a>>) = <<F[a]>>
    OBVIOUS
  <1> HIDE DEF M
  <1>6. spell \in [Seq(A) -> Seq(B)]
    <2>1. \A x \in Seq(A) : FlattenSeq(M(x)) \in Seq(B)
      BY <1>3, FlattenType
    <2> HIDE DEF spell
    <2> QED BY <1>2, <2>1
  <1> HIDE DEF spell
  <1>7. spell[<<>>] = <<>>
    <2>1. <<>> \in Seq(A)
      OBVIOUS
    <2> QED BY <1>4, <1>5, <2>1, FlattenOfNone
  <1>8. ASSUME NEW x \in Seq(A), NEW y \in Seq(A) PROVE spell[x \o y] = spell[x] \o spell[y]
    <2> DEFINE z == x \o y
    <2>1. /\ z \in Seq(A) /\ Len(z) = Len(x) + Len(y)
          /\ \A k \in 1..(Len(x) + Len(y)) : z[k] = IF k <= Len(x) THEN x[k] ELSE y[k - Len(x)]
      BY ConcatProperties
    <2> HIDE DEF z
    <2>2. Len(x) \in Nat /\ Len(y) \in Nat
      BY <1>3
    <2>3. ASSUME NEW k \in 1..Len(x) PROVE M(z)[k] = M(x)[k]
      <3>1. k \in 1..Len(z) /\ z[k] = x[k]
        BY <2>1, <2>2
      <3>2. M(z)[k] = F[z[k]] /\ M(x)[k] = F[x[k]]
        BY <1>3, <2>1, <3>1
      <3> QED BY <3>1, <3>2
    <2>4. ASSUME NEW k \in 1..Len(y) PROVE M(z)[Len(x) + k] = M(y)[k]
      <3> DEFINE j == Len(x) + k
      <3>1. j \in 1..Len(z) /\ z[j] = y[k]
        <4>1. j \in 1..(Len(x) + Len(y)) /\ ~(j <= Len(x)) /\ j - Len(x) = k
          BY <2>2
        <4> HIDE DEF j
        <4> QED BY <2>1, <4>1
      <3> HIDE DEF j
      <3>2. M(z)[j] = F[z[j]] /\ M(y)[k] = F[y[k]]
        BY <1>3, <2>1, <3>1
      <3> QED BY <3>1, <3>2 DEF j
    <2>5. /\ M(x) \in Seq(Seq(B)) /\ M(y) \in Seq(Seq(B)) /\ M(z) \in Seq(Seq(B))
          /\ Len(M(x)) = Len(x) /\ Len(M(y)) = Len(y) /\ Len(M(z)) = Len(z)
      BY <1>3, <2>1
    <2>6. FlattenSeq(M(z)) = FlattenSeq(M(x)) \o FlattenSeq(M(y))
      <3>1. Len(M(z)) = Len(M(x)) + Len(M(y))
        BY <2>1, <2>5
      <3>2. \A k \in 1..Len(M(x)) : M(z)[k] = M(x)[k]
        BY <2>3, <2>5
      <3>3. \A k \in 1..Len(M(y)) : M(z)[Len(M(x)) + k] = M(y)[k]
        BY <2>4, <2>5
      <3> QED BY <2>5, <3>1, <3>2, <3>3, FlattenOfParts, ZenonT(60)
    <2> QED BY <1>4, <2>1, <2>6 DEF z
  <1>9. ASSUME NEW a \in A PROVE spell[<<a>>] = F[a]
    <2>1. <<a>> \in Seq(A)
      OBVIOUS
    <2>2. FlattenSeq(<<F[a]>>) = F[a]
      BY <1>1, FlattenOfOne
    <2> QED BY <1>4, <1>5, <2>1, <2>2
  <1> QED BY <1>6, <1>7, <1>8, <1>9 DEF PartByPart, spell

\* What such a function gives has the type of what its places give.
LEMMA FromPlaceType ==
  ASSUME NEW l \in Nat, NEW val, NEW next, \A p \in 1..l : next[p] \in (p + 1)..(l + 1),
         NEW X, \A p \in 1..l : val[p] \in Seq(X), NEW f, FromPlace(f, val, next, l, 1)
  PROVE  /\ f = [p \in 1..(l + 1) |-> f[p]]
         /\ \A p \in 1..(l + 1) : f[p] \in Seq(X) /\ f[p] = IF p > l THEN <<>> ELSE val[p] \o f[next[p]]
  <1> DEFINE T == {p \in 1..(l + 1) : f[p] \in Seq(X)}
  <1>1. \A p \in 1..(l + 1) : f[p] = IF p > l THEN <<>> ELSE val[p] \o f[next[p]]
    BY Zenon DEF FromPlace
  <1>2. ASSUME NEW p \in 1..(l + 1), \A q \in (p + 1)..(l + 1) : q \in T PROVE p \in T
    <2>1. CASE p > l
      <3>1. f[p] = <<>> /\ <<>> \in Seq(X)
        BY <1>1, <2>1
      <3> QED BY <3>1
    <2>2. CASE ~(p > l)
      <3>1. p \in 1..l
        BY <2>2
      <3>2. f[next[p]] \in Seq(X) /\ val[p] \in Seq(X)
        BY <1>2, <3>1
      <3>3. val[p] \o f[next[p]] \in Seq(X)
        BY <3>2, ConcatProperties
      <3> QED BY <1>1, <2>2, <3>3
    <2> QED BY <2>1, <2>2
  <1>3. 1..(l + 1) \subseteq T
    <2> HIDE DEF T
    <2> QED BY <1>2, DownInduction
  <1>4. f = [p \in 1..(l + 1) |-> f[p]]
    BY Zenon DEF FromPlace
  <1> QED BY <1>1, <1>3, <1>4

LEMMA PartOfOne ==
  ASSUME NEW S, NEW s \in Seq(S), NEW p \in 1..Len(s) PROVE SubSeq(s, p, p) = <<s[p]>>
  <1>1. p \in Nat /\ 1 <= p /\ p <= p + 1 /\ p <= Len(s) /\ p - p + 1 = 1 /\ p + 1 - 1 = p
    OBVIOUS
  <1>2. /\ SubSeq(s, p, p) \in Seq(S) /\ Len(SubSeq(s, p, p)) = 1
        /\ \A k \in 1..1 : SubSeq(s, p, p)[k] = s[p + k - 1]
    BY <1>1, PartFacts
  <1>3. <<s[p]>> \in Seq(S) /\ Len(<<s[p]>>) = 1 /\ <<s[p]>>[1] = s[p]
    <2>1. s[p] \in S
      BY ElementOfSeq
    <2> QED BY <2>1
  <1>4. SubSeq(s, p, p)[1] = s[p]
    BY <1>1, <1>2
  <1> DEFINE u == SubSeq(s, p, p)
             v == <<s[p]>>
  <1>5. u \in Seq(S) /\ v \in Seq(S) /\ Len(u) = 1 /\ Len(v) = 1 /\ u[1] = v[1]
    BY <1>2, <1>3, <1>4
  <1> HIDE DEF u, v
  <1>6. u = v
    BY <1>5, SeqEqual
  <1> QED BY <1>6 DEF u, v
=============================================================================
