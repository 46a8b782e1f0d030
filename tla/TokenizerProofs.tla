----------------------------- MODULE TokenizerProofs -----------------------------
(***************************************************************************)
(* What the Huggingface and the Tiktoken tokenizer promise, for every         *)
(* vocabulary and every text.                                                *)
(*                                                                          *)
(* BpeIsAlwaysTextbook.  bpe keeps a list of the boundaries between the        *)
(* pieces of a word, with a rank each, and takes one out a round.  The rounds  *)
(* of the textbook join every occurrence of a pair at once.  Joining(w) is w   *)
(* with the next of its pairs joined; IsRounds(F, word) says that F gives the  *)
(* pieces of the word after each such step.  CutStep shows that a round of    *)
(* bpe is one step of F (Cut relates the boundaries that are left to the       *)
(* pieces), ReplacedIs that a round of the textbook is some steps.            *)
(*                                                                          *)
(* Says(b, s): the texts b and s have the same core, and neither ends inside   *)
(* a character, so that texts that say the same can be put one after the       *)
(* other (SaysBoth).  HfSays, TiktokenSays: the ids of a text, decoded, say    *)
(* the text.  TextProofs goes on from here.                                  *)
(***************************************************************************)
EXTENDS Tokenizer, SequenceTheorems, FiniteSetTheorems, SetInductions

-----------------------------------------------------------------------------
(* Ranks, and the pair that is merged next.                                   *)

RulesOK == table.rules \in Seq(Seq(Nat) \X Seq(Nat)) /\ InOrder(table.rules)

Rules == Len(table.rules)

LEMMA RankIs ==
  ASSUME RulesOK, NEW p
  PROVE  /\ Rules \in Nat /\ Rank(p) \in 1..(Rules + 1)
         /\ Rank(p) <= Rules => table.rules[Rank(p)] = p
         /\ \A k \in 1..Rules : table.rules[k] = p => Rank(p) <= k
  <1> DEFINE r == table.rules
             at == {k \in 1..Len(r) : r[k] = p}
  <1>1. Len(r) \in Nat
    BY DEF RulesOK
  <1>2. Rank(p) = IF at = {} THEN Len(r) + 1 ELSE CHOOSE k \in at : \A l \in at : k <= l
    BY DEF Rank
  <1>3. CASE at = {}
    BY <1>1, <1>2, <1>3 DEF Rules
  <1>4. CASE at # {}
    <2>1. \E k \in at : \A l \in at : k <= l
      <3>1. at \subseteq Nat
        OBVIOUS
      <3> HIDE DEF at
      <3> QED BY <1>4, <3>1, LeastNat
    <2>2. Rank(p) \in at /\ \A l \in at : Rank(p) <= l
      <3> HIDE DEF at
      <3> QED BY <1>2, <1>4, <2>1, Zenon
    <2> QED BY <1>1, <2>2 DEF Rules
  <1> QED BY <1>3, <1>4

\* Pairs that a rule joins have different ranks.
LEMMA RankTells ==
  ASSUME RulesOK, NEW p, NEW q, Rank(p) <= Rules, Rank(q) = Rank(p)
  PROVE  q = p
  BY RankIs

\* What a rule joins is part of later rules only.
LEMMA LaterRules ==
  ASSUME RulesOK, NEW p, NEW q, Rank(p) <= Rules, p[1] \o p[2] \in {q[1], q[2]}
  PROVE  Rank(p) < Rank(q)
  <1>1. Rank(p) \in 1..Rules /\ table.rules[Rank(p)] = p /\ Rules \in Nat
    BY RankIs
  <1>2. Rank(q) \in 1..(Rules + 1)
    BY RankIs
  <1>3. CASE Rank(q) = Rules + 1
    BY <1>1, <1>3
  <1>4. CASE Rank(q) <= Rules
    <2>1. table.rules[Rank(q)] = q /\ Rank(q) \in 1..Rules
      BY <1>1, <1>2, <1>4, RankIs
    <2>2. DOMAIN table.rules = 1..Rules
      BY DEF RulesOK, Rules
    <2> QED BY <1>1, <2>1, <2>2 DEF RulesOK, InOrder
  <1> QED BY <1>1, <1>2, <1>3, <1>4

PairAt(w, j) == <<w[j], w[j + 1]>>

Ranked(w) == {j \in 1..(Len(w) - 1) : Rank(PairAt(w, j)) <= Rules}

\* The first of the neighbours of the least rank.
IsNext(w, j) ==
  /\ j \in Ranked(w)
  /\ \A l \in Ranked(w) : \/ Rank(PairAt(w, j)) < Rank(PairAt(w, l))
                          \/ Rank(PairAt(w, j)) = Rank(PairAt(w, l)) /\ j <= l

NextAt(w) == CHOOSE j : IsNext(w, j)

Joining(w) == IF Ranked(w) = {} THEN w ELSE JoinedAt(w, NextAt(w))

LEMMA NextIsOne ==
  ASSUME RulesOK, NEW w, NEW j, NEW l, IsNext(w, j), IsNext(w, l), Len(w) \in Nat
  PROVE  j = l
  <1>1. j \in Nat /\ l \in Nat /\ j \in Ranked(w) /\ l \in Ranked(w)
    BY DEF IsNext, Ranked
  <1>2. Rank(PairAt(w, j)) \in Nat /\ Rank(PairAt(w, l)) \in Nat
    BY RankIs
  <1> QED BY <1>1, <1>2 DEF IsNext

LEMMA NextIs ==
  ASSUME RulesOK, NEW w, Len(w) \in Nat, Ranked(w) # {}
  PROVE  IsNext(w, NextAt(w)) /\ \A j : IsNext(w, j) => j = NextAt(w)
  <1> DEFINE T == {Rank(PairAt(w, j)) : j \in Ranked(w)}
  <1>1. T \subseteq Nat /\ T # {}
    BY RankIs
  <1>2. PICK x \in T : \A y \in T : x <= y
    <2> HIDE DEF T
    <2> QED BY <1>1, LeastNat
  <1> DEFINE U == {j \in Ranked(w) : Rank(PairAt(w, j)) = x}
  <1>3. U \subseteq Nat /\ U # {}
    BY DEF Ranked
  <1>4. PICK j \in U : \A l \in U : j <= l
    <2> HIDE DEF U
    <2> QED BY <1>3, LeastNat
  <1>5. IsNext(w, j)
    <2>1. ASSUME NEW l \in Ranked(w)
          PROVE  \/ Rank(PairAt(w, j)) < Rank(PairAt(w, l))
                 \/ Rank(PairAt(w, j)) = Rank(PairAt(w, l)) /\ j <= l
      <3>1. x <= Rank(PairAt(w, l)) /\ Rank(PairAt(w, j)) = x
        BY <1>2, <1>4
      <3>2. Rank(PairAt(w, l)) \in Nat /\ x \in Nat
        BY <1>1, <1>2, RankIs
      <3>3. Rank(PairAt(w, l)) = x => j <= l
        BY <1>4
      <3> QED BY <3>1, <3>2, <3>3
    <2> QED BY <1>4, <2>1 DEF IsNext
  <1>6. IsNext(w, NextAt(w))
    BY <1>5, Zenon DEF NextAt
  <1> QED BY <1>6, NextIsOne

-----------------------------------------------------------------------------
(* The list of boundaries, and the pieces they cut the word into.             *)

\* P has the boundaries that are left, and w the pieces.
Cut(st, P, w, n) ==
  /\ st.merged \subseteq 1..n /\ DOMAIN st.pairs = 1..n
  /\ P \in Seq(Nat) /\ \A a, b \in 1..Len(P) : a < b => P[a] < P[b]
  /\ \A a \in 1..Len(P) : P[a] \in (1..n) \ st.merged
  /\ \A k \in (1..n) \ st.merged : \E a \in 1..Len(P) : P[a] = k
  /\ w \in Seq(Runs(Nat)) /\ Len(w) = Len(P) + 1
  /\ \A a \in 1..Len(P) : st.pairs[P[a]] = PairAt(w, a)

RankedLive(st) == {k \in DOMAIN st.pairs \ st.merged : Rank(st.pairs[k]) <= Len(table.rules)}

IsChosen(st, k) ==
  /\ k \in RankedLive(st)
  /\ \A l \in RankedLive(st) :
       \/ Rank(st.pairs[k]) < Rank(st.pairs[l])
       \/ Rank(st.pairs[k]) = Rank(st.pairs[l]) /\ k <= l

RightOf(st, k) == {l \in DOMAIN st.pairs \ st.merged : l > k /\ (k + 1)..(l - 1) \subseteq st.merged}
LeftOf(st, k) == {l \in DOMAIN st.pairs \ st.merged : l < k /\ (l + 1)..(k - 1) \subseteq st.merged}

\* The boundary k goes, and its neighbours are told.
Told(st, k) ==
  [merged |-> st.merged \cup {k},
   pairs |-> [l \in DOMAIN st.pairs |->
     <<IF l \in RightOf(st, k) THEN st.pairs[k][1] \o st.pairs[k][2] ELSE st.pairs[l][1],
       IF l \in LeftOf(st, k) THEN st.pairs[k][1] \o st.pairs[k][2] ELSE st.pairs[l][2]>>]]

LEMMA MergeIs ==
  ASSUME NEW st
  PROVE  MergeOne(st) = IF RankedLive(st) = {} THEN st ELSE Told(st, CHOOSE k : IsChosen(st, k))
  <1>1. CASE RankedLive(st) = {}
    BY <1>1 DEF MergeOne, RankedLive
  <1>2. CASE RankedLive(st) # {}
    <2> DEFINE chosen == CHOOSE k \in RankedLive(st) : \A l \in RankedLive(st) :
                 \/ Rank(st.pairs[k]) < Rank(st.pairs[l])
                 \/ Rank(st.pairs[k]) = Rank(st.pairs[l]) /\ k <= l
    <2>1. MergeOne(st) = Told(st, chosen)
      BY <1>2, Zenon DEF MergeOne, RankedLive, Told, RightOf, LeftOf
    <2>2. chosen = CHOOSE k : IsChosen(st, k)
      BY Zenon DEF IsChosen
    <2> QED BY <1>2, <2>1, <2>2
  <1> QED BY <1>1, <1>2

LEMMA CutFacts ==
  ASSUME NEW st, NEW P, NEW w, NEW n \in Nat, Cut(st, P, w, n)
  PROVE  /\ Len(P) \in Nat /\ Len(w) \in Nat /\ Len(w) - 1 = Len(P)
         /\ \A a \in 1..Len(P) : /\ P[a] \in Nat /\ P[a] \in DOMAIN st.pairs \ st.merged
                                 /\ w[a] \in Runs(Nat) /\ w[a + 1] \in Runs(Nat)
         /\ \A a, b \in 1..Len(P) : P[a] = P[b] => a = b
         /\ \A a, b \in 1..Len(P) : P[a] < P[b] <=> a < b
         /\ \A a, b \in 1..Len(P) : P[a] <= P[b] <=> a <= b
  <1>1. Len(P) \in Nat /\ Len(w) \in Nat /\ Len(w) - 1 = Len(P)
    BY DEF Cut
  <1>2. ASSUME NEW a \in 1..Len(P)
        PROVE  /\ P[a] \in Nat /\ P[a] \in DOMAIN st.pairs \ st.merged
               /\ w[a] \in Runs(Nat) /\ w[a + 1] \in Runs(Nat)
    <2>1. a \in 1..Len(w) /\ a + 1 \in 1..Len(w)
      BY <1>1
    <2> QED BY <2>1, ElementOfSeq DEF Cut
  <1>3. \A a, b \in 1..Len(P) : a < b => P[a] < P[b]
    BY DEF Cut
  <1>4. \A a, b \in 1..Len(P) : a < b \/ a = b \/ b < a
    BY <1>1
  <1>5. \A a \in 1..Len(P) : P[a] \in Nat /\ a \in Nat
    BY <1>2
  <1>6. ASSUME NEW a \in 1..Len(P), NEW b \in 1..Len(P)
        PROVE  (P[a] = P[b] => a = b) /\ (P[a] < P[b] <=> a < b) /\ (P[a] <= P[b] <=> a <= b)
    <2>1. P[a] \in Nat /\ P[b] \in Nat /\ a \in Nat /\ b \in Nat
      BY <1>5
    <2>2. (a < b => P[a] < P[b]) /\ (b < a => P[b] < P[a])
      BY <1>3
    <2> QED BY <1>4, <2>1, <2>2
  <1> QED BY <1>1, <1>2, <1>6

LEMMA CutRanked ==
  ASSUME NEW st, NEW P, NEW w, NEW n \in Nat, Cut(st, P, w, n)
  PROVE  /\ RankedLive(st) = {P[a] : a \in Ranked(w)} /\ Ranked(w) \subseteq 1..Len(P)
         /\ \A a \in 1..Len(P) : st.pairs[P[a]] = PairAt(w, a)
  <1>1. Len(w) - 1 = Len(P) /\ DOMAIN st.pairs = 1..n
    BY CutFacts DEF Cut
  <1>2. \A a \in 1..Len(P) : st.pairs[P[a]] = PairAt(w, a)
    BY DEF Cut
  <1>3. \A k \in DOMAIN st.pairs \ st.merged : \E a \in 1..Len(P) : P[a] = k
    BY DEF Cut
  <1>4. \A a \in 1..Len(P) : P[a] \in DOMAIN st.pairs \ st.merged
    BY CutFacts
  <1> QED BY <1>1, <1>2, <1>3, <1>4, SMTT(30) DEF RankedLive, Ranked, Rules

LEMMA CutChosen ==
  ASSUME RulesOK, NEW st, NEW P, NEW w, NEW n \in Nat, Cut(st, P, w, n), Ranked(w) # {}
  PROVE  (CHOOSE k : IsChosen(st, k)) = P[NextAt(w)]
  <1> DEFINE j == NextAt(w)
  <1>1. IsNext(w, j)
    BY NextIs, CutFacts
  <1>2. j \in Ranked(w) /\ j \in 1..Len(P)
    BY <1>1, CutRanked DEF IsNext
  <1>3. \A a, b \in 1..Len(P) : P[a] <= P[b] <=> a <= b
    BY CutFacts
  <1> HIDE DEF j
  <1>4. IsChosen(st, P[j])
    <2>1. ASSUME NEW l \in RankedLive(st)
          PROVE  \/ Rank(st.pairs[P[j]]) < Rank(st.pairs[l])
                 \/ Rank(st.pairs[P[j]]) = Rank(st.pairs[l]) /\ P[j] <= l
      <3>1. PICK a \in Ranked(w) : l = P[a]
        BY CutRanked
      <3>2. a \in 1..Len(P) /\ st.pairs[l] = PairAt(w, a) /\ st.pairs[P[j]] = PairAt(w, j)
        BY <1>2, <3>1, CutRanked
      <3> QED BY <1>1, <1>2, <1>3, <3>1, <3>2 DEF IsNext
    <2>2. P[j] \in RankedLive(st)
      BY <1>2, CutRanked
    <2> QED BY <2>1, <2>2 DEF IsChosen
  <1>5. ASSUME NEW k, IsChosen(st, k) PROVE k = P[j]
    <2>1. PICK a \in Ranked(w) : k = P[a]
      BY <1>5, CutRanked DEF IsChosen
    <2>2. IsNext(w, a)
      <3>1. ASSUME NEW b \in Ranked(w)
            PROVE  \/ Rank(PairAt(w, a)) < Rank(PairAt(w, b))
                   \/ Rank(PairAt(w, a)) = Rank(PairAt(w, b)) /\ a <= b
        <4>1. P[b] \in RankedLive(st) /\ a \in 1..Len(P) /\ b \in 1..Len(P)
              /\ st.pairs[P[a]] = PairAt(w, a) /\ st.pairs[P[b]] = PairAt(w, b)
          BY <2>1, CutRanked
        <4> QED BY <1>3, <1>5, <2>1, <4>1 DEF IsChosen
      <3> QED BY <2>1, <3>1 DEF IsNext
    <2>3. Len(w) \in Nat
      BY CutFacts
    <2> QED BY <1>1, <2>1, <2>2, <2>3, NextIsOne
  <1>6. IsChosen(st, CHOOSE k : IsChosen(st, k))
    BY <1>4, Zenon
  <1> QED BY <1>5, <1>6, Zenon DEF j

LEMMA CutNeighbours ==
  ASSUME NEW st, NEW P, NEW w, NEW n \in Nat, Cut(st, P, w, n),
         NEW j \in 1..Len(P), NEW a \in 1..Len(P)
  PROVE  /\ P[a] \in RightOf(st, P[j]) <=> a = j + 1
         /\ P[a] \in LeftOf(st, P[j]) <=> a + 1 = j
  <1>1. /\ \A b \in 1..Len(P) : P[b] \in Nat /\ P[b] \in DOMAIN st.pairs \ st.merged
        /\ \A b, c \in 1..Len(P) : P[b] < P[c] <=> b < c
        /\ Len(P) \in Nat
    BY CutFacts
  <1>2. \A k \in DOMAIN st.pairs \ st.merged : \E b \in 1..Len(P) : P[b] = k
    BY DEF Cut
  \* between two boundaries next to each other there is none, else there is one
  <1>3. ASSUME NEW b \in 1..Len(P), NEW c \in 1..Len(P), b < c
        PROVE  (P[b] + 1)..(P[c] - 1) \subseteq st.merged <=> c = b + 1
    <2>1. CASE c = b + 1
      <3>1. ASSUME NEW k \in (P[b] + 1)..(P[c] - 1), k \notin st.merged PROVE FALSE
        <4>1. k \in DOMAIN st.pairs
          <5>1. P[b] \in 1..n /\ P[c] \in 1..n /\ DOMAIN st.pairs = 1..n
            BY DEF Cut
          <5> QED BY <5>1
        <4>2. PICK d \in 1..Len(P) : P[d] = k
          BY <1>2, <3>1, <4>1
        <4>3. P[b] < P[d] /\ P[d] < P[c]
          BY <1>1, <4>2
        <4>4. b < d /\ d < c
          BY <1>1, <4>3
        <4> QED BY <2>1, <4>4
      <3> QED BY <2>1, <3>1
    <2>2. CASE c # b + 1
      <3>1. b + 1 \in 1..Len(P) /\ b < b + 1 /\ b + 1 < c
        BY <1>1, <1>3, <2>2
      <3>2. P[b] < P[b + 1] /\ P[b + 1] < P[c] /\ P[b + 1] \notin st.merged
        BY <1>1, <3>1
      <3>3. P[b + 1] \in (P[b] + 1)..(P[c] - 1)
        BY <1>1, <3>1, <3>2
      <3> QED BY <2>2, <3>2, <3>3
    <2> QED BY <2>1, <2>2
  <1>4. P[a] > P[j] <=> j < a
    BY <1>1
  <1>5. P[a] < P[j] <=> a < j
    BY <1>1
  <1>6. P[a] \in RightOf(st, P[j]) <=> j < a /\ a = j + 1
    BY <1>1, <1>3, <1>4 DEF RightOf
  <1>7. P[a] \in LeftOf(st, P[j]) <=> a < j /\ j = a + 1
    BY <1>1, <1>3, <1>5 DEF LeftOf
  <1> QED BY <1>6, <1>7

\* P without its place j.
Without(P, j) == [b \in 1..(Len(P) - 1) |-> IF b < j THEN P[b] ELSE P[b + 1]]

LEMMA CutMerged ==
  ASSUME NEW st, NEW P, NEW w, NEW n \in Nat, Cut(st, P, w, n), NEW j \in 1..Len(P)
  PROVE  Cut(Told(st, P[j]), Without(P, j), JoinedAt(w, j), n)
  <1> DEFINE k == P[j]
             Q == Without(P, j)
             v == JoinedAt(w, j)
             s2 == Told(st, k)
             into == w[j] \o w[j + 1]
             m == Len(P)
  <1>1. /\ m \in Nat /\ Len(w) = m + 1 /\ w \in Seq(Runs(Nat)) /\ j \in 1..(Len(w) - 1)
        /\ \A a \in 1..m : P[a] \in Nat /\ P[a] \in (1..n) \ st.merged
        /\ \A a, b \in 1..m : P[a] < P[b] <=> a < b
        /\ \A a, b \in 1..m : P[a] = P[b] => a = b
        /\ \A a \in 1..m : st.pairs[P[a]] = <<w[a], w[a + 1]>>
        /\ DOMAIN st.pairs = 1..n /\ st.merged \subseteq 1..n
        /\ \A l \in (1..n) \ st.merged : \E a \in 1..m : P[a] = l
    <2>1. m \in Nat /\ Len(w) = m + 1 /\ \A a \in 1..m : P[a] \in Nat
      BY CutFacts
    <2>2. /\ \A a, b \in 1..m : P[a] < P[b] <=> a < b
          /\ \A a, b \in 1..m : P[a] = P[b] => a = b
      BY CutFacts
    <2>3. /\ w \in Seq(Runs(Nat)) /\ \A a \in 1..m : P[a] \in (1..n) \ st.merged
          /\ DOMAIN st.pairs = 1..n /\ st.merged \subseteq 1..n
          /\ \A l \in (1..n) \ st.merged : \E a \in 1..m : P[a] = l
      BY DEF Cut
    <2>4. \A a \in 1..m : st.pairs[P[a]] = <<w[a], w[a + 1]>>
      BY DEF Cut, PairAt
    <2>5. j \in 1..(Len(w) - 1)
      BY <2>1
    <2> QED BY <2>1, <2>2, <2>3, <2>4, <2>5
  <1>2. /\ v \in Seq(Runs(Nat)) /\ Len(v) = m
        /\ \A b \in 1..m : v[b] = IF b < j THEN w[b] ELSE IF b = j THEN into ELSE w[b + 1]
    <2>1. w \in Seq(Runs(Nat)) /\ j \in 1..(Len(w) - 1) /\ Len(w) - 1 = m
      BY <1>1
    <2> HIDE DEF m, v, into
    <2>2. /\ JoinedAt(w, j) \in Seq(Runs(Nat)) /\ Len(JoinedAt(w, j)) = Len(w) - 1
          /\ \A b \in 1..(Len(w) - 1) : JoinedAt(w, j)[b] =
               IF b < j THEN w[b] ELSE IF b = j THEN w[j] \o w[j + 1] ELSE w[b + 1]
      BY <2>1, JoinedAtFacts
    <2> QED BY <2>1, <2>2 DEF v, into
  <1>3. /\ s2.merged = st.merged \cup {k}
        /\ DOMAIN s2.pairs = 1..n
        /\ \A a \in 1..m : s2.pairs[P[a]] = <<IF a = j + 1 THEN into ELSE w[a],
                                             IF a + 1 = j THEN into ELSE w[a + 1]>>
    <2>1. s2.merged = st.merged \cup {k} /\ DOMAIN s2.pairs = 1..n
      BY <1>1 DEF Told
    <2>2. ASSUME NEW a \in 1..m
          PROVE  s2.pairs[P[a]] = <<IF a = j + 1 THEN into ELSE w[a],
                                    IF a + 1 = j THEN into ELSE w[a + 1]>>
      <3>1. st.pairs[k][1] \o st.pairs[k][2] = into /\ P[a] \in DOMAIN st.pairs
            /\ st.pairs[P[a]][1] = w[a] /\ st.pairs[P[a]][2] = w[a + 1]
        <4>1. st.pairs[P[a]] = <<w[a], w[a + 1]>> /\ st.pairs[k] = <<w[j], w[j + 1]>>
          BY <1>1
        <4>2. P[a] \in DOMAIN st.pairs
          BY <1>1
        <4> HIDE DEF k, s2, Q, v, m
        <4>3. st.pairs[k][1] = w[j] /\ st.pairs[k][2] = w[j + 1]
          BY <4>1
        <4>4. st.pairs[P[a]][1] = w[a] /\ st.pairs[P[a]][2] = w[a + 1]
          BY <4>1
        <4> QED BY <4>2, <4>3, <4>4
      <3>2. s2.pairs[P[a]] =
              <<IF P[a] \in RightOf(st, k) THEN st.pairs[k][1] \o st.pairs[k][2] ELSE st.pairs[P[a]][1],
                IF P[a] \in LeftOf(st, k) THEN st.pairs[k][1] \o st.pairs[k][2] ELSE st.pairs[P[a]][2]>>
        BY <3>1 DEF Told
      <3>3. (P[a] \in RightOf(st, k) <=> a = j + 1) /\ (P[a] \in LeftOf(st, k) <=> a + 1 = j)
        BY CutNeighbours
      <3> HIDE DEF s2, k, into, m
      <3> QED BY <3>1, <3>2, <3>3
    <2> QED BY <2>1, <2>2
  <1>4. /\ Q \in Seq(Nat) /\ Len(Q) = m - 1
        /\ \A b \in 1..(m - 1) : Q[b] = IF b < j THEN P[b] ELSE P[b + 1]
    <2>1. m - 1 \in Nat /\ \A b \in 1..(m - 1) : b \in 1..m /\ b + 1 \in 1..m
      BY <1>1
    <2> HIDE DEF m
    <2>2. Q = [b \in 1..(m - 1) |-> IF b < j THEN P[b] ELSE P[b + 1]]
      BY DEF Without, m
    <2> HIDE DEF Q
    <2> QED BY <1>1, <2>1, <2>2
  <1> HIDE DEF Q, v, s2, into, m
  \* the place in P of what is at b in Q
  <1> DEFINE Old(b) == IF b < j THEN b ELSE b + 1
  <1>5. \A b \in 1..(m - 1) : Old(b) \in 1..m /\ Old(b) # j /\ Q[b] = P[Old(b)] /\ Old(b) \in Nat
    <2>1. ASSUME NEW b \in 1..(m - 1)
          PROVE  Old(b) \in 1..m /\ Old(b) # j /\ Q[b] = P[Old(b)] /\ Old(b) \in Nat
      <3>1. b \in 1..m /\ b + 1 \in 1..m /\ b \in Nat /\ j \in Nat
        BY <1>1
      <3>2. Q[b] = P[Old(b)]
        BY <1>4
      <3> QED BY <3>1, <3>2
    <2> QED BY <2>1
  <1>6. \A b, c \in 1..(m - 1) : b < c => Old(b) < Old(c)
    BY <1>1
  <1> HIDE DEF Old
  <1>7. \A b, c \in 1..Len(Q) : b < c => Q[b] < Q[c]
    <2>1. ASSUME NEW b \in 1..(m - 1), NEW c \in 1..(m - 1), b < c PROVE Q[b] < Q[c]
      <3>1. Old(b) \in 1..m /\ Old(c) \in 1..m /\ Old(b) < Old(c)
        BY <1>5, <1>6, <2>1
      <3>2. P[Old(b)] < P[Old(c)]
        BY <1>1, <3>1
      <3> QED BY <1>5, <3>2
    <2> QED BY <1>4, <2>1
  <1>8. \A b \in 1..Len(Q) : Q[b] \in (1..n) \ s2.merged
    <2>1. ASSUME NEW b \in 1..(m - 1) PROVE Q[b] \in (1..n) \ s2.merged
      <3>1. P[Old(b)] # k
        BY <1>1, <1>5 DEF k, m
      <3> QED BY <1>1, <1>3, <1>5, <3>1
    <2> QED BY <1>4, <2>1
  <1>9. ASSUME NEW l \in (1..n) \ s2.merged PROVE \E b \in 1..Len(Q) : Q[b] = l
    <2>1. PICK a \in 1..m : P[a] = l
      BY <1>1, <1>3
    <2>2. a # j
      BY <1>3, <2>1
    <2>3. CASE a < j
      <3>1. a \in 1..(m - 1) /\ Q[a] = P[a]
        BY <1>1, <1>4, <2>3, SMTT(30) DEF m
      <3> QED BY <1>4, <2>1, <3>1
    <2>4. CASE a > j
      <3>1. a - 1 \in 1..(m - 1) /\ ~(a - 1 < j) /\ (a - 1) + 1 = a
        BY <1>1, <2>4
      <3>2. Q[a - 1] = P[a]
        BY <1>4, <3>1
      <3> QED BY <1>4, <2>1, <3>1, <3>2
    <2> QED BY <1>1, <2>2, <2>3, <2>4
  <1>10. ASSUME NEW b \in 1..(m - 1) PROVE s2.pairs[Q[b]] = <<v[b], v[b + 1]>>
    <2>1. b \in 1..m /\ b + 1 \in 1..m /\ b + 2 = b + 1 + 1
      BY <1>1
    <2>2. CASE b < j
      <3>1. Q[b] = P[b] /\ v[b] = w[b] /\ b # j + 1
        BY <1>1, <1>2, <1>4, <2>1, <2>2
      <3>2. v[b + 1] = IF b + 1 = j THEN into ELSE w[b + 1]
        <4>1. v[b + 1] = IF b + 1 < j THEN w[b + 1] ELSE IF b + 1 = j THEN into ELSE w[(b + 1) + 1]
          BY <1>2, <2>1
        <4>2. b + 1 < j \/ b + 1 = j
          BY <1>1, <2>2
        <4> QED BY <1>1, <4>1, <4>2
      <3> QED BY <1>3, <2>1, <3>1, <3>2
    <2>3. CASE ~(b < j)
      <3>1. Q[b] = P[b + 1] /\ b + 1 + 1 # j /\ (b + 1 = j + 1 <=> b = j)
        BY <1>1, <1>4, <2>1, <2>3
      <3>2. v[b] = IF b + 1 = j + 1 THEN into ELSE w[b + 1]
        BY <1>1, <1>2, <2>1, <2>3
      <3>3. v[b + 1] = w[b + 1 + 1]
        BY <1>1, <1>2, <2>1, <2>3
      <3> QED BY <1>3, <2>1, <3>1, <3>2, <3>3
    <2> QED BY <2>2, <2>3
  <1>11. \A b \in 1..Len(Q) : s2.pairs[Q[b]] = PairAt(v, b)
    BY <1>4, <1>10 DEF PairAt
  <1>12. Len(v) = Len(Q) + 1
    BY <1>1, <1>2, <1>4
  <1>13. s2.merged \subseteq 1..n
    BY <1>1, <1>3 DEF m
  <1> QED BY <1>2, <1>3, <1>4, <1>7, <1>8, <1>9, <1>11, <1>12, <1>13 DEF Cut, Q, v, s2, k

LEMMA CutStep ==
  ASSUME RulesOK, NEW st, NEW P, NEW w, NEW n \in Nat, Cut(st, P, w, n)
  PROVE  \E Q : Cut(MergeOne(st), Q, Joining(w), n)
  <1>1. CASE Ranked(w) = {}
    <2>1. RankedLive(st) = {}
      BY <1>1, CutRanked
    <2> QED BY <1>1, <2>1, MergeIs DEF Joining
  <1>2. CASE Ranked(w) # {}
    <2>1. RankedLive(st) # {} /\ NextAt(w) \in 1..Len(P)
      <3>1. Len(w) \in Nat
        BY CutFacts
      <3>2. NextAt(w) \in Ranked(w)
        BY <1>2, <3>1, NextIs DEF IsNext
      <3>3. Ranked(w) \subseteq 1..Len(P) /\ RankedLive(st) = {P[a] : a \in Ranked(w)}
        BY CutRanked
      <3>4. P[NextAt(w)] \in RankedLive(st)
        BY <3>2, <3>3
      <3> QED BY <3>2, <3>3, <3>4
    <2>2. MergeOne(st) = Told(st, P[NextAt(w)])
      BY <1>2, <2>1, MergeIs, CutChosen
    <2>3. Joining(w) = JoinedAt(w, NextAt(w))
      BY <1>2 DEF Joining
    <2> QED BY <2>1, <2>2, <2>3, CutMerged
  <1> QED BY <1>1, <1>2

-----------------------------------------------------------------------------
(* The rounds, as pieces.                                                     *)

Singles(word) == [l \in 1..Len(word) |-> <<word[l]>>]

LEMMA SinglesFacts ==
  ASSUME NEW S, NEW word \in Seq(S)
  PROVE  /\ Singles(word) \in Seq(Runs(S)) /\ Len(Singles(word)) = Len(word)
         /\ FlattenSeq(Singles(word)) = word
  <1> DEFINE n == Len(word)
             T == {l \in Nat : l <= n => FlattenSeq(SubSeq(Singles(word), 1, l)) = SubSeq(word, 1, l)}
  <1>0. n \in Nat /\ \A l \in 1..n : word[l] \in S
    OBVIOUS
  <1>1. Singles(word) \in Seq(Runs(S)) /\ Len(Singles(word)) = n
    <2>1. \A l \in 1..n : <<word[l]>> \in Runs(S)
      BY <1>0 DEF Runs
    <2> HIDE DEF n
    <2>2. Singles(word) = [l \in 1..n |-> <<word[l]>>]
      BY DEF Singles, n
    <2> QED BY <1>0, <2>1, <2>2
  <1>2. 0 \in T
    <2>1. SubSeq(Singles(word), 1, 0) = <<>> /\ SubSeq(word, 1, 0) = <<>>
      BY <1>1
    <2>2. FlattenSeq(<<>>) = <<>>
      BY FlattenOfNone
    <2> QED BY <2>1, <2>2
  <1>3. ASSUME NEW l \in Nat, l \in T PROVE l + 1 \in T
    <2> SUFFICES ASSUME l + 1 <= n
                 PROVE  FlattenSeq(SubSeq(Singles(word), 1, l + 1)) = SubSeq(word, 1, l + 1)
      OBVIOUS
    <2>0. l + 1 \in 1..n /\ Singles(word)[l + 1] = <<word[l + 1]>>
      BY DEF Singles
    <2>1. /\ SubSeq(Singles(word), 1, l) \in Seq(Runs(S))
          /\ SubSeq(Singles(word), 1, l + 1) = Append(SubSeq(Singles(word), 1, l), <<word[l + 1]>>)
      <3> HIDE DEF n
      <3> QED BY <1>1, <2>0, HeadOfMore
    <2>2. SubSeq(word, 1, l) \in Seq(S) /\ SubSeq(word, 1, l + 1) = Append(SubSeq(word, 1, l), word[l + 1])
      BY HeadOfMore
    <2>3. SubSeq(Singles(word), 1, l) \in Seq(Seq(S)) /\ <<word[l + 1]>> \in Seq(S)
      <3>1. Runs(S) \subseteq Seq(S)
        BY DEF Runs
      <3>2. word[l + 1] \in S
        BY <1>0, <2>0
      <3> QED BY <2>1, <3>1, <3>2, SeqMonotonic
    <2> DEFINE x == word[l + 1]
               rr == SubSeq(Singles(word), 1, l)
               t == SubSeq(word, 1, l)
    <2>4. FlattenSeq(rr) = t
      BY <1>3
    <2>5. x \in S
      BY <1>0, <2>0
    <2> HIDE DEF x, rr, t
    <2>6. FlattenSeq(Append(rr, <<x>>)) = FlattenSeq(rr) \o <<x>>
      BY <2>3, FlattenOfMore DEF x, rr
    <2>7. t \o <<x>> = Append(t, x)
      BY <2>2, <2>5 DEF t
    <2> QED BY <2>1, <2>2, <2>4, <2>6, <2>7 DEF x, rr, t
  <1>4. Nat \subseteq T
    <2> HIDE DEF T
    <2> QED BY <1>2, <1>3, SetInduction
  <1>5. FlattenSeq(SubSeq(Singles(word), 1, n)) = SubSeq(word, 1, n)
    <2>1. n \in T /\ n <= n
      BY <1>0, <1>4
    <2> HIDE DEF n
    <2> QED BY <2>1
  <1>6. SubSeq(word, 1, n) = word
    OBVIOUS
  <1>7. SubSeq(Singles(word), 1, n) = Singles(word)
    <2> HIDE DEF n
    <2> QED BY <1>0, <1>1, SubSeqFull
  <1> QED BY <1>1, <1>5, <1>6, <1>7

\* F gives the pieces after each merge.
IsRounds(F, word) ==
  F = [k \in 0..(Len(word) - 1) |-> IF k = 0 THEN Singles(word) ELSE Joining(F[k - 1])]

LEMMA JoiningFacts ==
  ASSUME RulesOK, NEW w \in Seq(Runs(Nat))
  PROVE  /\ Joining(w) \in Seq(Runs(Nat)) /\ FlattenSeq(Joining(w)) = FlattenSeq(w)
         /\ Ranked(w) = {} => Joining(w) = w
         /\ Ranked(w) # {} => /\ Len(Joining(w)) = Len(w) - 1 /\ NextAt(w) \in 1..(Len(w) - 1)
                              /\ Joining(w) = JoinedAt(w, NextAt(w))
  <1>1. Len(w) \in Nat
    OBVIOUS
  <1>2. CASE Ranked(w) = {}
    BY <1>2 DEF Joining
  <1>3. CASE Ranked(w) # {}
    <2>1. NextAt(w) \in 1..(Len(w) - 1)
      BY <1>1, <1>3, NextIs DEF IsNext, Ranked
    <2>2. Joining(w) = JoinedAt(w, NextAt(w))
      BY <1>3 DEF Joining
    <2> QED BY <1>3, <2>1, <2>2, JoinedAtFacts
  <1> QED BY <1>2, <1>3

LEMMA RoundsExist ==
  ASSUME RulesOK, NEW word \in Runs(Nat)
  PROVE  \E F \in [0..(Len(word) - 1) -> Seq(Runs(Nat))] : IsRounds(F, word)
  <1> DEFINE n == Len(word) - 1
             step == [w \in Seq(Runs(Nat)) |-> Joining(w)]
  <1>1. n \in Nat /\ word \in Seq(Nat)
    <2>1. word \in Seq(Nat) /\ word # <<>>
      BY DEF Runs
    <2>2. Len(word) # 0
      BY <2>1, EmptySeq
    <2> QED BY <2>1, <2>2
  <1>2. Singles(word) \in Seq(Runs(Nat))
    BY <1>1, SinglesFacts
  <1>3. step \in [Seq(Runs(Nat)) -> Seq(Runs(Nat))]
    BY JoiningFacts
  <1> HIDE DEF step, n
  <1>4. PICK F \in [0..n -> Seq(Runs(Nat))] : Iterated(F, Singles(word), step, n)
    BY <1>1, <1>2, <1>3, UpRecursion
  <1>5. ASSUME NEW k \in 0..n
        PROVE  F[k] = IF k = 0 THEN Singles(word) ELSE Joining(F[k - 1])
    <2>1. F[k] = IF k = 0 THEN Singles(word) ELSE step[F[k - 1]]
      BY <1>4, Zenon DEF Iterated
    <2>2. k # 0 => F[k - 1] \in Seq(Runs(Nat))
      BY <1>1
    <2> QED BY <2>1, <2>2 DEF step
  <1>6. F = [k \in 0..n |-> F[k]]
    OBVIOUS
  <1>7. IsRounds(F, word)
    BY <1>5, <1>6, Zenon DEF IsRounds, n
  <1> QED BY <1>7 DEF n

LEMMA RoundsFacts ==
  ASSUME RulesOK, NEW word \in Runs(Nat), NEW F, IsRounds(F, word)
  PROVE  /\ Len(word) - 1 \in Nat
         /\ F[0] = Singles(word)
         /\ \A k \in 0..(Len(word) - 1) :
              /\ F[k] \in Seq(Runs(Nat)) /\ FlattenSeq(F[k]) = word
              /\ k < Len(word) - 1 => F[k + 1] = Joining(F[k])
              /\ Ranked(F[k]) = {} \/ Len(F[k]) = Len(word) - k
              /\ Ranked(F[k]) = {} => F[Len(word) - 1] = F[k]
         /\ Ranked(F[Len(word) - 1]) = {}
  <1> DEFINE n == Len(word) - 1
  <1>1. n \in Nat /\ word \in Seq(Nat) /\ Len(word) = n + 1
    <2>1. word \in Seq(Nat) /\ word # <<>>
      BY DEF Runs
    <2>2. Len(word) # 0
      BY <2>1, EmptySeq
    <2> QED BY <2>1, <2>2
  <1> HIDE DEF n
  <1>2. \A k \in 0..n : F[k] = IF k = 0 THEN Singles(word) ELSE Joining(F[k - 1])
    BY Zenon DEF IsRounds, n
  <1>3. F[0] = Singles(word)
    <2>1. 0 \in 0..n
      BY <1>1
    <2> QED BY <1>2, <2>1
  <1>4. ASSUME NEW k \in 0..n, k < n PROVE k + 1 \in 0..n /\ F[k + 1] = Joining(F[k])
    <2>1. k + 1 \in 0..n /\ k + 1 # 0 /\ (k + 1) - 1 = k
      BY <1>1, <1>4
    <2> QED BY <1>2, <2>1
  <1> DEFINE Good(k) == /\ F[k] \in Seq(Runs(Nat)) /\ FlattenSeq(F[k]) = word
                        /\ Ranked(F[k]) = {} \/ Len(F[k]) = Len(word) - k
             T == {k \in Nat : k <= n => Good(k)}
  <1>5. 0 \in T
    <2>1. Good(0)
      BY <1>1, <1>3, SinglesFacts
    <2> QED BY <2>1
  <1>6. ASSUME NEW k \in Nat, k \in T PROVE k + 1 \in T
    <2> SUFFICES ASSUME k + 1 <= n PROVE Good(k + 1)
      OBVIOUS
    <2>1. k \in 0..n /\ k < n /\ Good(k)
      BY <1>1, <1>6
    <2>2. F[k + 1] = Joining(F[k])
      BY <1>4, <2>1
    <2>3. CASE Ranked(F[k]) = {}
      BY <2>1, <2>2, <2>3, JoiningFacts
    <2>4. CASE Ranked(F[k]) # {}
      <3>1. Len(F[k + 1]) = Len(F[k]) - 1 /\ Len(F[k]) = Len(word) - k
        BY <2>1, <2>2, <2>4, JoiningFacts
      <3>2. F[k + 1] \in Seq(Runs(Nat)) /\ FlattenSeq(F[k + 1]) = word
        BY <2>1, <2>2, JoiningFacts
      <3> QED BY <1>1, <3>1, <3>2
    <2> QED BY <2>3, <2>4
  <1>7. \A k \in 0..n : Good(k)
    <2>1. Nat \subseteq T
      <3> HIDE DEF T
      <3> QED BY <1>5, <1>6, SetInduction
    <2>2. \A k \in 0..n : k \in Nat /\ k <= n
      BY <1>1
    <2> HIDE DEF Good
    <2> QED BY <2>1, <2>2
  <1>8. Ranked(F[n]) = {}
    <2>1. n \in 0..n /\ Len(word) - n = 1
      BY <1>1
    <2>2. Ranked(F[n]) = {} \/ Len(F[n]) = 1
      BY <1>7, <2>1
    <2>3. Len(F[n]) = 1 => 1..(Len(F[n]) - 1) = {}
      OBVIOUS
    <2> QED BY <2>2, <2>3 DEF Ranked
  <1>9. ASSUME NEW k \in 0..n, Ranked(F[k]) = {} PROVE F[n] = F[k]
    <2> DEFINE U == {d \in Nat : k + d <= n => F[k + d] = F[k]}
    <2>1. 0 \in U
      BY <1>1
    <2>2. ASSUME NEW d \in Nat, d \in U PROVE d + 1 \in U
      <3> SUFFICES ASSUME k + (d + 1) <= n PROVE F[k + (d + 1)] = F[k]
        OBVIOUS
      <3>1. k + d \in 0..n /\ k + d < n /\ (k + d) + 1 = k + (d + 1) /\ F[k + d] = F[k]
        BY <1>1, <2>2
      <3>2. F[(k + d) + 1] = Joining(F[k + d])
        BY <1>4, <3>1, Zenon
      <3>3. Joining(F[k]) = F[k]
        BY <1>7, <1>9, JoiningFacts
      <3> QED BY <3>1, <3>2, <3>3
    <2>3. Nat \subseteq U
      <3> HIDE DEF U
      <3> QED BY <2>1, <2>2, SetInduction
    <2>4. n - k \in Nat /\ k + (n - k) = n /\ n <= n
      BY <1>1
    <2>5. n - k \in U
      BY <2>3, <2>4
    <2> QED BY <2>4, <2>5
  <1> HIDE DEF T
  <1> QED BY <1>1, <1>3, <1>4, <1>7, <1>8, <1>9 DEF n

-----------------------------------------------------------------------------
(* What Bpe makes of the boundaries that are left.                            *)

PiecesAt(st, k) ==
  IF k \in st.merged THEN <<>>
  ELSE IF 1..(k - 1) \subseteq st.merged THEN st.pairs[k]
  ELSE <<st.pairs[k][2]>>

PiecesFrom(st, word, n) ==
  IF st.merged = 1..n THEN <<word>> ELSE FlattenSeq([k \in 1..n |-> PiecesAt(st, k)])

LEMMA PiecesAtType ==
  ASSUME NEW st, NEW P, NEW w, NEW n \in Nat, Cut(st, P, w, n), NEW k \in 1..n
  PROVE  /\ PiecesAt(st, k) \in Seq(Runs(Nat))
         /\ k \in st.merged => PiecesAt(st, k) = <<>>
         /\ \A a \in 1..Len(P) : P[a] = k => PiecesAt(st, k) =
              IF a = 1 THEN <<w[1], w[2]>> ELSE <<w[a + 1]>>
  <1>1. CASE k \in st.merged
    <2>1. PiecesAt(st, k) = <<>>
      BY <1>1 DEF PiecesAt
    <2>2. \A a \in 1..Len(P) : P[a] # k
      BY <1>1, CutFacts
    <2>3. <<>> \in Seq(Runs(Nat))
      OBVIOUS
    <2> QED BY <2>1, <2>2, <2>3
  <1>2. CASE k \notin st.merged
    <2>1. PICK a \in 1..Len(P) : P[a] = k
      BY <1>2 DEF Cut
    <2>2. \A b \in 1..Len(P) : P[b] = k => b = a
      BY <2>1, CutFacts
    <2>3. st.pairs[k] = <<w[a], w[a + 1]>> /\ w[a] \in Runs(Nat) /\ w[a + 1] \in Runs(Nat)
      BY <2>1, CutFacts DEF Cut, PairAt
    <2>4. 1..(k - 1) \subseteq st.merged <=> a = 1
      <3>1. ASSUME NEW l \in 1..(k - 1), l \notin st.merged, a = 1 PROVE FALSE
        <4>1. l \in (1..n) \ st.merged
          BY <3>1
        <4>2. PICK b \in 1..Len(P) : P[b] = l
          BY <4>1 DEF Cut
        <4>3. P[b] < P[a]
          BY <2>1, <4>2
        <4>4. b < a
          BY <4>3, CutFacts
        <4> QED BY <3>1, <4>4
      <3>2. ASSUME a # 1 PROVE ~(1..(k - 1) \subseteq st.merged)
        <4>1. 1 \in 1..Len(P) /\ 1 < a
          BY <3>2, CutFacts
        <4>2. P[1] < P[a] /\ P[1] \in (1..n) \ st.merged
          BY <4>1 DEF Cut
        <4>3. P[1] \in 1..(k - 1)
          BY <2>1, <4>2
        <4> QED BY <4>2, <4>3
      <3> QED BY <3>1, <3>2
    <2>5. PiecesAt(st, k) = IF a = 1 THEN <<w[1], w[2]>> ELSE <<w[a + 1]>>
      <3> DEFINE x == w[a + 1]
      <3>1. st.pairs[k][2] = x
        <4> HIDE DEF x
        <4> QED BY <2>3 DEF x
      <3> QED BY <1>2, <2>3, <2>4, <3>1 DEF PiecesAt
    <2>6. PiecesAt(st, k) \in Seq(Runs(Nat))
      <3> DEFINE x == w[a]
                 y == w[a + 1]
      <3>1. x \in Runs(Nat) /\ y \in Runs(Nat)
        BY <2>3
      <3>2. PiecesAt(st, k) = <<x, y>> \/ PiecesAt(st, k) = <<y>>
        BY <2>5
      <3> HIDE DEF x, y
      <3>3. <<x, y>> \in Seq(Runs(Nat)) /\ <<y>> \in Seq(Runs(Nat))
        BY <3>1
      <3> QED BY <3>2, <3>3
    <2> QED BY <1>2, <2>2, <2>5, <2>6
  <1> QED BY <1>1, <1>2

LEMMA ShortSeqs ==
  ASSUME NEW S, NEW w \in Seq(S)
  PROVE  /\ Len(w) = 1 => w = <<w[1]>> /\ w[1] \in S
         /\ Len(w) = 2 => w = <<w[1], w[2]>>
         /\ <<>> \o w = w
  OBVIOUS

LEMMA PiecesFromIs ==
  ASSUME NEW st, NEW P, NEW w, NEW n \in Nat, Cut(st, P, w, n),
         NEW word \in Seq(Nat), FlattenSeq(w) = word
  PROVE  PiecesFrom(st, word, n) = w
  <1> DEFINE E == [k \in 1..n |-> PiecesAt(st, k)]
             l == Len(P)
  <1>1. /\ l \in Nat /\ Len(w) = l + 1 /\ w \in Seq(Runs(Nat))
        /\ \A a \in 1..l : P[a] \in Nat /\ P[a] \in 1..n /\ P[a] \notin st.merged
        /\ \A a, b \in 1..l : P[a] < P[b] <=> a < b
        /\ \A k \in (1..n) \ st.merged : \E a \in 1..l : P[a] = k
    BY CutFacts, SMTT(30) DEF Cut
  <1>2. E \in Seq(Seq(Runs(Nat))) /\ Len(E) = n /\ \A k \in 1..n : E[k] = PiecesAt(st, k)
    <2> DEFINE S == Seq(Runs(Nat))
    <2>1. \A k \in 1..n : PiecesAt(st, k) \in S
      BY PiecesAtType
    <2> HIDE DEF S
    <2>2. E \in Seq(S) /\ Len(E) = n /\ \A k \in 1..n : E[k] = PiecesAt(st, k)
      BY <2>1
    <2> QED BY <2>2 DEF S
  <1> HIDE DEF E, l
  <1> DEFINE Upto(k, a) == /\ a \in 0..l /\ \A b \in 1..l : P[b] <= k <=> b <= a
                           /\ FlattenSeq(SubSeq(E, 1, k)) = IF a = 0 THEN <<>> ELSE SubSeq(w, 1, a + 1)
             T == {k \in Nat : k <= n => \E a \in 0..l : Upto(k, a)}
  <1>3. 0 \in T
    <2>1. SubSeq(E, 1, 0) = <<>>
      BY <1>2
    <2>2. FlattenSeq(SubSeq(E, 1, 0)) = <<>>
      BY <2>1, FlattenOfNone, Zenon
    <2>3. \A b \in 1..l : P[b] <= 0 <=> b <= 0
      BY <1>1
    <2>4. Upto(0, 0)
      BY <1>1, <2>2, <2>3
    <2>5. 0 \in 0..l
      BY <1>1
    <2> HIDE DEF Upto
    <2> QED BY <2>4, <2>5
  <1>4. ASSUME NEW k \in Nat, k \in T PROVE k + 1 \in T
    <2> SUFFICES ASSUME k + 1 <= n PROVE \E a \in 0..l : Upto(k + 1, a)
      OBVIOUS
    <2>0. k + 1 \in 1..n /\ k <= n
      OBVIOUS
    <2>1. PICK a \in 0..l : Upto(k, a)
      BY <1>4, <2>0
    <2>2. /\ \A b \in 1..l : P[b] <= k <=> b <= a
          /\ FlattenSeq(SubSeq(E, 1, k)) = IF a = 0 THEN <<>> ELSE SubSeq(w, 1, a + 1)
      BY <2>1
    <2>3. FlattenSeq(SubSeq(E, 1, k + 1)) = FlattenSeq(SubSeq(E, 1, k)) \o PiecesAt(st, k + 1)
      <3> DEFINE S == Seq(Runs(Nat))
                 x == PiecesAt(st, k + 1)
                 A == SubSeq(E, 1, k)
      <3>1. E \in Seq(S) /\ E[k + 1] = x /\ k + 1 <= Len(E) /\ x \in S
        BY <1>2, <2>0, PiecesAtType
      <3> HIDE DEF S
      <3>2. A \in Seq(S) /\ SubSeq(E, 1, k + 1) = Append(A, E[k + 1])
        BY <3>1, HeadOfMore
      <3>3. A \in Seq(Seq(Runs(Nat))) /\ x \in Seq(Runs(Nat))
        BY <3>1, <3>2 DEF S
      <3> HIDE DEF A, x
      <3>4. FlattenSeq(Append(A, x)) = FlattenSeq(A) \o x
        BY <3>3, FlattenOfMore
      <3> QED BY <3>1, <3>2, <3>4 DEF A, x
    <2>4. CASE k + 1 \in st.merged
      <3>1. PiecesAt(st, k + 1) = <<>>
        BY <2>0, <2>4, PiecesAtType
      <3>2. FlattenSeq(SubSeq(E, 1, k)) \in Seq(Runs(Nat))
        <4>1. <<>> \in Seq(Runs(Nat)) /\ (a # 0 => SubSeq(w, 1, a + 1) \in Seq(Runs(Nat)))
          BY <1>1
        <4> QED BY <2>2, <4>1
      <3>3. FlattenSeq(SubSeq(E, 1, k + 1)) = FlattenSeq(SubSeq(E, 1, k))
        BY <2>3, <3>1, <3>2, ConcatEmptySeq
      <3>4. \A b \in 1..l : P[b] <= k + 1 <=> b <= a
        <4>1. \A b \in 1..l : P[b] # k + 1 /\ P[b] \in Nat
          BY <1>1, <2>4
        <4>2. \A b \in 1..l : P[b] <= k + 1 <=> P[b] <= k
          BY <4>1
        <4> QED BY <2>2, <4>2
      <3>5. Upto(k + 1, a)
        BY <2>2, <3>3, <3>4
      <3> QED BY <3>5
    <2>5. CASE k + 1 \notin st.merged
      <3>1. PICK b \in 1..l : P[b] = k + 1
        BY <1>1, <2>0, <2>5
      <3>2. b = a + 1
        <4>1. ~(b <= a)
          BY <2>2, <3>1
        <4>2. CASE b > a + 1
          <5>1. a + 1 \in 1..l /\ a + 1 < b
            BY <1>1, <3>1, <4>2
          <5>2. P[a + 1] < k + 1
            BY <1>1, <3>1, <5>1
          <5>3. P[a + 1] <= k
            BY <1>1, <5>1, <5>2
          <5>4. a + 1 <= a
            BY <2>2, <5>1, <5>3
          <5> QED BY <5>4
        <4> QED BY <1>1, <3>1, <4>1, <4>2
      <3>3. PiecesAt(st, k + 1) = IF b = 1 THEN <<w[1], w[2]>> ELSE <<w[b + 1]>>
        <4>1. b \in 1..Len(P)
          BY DEF l
        <4> QED BY <2>0, <3>1, <4>1, PiecesAtType, Zenon
      <3>4. FlattenSeq(SubSeq(E, 1, k + 1)) = SubSeq(w, 1, b + 1)
        <4>0. b + 1 <= Len(w) /\ b \in Nat /\ b + 1 \in 1..Len(w) /\ 1 \in 1..Len(w) /\ 2 \in 1..Len(w)
          BY <1>1, <3>1
        <4>1. SubSeq(w, 1, b + 1) = Append(SubSeq(w, 1, b), w[b + 1]) /\ SubSeq(w, 1, b) \in Seq(Runs(Nat))
          BY <1>1, <4>0, HeadOfMore
        <4>2. CASE a = 0
          <5> DEFINE r == SubSeq(w, 1, 2)
          <5>1. 2 - 1 + 1 = 2 /\ 1 + 1 - 1 = 1 /\ 1 + 2 - 1 = 2 /\ 2 <= Len(w)
            BY <4>0
          <5>2. r \in Seq(Runs(Nat)) /\ Len(r) = 2 /\ r[1] = w[1] /\ r[2] = w[2]
            BY <1>1, <4>0
          <5> HIDE DEF r
          <5>3. r = <<w[1], w[2]>> /\ <<>> \o r = r
            BY <5>2, ShortSeqs
          <5>4. b = 1 /\ b + 1 = 2 /\ FlattenSeq(SubSeq(E, 1, k)) = <<>> /\ PiecesAt(st, k + 1) = r
            BY <2>2, <3>2, <3>3, <4>2, <5>3
          <5> QED BY <2>3, <5>3, <5>4 DEF r
        <4>3. CASE a # 0
          <5> DEFINE x == w[b + 1]
                     t == SubSeq(w, 1, b)
          <5>1. b # 1 /\ FlattenSeq(SubSeq(E, 1, k)) = t /\ PiecesAt(st, k + 1) = <<x>>
            BY <2>2, <3>2, <3>3, <4>3
          <5>2. t \o <<x>> = Append(t, x)
            <6>1. t \in Seq(Runs(Nat)) /\ x \in Runs(Nat)
              BY <1>1, <4>0, <4>1, ElementOfSeq
            <6> HIDE DEF t, x
            <6> QED BY <6>1
          <5> QED BY <2>3, <4>1, <5>1, <5>2
        <4> QED BY <4>2, <4>3
      <3>5. \A c \in 1..l : P[c] <= k + 1 <=> c <= b
        <4>1. ASSUME NEW c \in 1..l PROVE P[c] <= k + 1 <=> c <= b
          <5>1. P[c] \in Nat /\ (P[c] <= k <=> c <= a) /\ (P[b] < P[c] <=> b < c)
            BY <1>1, <2>2, <3>1
          <5> QED BY <1>1, <3>1, <5>1
        <4> QED BY <4>1
      <3>7. b \in 0..l /\ b # 0
        BY <1>1, <3>1
      <3>6. Upto(k + 1, b)
        BY <3>4, <3>5, <3>7
      <3> HIDE DEF Upto
      <3> QED BY <3>6, <3>7
    <2> QED BY <2>4, <2>5
  <1>5. PICK a \in 0..l : Upto(n, a)
    <2>1. Nat \subseteq T
      <3> HIDE DEF T
      <3> QED BY <1>3, <1>4, SetInduction
    <2>2. n <= n
      OBVIOUS
    <2> HIDE DEF Upto
    <2> QED BY <2>1, <2>2
  <1>6. CASE st.merged = 1..n
    <2>1. l = 0
      <3>1. ASSUME l # 0 PROVE FALSE
        <4>1. 1 \in 1..l
          BY <1>1, <3>1
        <4> QED BY <1>1, <1>6, <4>1
      <3> QED BY <3>1
    <2> DEFINE x == w[1]
    <2>2. x \in Runs(Nat) /\ w = <<x>>
      <3>1. Len(w) = 1
        BY <1>1, <2>1
      <3> QED BY <1>1, <3>1, ShortSeqs
    <2>3. x \in Seq(Nat)
      BY <2>2 DEF Runs
    <2> HIDE DEF x
    <2>4. FlattenSeq(<<x>>) = x
      BY <2>3, FlattenOfOne
    <2>5. word = x
      BY <2>2, <2>4
    <2> QED BY <1>6, <2>2, <2>5 DEF PiecesFrom
  <1>7. CASE st.merged # 1..n
    <2>1. SubSeq(E, 1, n) = E
      BY <1>2, SubSeqFull
    <2>2. l # 0
      <3>1. PICK k \in 1..n : k \notin st.merged
        BY <1>7 DEF Cut
      <3> QED BY <1>1, <3>1
    <2>3. a = l
      <3>1. l \in 1..l /\ P[l] <= n
        BY <1>1, <2>2
      <3>2. l <= a
        BY <1>5, <3>1
      <3> QED BY <1>1, <3>2
    <2>4. FlattenSeq(E) = SubSeq(w, 1, Len(w))
      BY <1>1, <1>5, <2>1, <2>2, <2>3
    <2>5. SubSeq(w, 1, Len(w)) = w
      BY <1>1, SubSeqFull
    <2> QED BY <1>7, <2>4, <2>5 DEF PiecesFrom, E
  <1> QED BY <1>6, <1>7

-----------------------------------------------------------------------------
(* Bpe merges what the rounds join.                                           *)

FirstOf(word) ==
  [merged |-> {}, pairs |-> [l \in 1..(Len(word) - 1) |-> <<<<word[l]>>, <<word[l + 1]>>>>]]

IsBpeRounds(R, word) ==
  R = [k \in 0..(Len(word) - 1) |-> IF k = 0 THEN FirstOf(word) ELSE MergeOne(R[k - 1])]

BpeRounds(word) == CHOOSE R : IsBpeRounds(R, word)

LEMMA BpeUnfolds ==
  ASSUME NEW word
  PROVE  Bpe(word) = PiecesFrom(BpeRounds(word)[Len(word) - 1], word, Len(word) - 1)
  BY Zenon DEF Bpe, PiecesFrom, PiecesAt, BpeRounds, IsBpeRounds, FirstOf

Boundaries(n) ==
  {st \in [merged : SUBSET (1..n), pairs : [1..n -> Seq(Nat) \X Seq(Nat)]] :
     \E P : \E w : Cut(st, P, w, n)}

LEMMA FirstIsCut ==
  ASSUME NEW word \in Runs(Nat)
  PROVE  /\ Len(word) - 1 \in Nat /\ FirstOf(word) \in Boundaries(Len(word) - 1)
         /\ \E P : Cut(FirstOf(word), P, Singles(word), Len(word) - 1)
  <1> DEFINE n == Len(word) - 1
             P == [a \in 1..n |-> a]
             st == FirstOf(word)
             w == Singles(word)
  <1>1. word \in Seq(Nat) /\ n \in Nat /\ Len(word) = n + 1
    <2>1. word \in Seq(Nat) /\ word # <<>>
      BY DEF Runs
    <2>2. Len(word) # 0
      BY <2>1, EmptySeq
    <2> QED BY <2>1, <2>2
  <1>2. w \in Seq(Runs(Nat)) /\ Len(w) = n + 1 /\ \A a \in 1..(n + 1) : w[a] = <<word[a]>>
    BY <1>1, SinglesFacts DEF Singles
  <1>3. st.merged = {} /\ st.pairs = [l \in 1..n |-> <<<<word[l]>>, <<word[l + 1]>>>>]
        /\ st = [merged |-> st.merged, pairs |-> st.pairs]
    BY DEF FirstOf
  <1> HIDE DEF n, w, st
  <1>4. P \in Seq(Nat) /\ Len(P) = n /\ \A a \in 1..n : P[a] = a
    BY <1>1
  <1> HIDE DEF P
  <1>5. \A a \in 1..n : st.pairs[a] = PairAt(w, a)
    <2>1. ASSUME NEW a \in 1..n PROVE st.pairs[a] = PairAt(w, a)
      <3>1. a \in 1..(n + 1) /\ a + 1 \in 1..(n + 1)
        BY <1>1
      <3> QED BY <1>2, <1>3, <3>1 DEF PairAt
    <2> QED BY <2>1
  <1>6. Cut(st, P, w, n)
    <2>1. st.merged \subseteq 1..n /\ DOMAIN st.pairs = 1..n
      BY <1>3
    <2>2. \A a, b \in 1..Len(P) : a < b => P[a] < P[b]
      BY <1>4
    <2>3. \A a \in 1..Len(P) : P[a] \in (1..n) \ st.merged
      BY <1>3, <1>4
    <2>4. \A k \in (1..n) \ st.merged : \E a \in 1..Len(P) : P[a] = k
      BY <1>4
    <2>5. \A a \in 1..Len(P) : st.pairs[P[a]] = PairAt(w, a)
      BY <1>4, <1>5
    <2>6. Len(w) = Len(P) + 1
      BY <1>2, <1>4
    <2> QED BY <1>2, <1>4, <2>1, <2>2, <2>3, <2>4, <2>5, <2>6 DEF Cut
  <1>7. st \in [merged : SUBSET (1..n), pairs : [1..n -> Seq(Nat) \X Seq(Nat)]]
    <2>1. ASSUME NEW l \in 1..n PROVE <<<<word[l]>>, <<word[l + 1]>>>> \in Seq(Nat) \X Seq(Nat)
      <3>1. l \in 1..Len(word) /\ l + 1 \in 1..Len(word)
        BY <1>1
      <3>2. word[l] \in Nat /\ word[l + 1] \in Nat
        BY <1>1, <3>1, ElementOfSeq
      <3> DEFINE x == word[l]
                 y == word[l + 1]
      <3>3. x \in Nat /\ y \in Nat
        BY <3>2
      <3> HIDE DEF x, y
      <3>4. <<x>> \in Seq(Nat) /\ <<y>> \in Seq(Nat)
        BY <3>3
      <3> QED BY <3>4 DEF x, y
    <2>2. st.pairs \in [1..n -> Seq(Nat) \X Seq(Nat)]
      BY <1>3, <2>1
    <2>3. st.merged \in SUBSET (1..n)
      BY <1>3
    <2> QED BY <1>3, <2>2, <2>3
  <1> QED BY <1>1, <1>6, <1>7 DEF Boundaries, st, w, n

LEMMA MergeOneType ==
  ASSUME RulesOK, NEW n \in Nat, NEW st \in Boundaries(n)
  PROVE  MergeOne(st) \in Boundaries(n)
  <1> DEFINE Pieces2 == Seq(Nat) \X Seq(Nat)
             B == [merged : SUBSET (1..n), pairs : [1..n -> Pieces2]]
  <1>1. st \in B
    BY DEF Boundaries
  <1>2. PICK P, w : Cut(st, P, w, n)
    BY DEF Boundaries
  <1>3. \E Q : Cut(MergeOne(st), Q, Joining(w), n)
    BY <1>2, CutStep
  <1>4. MergeOne(st) \in B
    <2>1. CASE RankedLive(st) = {}
      BY <1>1, <2>1, MergeIs
    <2>2. CASE RankedLive(st) # {}
      <3>1. Ranked(w) # {}
        BY <1>2, <2>2, CutRanked
      <3> DEFINE k == P[NextAt(w)]
      <3>2. MergeOne(st) = Told(st, k)
        BY <1>2, <2>2, <3>1, MergeIs, CutChosen
      <3>3. k \in 1..n
        <4>1. Len(w) \in Nat
          BY <1>2, CutFacts
        <4>2. NextAt(w) \in Ranked(w) /\ Ranked(w) \subseteq 1..Len(P)
          BY <1>2, <3>1, <4>1, NextIs, CutRanked DEF IsNext
        <4>3. \A a \in 1..Len(P) : P[a] \in 1..n
          BY <1>2 DEF Cut
        <4> QED BY <4>2, <4>3
      <3> HIDE DEF k
      <3>4. /\ st.pairs \in [1..n -> Pieces2] /\ st.merged \in SUBSET (1..n)
            /\ \A l \in 1..n : st.pairs[l][1] \in Seq(Nat) /\ st.pairs[l][2] \in Seq(Nat)
        BY <1>1
      <3>5. st.pairs[k][1] \o st.pairs[k][2] \in Seq(Nat)
        BY <3>3, <3>4, ConcatProperties
      <3>6. /\ Told(st, k).merged = st.merged \cup {k}
            /\ Told(st, k).pairs = [l \in 1..n |->
                 <<IF l \in RightOf(st, k) THEN st.pairs[k][1] \o st.pairs[k][2] ELSE st.pairs[l][1],
                   IF l \in LeftOf(st, k) THEN st.pairs[k][1] \o st.pairs[k][2] ELSE st.pairs[l][2]>>]
            /\ Told(st, k) = [merged |-> Told(st, k).merged, pairs |-> Told(st, k).pairs]
        BY <3>4 DEF Told
      <3>7. Told(st, k).pairs \in [1..n -> Pieces2]
        <4> DEFINE into == st.pairs[k][1] \o st.pairs[k][2]
                   g(l) == <<IF l \in RightOf(st, k) THEN into ELSE st.pairs[l][1],
                             IF l \in LeftOf(st, k) THEN into ELSE st.pairs[l][2]>>
        <4>1. \A l \in 1..n : g(l) \in Pieces2
          <5>1. into \in Seq(Nat)
            BY <3>5
          <5> HIDE DEF into
          <5>2. ASSUME NEW l \in 1..n PROVE g(l) \in Pieces2
            <6> DEFINE x == st.pairs[l][1]
                       y == st.pairs[l][2]
            <6>1. x \in Seq(Nat) /\ y \in Seq(Nat)
              BY <3>4
            <6> HIDE DEF x, y
            <6>2. g(l) = <<IF l \in RightOf(st, k) THEN into ELSE x, IF l \in LeftOf(st, k) THEN into ELSE y>>
              BY DEF x, y
            <6> QED BY <5>1, <6>1, <6>2
          <5> QED BY <5>2
        <4>2. Told(st, k).pairs = [l \in 1..n |-> g(l)]
          BY <3>6
        <4> HIDE DEF g, Pieces2
        <4> QED BY <4>1, <4>2
      <3>8. Told(st, k).merged \in SUBSET (1..n)
        BY <3>3, <3>4, <3>6
      <3> HIDE DEF Pieces2
      <3>9. Told(st, k) \in B
        BY <3>6, <3>7, <3>8
      <3> QED BY <3>2, <3>9
    <2> QED BY <2>1, <2>2
  <1> QED BY <1>3, <1>4 DEF Boundaries

LEMMA BpeRoundsAre ==
  ASSUME RulesOK, NEW word \in Runs(Nat), NEW F, IsRounds(F, word)
  PROVE  \E P : Cut(BpeRounds(word)[Len(word) - 1], P, F[Len(word) - 1], Len(word) - 1)
  <1> DEFINE n == Len(word) - 1
             R == BpeRounds(word)
             step == [st \in Boundaries(n) |-> MergeOne(st)]
  <1>1. n \in Nat /\ FirstOf(word) \in Boundaries(n) /\ \E P : Cut(FirstOf(word), P, Singles(word), n)
    BY FirstIsCut
  <1>2. step \in [Boundaries(n) -> Boundaries(n)]
    BY <1>1, MergeOneType
  <1>3. IsBpeRounds(R, word)
    <2> HIDE DEF step, n
    <2>1. PICK G \in [0..n -> Boundaries(n)] : Iterated(G, FirstOf(word), step, n)
      BY <1>1, <1>2, UpRecursion
    <2>2. ASSUME NEW k \in 0..n
          PROVE  G[k] = IF k = 0 THEN FirstOf(word) ELSE MergeOne(G[k - 1])
      <3>1. G[k] = IF k = 0 THEN FirstOf(word) ELSE step[G[k - 1]]
        BY <2>1, Zenon DEF Iterated
      <3>2. k # 0 => G[k - 1] \in Boundaries(n)
        BY <1>1
      <3> QED BY <3>1, <3>2 DEF step
    <2>3. G = [k \in 0..n |-> G[k]]
      OBVIOUS
    <2>4. IsBpeRounds(G, word)
      BY <2>2, <2>3, Zenon DEF IsBpeRounds, n
    <2> QED BY <2>4, Zenon DEF BpeRounds
  <1> HIDE DEF R, step, n
  <1>4. \A k \in 0..n : R[k] = IF k = 0 THEN FirstOf(word) ELSE MergeOne(R[k - 1])
    BY <1>3, Zenon DEF IsBpeRounds, n
  <1>5. F[0] = Singles(word) /\ \A k \in 0..n : k < n => F[k + 1] = Joining(F[k])
    BY RoundsFacts DEF n
  <1> DEFINE T == {k \in Nat : k <= n => \E P : Cut(R[k], P, F[k], n)}
  <1>6. 0 \in T
    <2>1. 0 \in 0..n
      BY <1>1
    <2>2. R[0] = FirstOf(word)
      BY <1>4, <2>1
    <2> QED BY <1>1, <1>5, <2>2
  <1>7. ASSUME NEW k \in Nat, k \in T PROVE k + 1 \in T
    <2> SUFFICES ASSUME k + 1 <= n PROVE \E P : Cut(R[k + 1], P, F[k + 1], n)
      OBVIOUS
    <2>1. k \in 0..n /\ k < n /\ k + 1 \in 0..n /\ k + 1 # 0 /\ (k + 1) - 1 = k /\ k <= n
      BY <1>1
    <2>2. R[k + 1] = MergeOne(R[k])
      BY <1>4, <2>1
    <2>3. F[k + 1] = Joining(F[k])
      BY <1>5, <2>1
    <2>4. PICK P : Cut(R[k], P, F[k], n)
      BY <1>7, <2>1
    <2> QED BY <1>1, <2>2, <2>3, <2>4, CutStep
  <1>8. Nat \subseteq T
    <2> HIDE DEF T
    <2> QED BY <1>6, <1>7, SetInduction
  <1>9. n \in T /\ n <= n
    BY <1>1, <1>8
  <1> QED BY <1>9 DEF n, R

LEMMA BpeIs ==
  ASSUME RulesOK, NEW word \in Runs(Nat), NEW F, IsRounds(F, word)
  PROVE  Bpe(word) = F[Len(word) - 1]
  <1> DEFINE n == Len(word) - 1
             st == BpeRounds(word)[n]
  <1>1. PICK P : Cut(st, P, F[n], n)
    BY BpeRoundsAre
  <1>2. n \in Nat /\ FlattenSeq(F[n]) = word /\ word \in Seq(Nat)
    <2>1. n \in Nat
      BY RoundsFacts
    <2>2. n \in 0..n
      BY <2>1
    <2> QED BY <2>1, <2>2, RoundsFacts DEF Runs
  <1>3. Bpe(word) = PiecesFrom(st, word, n)
    BY BpeUnfolds
  <1> HIDE DEF n, st
  <1>4. PiecesFrom(st, word, n) = F[n]
    BY <1>1, <1>2, PiecesFromIs
  <1> QED BY <1>3, <1>4 DEF n

-----------------------------------------------------------------------------
(* The textbook: the pair it replaces.                                        *)

LEMMA BestPairIs ==
  ASSUME RulesOK, NEW w \in Seq(Runs(Nat))
  PROVE  /\ Ranked(w) = {} => Len(w) < 2 \/ Rank(BestPair(w)) > Rules
         /\ Ranked(w) # {} => /\ Len(w) >= 2 /\ BestPair(w) = PairAt(w, NextAt(w))
                              /\ Rank(BestPair(w)) <= Rules
  <1> DEFINE b == {<<w[k], w[k + 1]>> : k \in 1..(Len(w) - 1)}
             Least(p) == p \in b /\ \A q \in b : Rank(p) <= Rank(q)
  <1>1. Len(w) \in Nat /\ Rules \in Nat /\ \A p : Rank(p) \in Nat
    BY RankIs
  <1>2. BestPair(w) = CHOOSE p \in b : \A q \in b : Rank(p) <= Rank(q)
    BY DEF BestPair
  <1>3. \A k \in 1..(Len(w) - 1) : PairAt(w, k) \in b
    BY DEF PairAt
  <1>4. \A p \in b : \E k \in 1..(Len(w) - 1) : p = PairAt(w, k)
    BY DEF PairAt
  <1>5. ASSUME b # {} PROVE Least(BestPair(w))
    <2> DEFINE T == {Rank(p) : p \in b}
    <2>1. T \subseteq Nat /\ T # {}
      BY <1>1, <1>5
    <2>2. PICK x \in T : \A y \in T : x <= y
      <3> HIDE DEF T
      <3> QED BY <2>1, LeastNat
    <2>3. PICK p \in b : Rank(p) = x
      BY <2>2
    <2>4. \A q \in b : Rank(p) <= Rank(q)
      BY <2>2, <2>3
    <2> HIDE DEF b
    <2> QED BY <1>2, <2>3, <2>4, Zenon
  <1>6. CASE Ranked(w) = {}
    <2>1. ASSUME Len(w) >= 2 PROVE Rank(BestPair(w)) > Rules
      <3>1. 1 \in 1..(Len(w) - 1)
        BY <1>1, <2>1
      <3>2. b # {}
        BY <1>3, <3>1
      <3>3. BestPair(w) \in b
        BY <1>5, <3>2
      <3>4. PICK k \in 1..(Len(w) - 1) : BestPair(w) = PairAt(w, k)
        BY <1>4, <3>3
      <3>5. ~(Rank(PairAt(w, k)) <= Rules)
        BY <1>6 DEF Ranked
      <3> QED BY <1>1, <3>4, <3>5
    <2> QED BY <1>1, <1>6, <2>1
  <1>7. CASE Ranked(w) # {}
    <2> DEFINE j == NextAt(w)
    <2>1. IsNext(w, j)
      BY <1>1, <1>7, NextIs
    <2> HIDE DEF j
    <2>2. j \in 1..(Len(w) - 1) /\ Rank(PairAt(w, j)) <= Rules
      BY <2>1 DEF IsNext, Ranked
    <2>3. Least(BestPair(w))
      BY <1>3, <1>5, <2>2
    <2> DEFINE p == BestPair(w)
    <2>4. Rank(p) <= Rank(PairAt(w, j)) /\ p \in b
      BY <1>3, <2>2, <2>3
    <2>5. PICK k \in 1..(Len(w) - 1) : p = PairAt(w, k)
      BY <1>4, <2>4
    <2> HIDE DEF p, b
    <2>6. Rank(p) <= Rules
      BY <1>1, <2>2, <2>4
    <2>7. k \in Ranked(w)
      BY <2>5, <2>6 DEF Ranked
    <2>8. Rank(PairAt(w, j)) <= Rank(p)
      BY <1>1, <2>1, <2>5, <2>7 DEF IsNext
    <2>9. Rank(p) = Rank(PairAt(w, j))
      BY <1>1, <2>4, <2>8
    <2>10. p = PairAt(w, j)
      BY <2>2, <2>9, RankTells
    <2> QED BY <1>1, <1>7, <2>2, <2>6, <2>10 DEF p, j
  <1> QED BY <1>6, <1>7

\* f gives what Replaced makes of w from each place on.
IsReplacing(f, w, p) ==
  f = [k \in 1..(Len(w) + 1) |->
         IF k > Len(w) THEN <<>>
         ELSE IF k < Len(w) /\ <<w[k], w[k + 1]>> = p
              THEN <<p[1] \o p[2]>> \o f[k + 2]
              ELSE <<w[k]>> \o f[k + 1]]

LEMMA ReplacingExists ==
  ASSUME NEW w \in Seq(Runs(Nat)), NEW p
  PROVE  \E f : Replaced(w, p) = f[1] /\ IsReplacing(f, w, p)
  <1> DEFINE l == Len(w)
             At(k) == k < l /\ <<w[k], w[k + 1]>> = p
             val == [k \in 1..l |-> IF At(k) THEN <<p[1] \o p[2]>> ELSE <<w[k]>>]
             nxt == [k \in 1..l |-> IF At(k) THEN k + 2 ELSE k + 1]
  <1>1. l \in Nat
    OBVIOUS
  <1>2. \A k \in 1..l : nxt[k] \in (k + 1)..(l + 1)
    BY <1>1
  <1>3. \A k \in 1..l : /\ val[k] = IF At(k) THEN <<p[1] \o p[2]>> ELSE <<w[k]>>
                        /\ nxt[k] = IF At(k) THEN k + 2 ELSE k + 1
    OBVIOUS
  <1> HIDE DEF val, nxt, l
  <1>4. PICK f : FromPlace(f, val, nxt, l, 1)
    BY <1>1, <1>2, DownRecursion
  <1> HIDE DEF At
  <1>5. ASSUME NEW k \in 1..(l + 1)
        PROVE  f[k] = IF k > l THEN <<>>
                      ELSE IF At(k) THEN <<p[1] \o p[2]>> \o f[k + 2] ELSE <<w[k]>> \o f[k + 1]
    <2>1. f[k] = IF k > l THEN <<>> ELSE val[k] \o f[nxt[k]]
      BY <1>4, Zenon DEF FromPlace
    <2>2. k > l \/ k \in 1..l
      BY <1>1
    <2> QED BY <1>3, <2>1, <2>2
  <1>6. f = [k \in 1..(l + 1) |-> f[k]]
    BY <1>4, Zenon DEF FromPlace
  <1>7. IsReplacing(f, w, p)
    BY <1>5, <1>6, Zenon DEF IsReplacing, l, At
  <1>8. Replaced(w, p) = (CHOOSE g : IsReplacing(g, w, p))[1]
    BY Zenon DEF Replaced, IsReplacing
  <1>9. IsReplacing(CHOOSE g : IsReplacing(g, w, p), w, p)
    BY <1>7, Zenon
  <1> QED BY <1>8, <1>9, Zenon

-----------------------------------------------------------------------------
(* What is left to read while the occurrences are joined one by one.           *)

\* v has A, and then what w has from k on.
Reads(v, A, w, k) ==
  /\ Len(v) = Len(A) + (Len(w) - k + 1)
  /\ \A l \in 1..Len(A) : v[l] = A[l]
  /\ \A l \in k..Len(w) : v[Len(A) + (l - k + 1)] = w[l]

LEMMA ReadsOn ==
  ASSUME NEW w \in Seq(Runs(Nat)), NEW v \in Seq(Runs(Nat)), NEW A \in Seq(Runs(Nat)),
         NEW k \in 1..Len(w), Reads(v, A, w, k)
  PROVE  /\ Append(A, w[k]) \in Seq(Runs(Nat)) /\ Len(Append(A, w[k])) = Len(A) + 1
         /\ Reads(v, Append(A, w[k]), w, k + 1)
  <1> DEFINE x == w[k]
             B == Append(A, x)
             a == Len(A)
             n == Len(w)
  <1>1. x \in Runs(Nat) /\ a \in Nat /\ n \in Nat /\ k \in 1..n
    BY ElementOfSeq
  <1>2. /\ Len(v) = a + (n - k + 1)
        /\ \A l \in 1..a : v[l] = A[l]
        /\ \A l \in k..n : v[a + (l - k + 1)] = w[l]
    BY DEF Reads
  <1> HIDE DEF x, n
  <1>3. /\ B \in Seq(Runs(Nat)) /\ Len(B) = a + 1
        /\ \A l \in 1..a : B[l] = A[l]
        /\ B[a + 1] = x
    BY <1>1
  <1> HIDE DEF B, a
  <1>4. v[a + 1] = x
    <2>1. k \in k..n /\ a + (k - k + 1) = a + 1
      BY <1>1
    <2>2. v[a + (k - k + 1)] = w[k]
      BY <1>2, <2>1
    <2> QED BY <2>1, <2>2 DEF x
  <1>5. \A l \in 1..(a + 1) : v[l] = B[l]
    <2>1. \A l \in 1..(a + 1) : l \in 1..a \/ l = a + 1
      BY <1>1
    <2> QED BY <1>2, <1>3, <1>4, <2>1
  <1>6. ASSUME NEW l \in (k + 1)..n PROVE v[(a + 1) + (l - (k + 1) + 1)] = w[l]
    <2>1. l \in k..n /\ (a + 1) + (l - (k + 1) + 1) = a + (l - k + 1)
      BY <1>1
    <2>2. v[a + (l - k + 1)] = w[l]
      BY <1>2, <2>1
    <2> QED BY <2>1, <2>2
  <1>7. Len(v) = (a + 1) + (n - (k + 1) + 1)
    <2>1. a + (n - k + 1) = (a + 1) + (n - (k + 1) + 1)
      BY <1>1
    <2> QED BY <1>2, <2>1
  <1> QED BY <1>3, <1>5, <1>6, <1>7 DEF Reads, B, x, n, a

LEMMA ReadsJoined ==
  ASSUME NEW w \in Seq(Runs(Nat)), NEW v \in Seq(Runs(Nat)), NEW A \in Seq(Runs(Nat)),
         NEW k \in 1..(Len(w) - 1), Reads(v, A, w, k)
  PROVE  /\ Len(A) + 1 \in 1..(Len(v) - 1) /\ PairAt(v, Len(A) + 1) = PairAt(w, k)
         /\ Append(A, w[k] \o w[k + 1]) \in Seq(Runs(Nat))
         /\ Len(Append(A, w[k] \o w[k + 1])) = Len(A) + 1
         /\ Reads(JoinedAt(v, Len(A) + 1), Append(A, w[k] \o w[k + 1]), w, k + 2)
  <1> DEFINE x == w[k] \o w[k + 1]
             B == Append(A, x)
             a == Len(A)
             n == Len(w)
             u == JoinedAt(v, a + 1)
  <1>1. a \in Nat /\ n \in Nat /\ k \in 1..(n - 1)
    OBVIOUS
  <1>2. /\ Len(v) = a + (n - k + 1)
        /\ \A l \in 1..a : v[l] = A[l]
        /\ \A l \in k..n : v[a + (l - k + 1)] = w[l]
    BY DEF Reads
  <1>3. a + 1 \in 1..(Len(v) - 1)
    <2> HIDE DEF a, n
    <2> QED BY <1>1, <1>2
  <1>4. v[a + 1] = w[k] /\ v[(a + 1) + 1] = w[k + 1]
    <2> HIDE DEF a, n
    <2>1. k \in k..n /\ k + 1 \in k..n /\ a + (k - k + 1) = a + 1 /\ a + ((k + 1) - k + 1) = (a + 1) + 1
      BY <1>1
    <2>2. v[a + (k - k + 1)] = w[k] /\ v[a + ((k + 1) - k + 1)] = w[k + 1]
      BY <1>2, <2>1
    <2> QED BY <2>1, <2>2
  <1>5. /\ u \in Seq(Runs(Nat)) /\ Len(u) = Len(v) - 1
        /\ \A l \in 1..(Len(v) - 1) :
             u[l] = IF l < a + 1 THEN v[l] ELSE IF l = a + 1 THEN x ELSE v[l + 1]
    <2> DEFINE j == a + 1
    <2>1. j \in 1..(Len(v) - 1)
      BY <1>3
    <2> HIDE DEF j
    <2>2. /\ JoinedAt(v, j) \in Seq(Runs(Nat)) /\ Len(JoinedAt(v, j)) = Len(v) - 1
          /\ \A l \in 1..(Len(v) - 1) : JoinedAt(v, j)[l] =
               IF l < j THEN v[l] ELSE IF l = j THEN v[j] \o v[j + 1] ELSE v[l + 1]
      BY <2>1, JoinedAtFacts
    <2>3. v[j] \o v[j + 1] = x
      BY <1>4 DEF j
    <2> HIDE DEF x, a
    <2> QED BY <2>2, <2>3 DEF j
  <1>6. x \in Runs(Nat)
    <2>1. u[a + 1] = x
      <3> HIDE DEF u, x, a
      <3> QED BY <1>3, <1>5, <1>1
    <2>2. u[a + 1] \in Runs(Nat)
      <3> HIDE DEF u, x, a
      <3> QED BY <1>3, <1>5, ElementOfSeq
    <2> QED BY <2>1, <2>2
  <1> HIDE DEF x, n, u
  <1>7. /\ B \in Seq(Runs(Nat)) /\ Len(B) = a + 1
        /\ \A l \in 1..a : B[l] = A[l]
        /\ B[a + 1] = x
    BY <1>6
  <1> HIDE DEF B, a
  <1>8. ASSUME NEW l \in 1..(a + 1) PROVE u[l] = B[l]
    <2>1. l \in 1..(Len(v) - 1)
      BY <1>1, <1>3
    <2>2. CASE l \in 1..a
      BY <1>1, <1>2, <1>5, <1>7, <2>1, <2>2
    <2>3. CASE l = a + 1
      BY <1>1, <1>5, <1>7, <2>1, <2>3
    <2> QED BY <1>1, <2>2, <2>3
  <1>9. ASSUME NEW l \in (k + 2)..n PROVE u[(a + 1) + (l - (k + 2) + 1)] = w[l]
    <2> DEFINE m == (a + 1) + (l - (k + 2) + 1)
    <2>1. m \in 1..(Len(v) - 1) /\ ~(m < a + 1) /\ m # a + 1 /\ m + 1 = a + (l - k + 1) /\ l \in k..n
      BY <1>1, <1>2
    <2> HIDE DEF m
    <2>2. u[m] = v[m + 1]
      BY <1>5, <2>1
    <2>3. v[a + (l - k + 1)] = w[l]
      BY <1>2, <2>1
    <2> QED BY <2>1, <2>2, <2>3 DEF m
  <1>10. Len(u) = (a + 1) + (n - (k + 2) + 1)
    BY <1>1, <1>2, <1>5
  <1>11. Reads(u, B, w, k + 2)
    BY <1>7, <1>8, <1>9, <1>10 DEF Reads, n
  <1>12. PairAt(v, a + 1) = PairAt(w, k)
    BY <1>4 DEF PairAt
  <1> QED BY <1>3, <1>7, <1>11, <1>12 DEF B, x, a, u

LEMMA ReadsEnds ==
  ASSUME NEW w \in Seq(Runs(Nat)), NEW v \in Seq(Runs(Nat)), NEW A \in Seq(Runs(Nat))
  PROVE  /\ Reads(v, A, w, Len(w) + 1) => v = A
         /\ Reads(w, <<>>, w, 1)
  <1>1. ASSUME Reads(v, A, w, Len(w) + 1) PROVE v = A
    <2>1. Len(v) = Len(A) + (Len(w) - (Len(w) + 1) + 1) /\ \A l \in 1..Len(A) : v[l] = A[l]
      BY <1>1 DEF Reads
    <2>2. Len(v) = Len(A)
      BY <2>1
    <2> QED BY <2>1, <2>2, SeqEqual
  <1>2. Reads(w, <<>>, w, 1)
    <2>1. Len(<<>>) = 0 /\ Len(w) \in Nat
      OBVIOUS
    <2>2. ASSUME NEW l \in 1..Len(w) PROVE w[0 + (l - 1 + 1)] = w[l]
      <3>1. 0 + (l - 1 + 1) = l
        BY <2>1
      <3> QED BY <3>1
    <2>3. Len(w) = 0 + (Len(w) - 1 + 1) /\ 1..0 = {}
      BY <2>1
    <2> QED BY <2>1, <2>2, <2>3 DEF Reads
  <1> QED BY <1>1, <1>2

-----------------------------------------------------------------------------
(* The occurrences of the pair are the next ones to be joined, from the left.  *)

\* No pair of v has a lesser rank than r, and up to the place a none has it.
Above(v, a, r) ==
  \A l \in 1..(Len(v) - 1) : Rank(PairAt(v, l)) >= r /\ (l <= a => Rank(PairAt(v, l)) > r)

LEMMA AboveOn ==
  ASSUME RulesOK, NEW w \in Seq(Runs(Nat)), NEW v \in Seq(Runs(Nat)), NEW A \in Seq(Runs(Nat)),
         NEW k \in 1..Len(w), Reads(v, A, w, k), NEW p, Rank(p) <= Rules,
         Above(v, Len(A), Rank(p)), k < Len(w) => PairAt(w, k) # p
  PROVE  Above(v, Len(A) + 1, Rank(p))
  <1>1. Len(v) \in Nat /\ Len(A) \in Nat /\ Rank(p) \in Nat /\ \A q : Rank(q) \in Nat
    BY RankIs
  <1>2. ASSUME NEW l \in 1..(Len(v) - 1), l = Len(A) + 1 PROVE Rank(PairAt(v, l)) > Rank(p)
    <2>1. Rank(PairAt(v, l)) >= Rank(p)
      BY DEF Above
    <2>2. Len(v) = Len(A) + (Len(w) - k + 1)
      BY DEF Reads
    <2>3. k < Len(w) /\ k \in 1..(Len(w) - 1)
      BY <1>1, <1>2, <2>2
    <2>4. PairAt(v, Len(A) + 1) = PairAt(w, k)
      BY <2>3, ReadsJoined
    <2>5. PairAt(v, l) # p
      BY <1>2, <2>3, <2>4
    <2>6. Rank(PairAt(v, l)) # Rank(p)
      BY <2>5, RankTells
    <2> QED BY <1>1, <2>1, <2>6
  <1>3. ASSUME NEW l \in 1..(Len(v) - 1), l <= Len(A) + 1
        PROVE  Rank(PairAt(v, l)) > Rank(p)
    <2>1. l <= Len(A) \/ l = Len(A) + 1
      BY <1>1, <1>3
    <2> QED BY <1>2, <2>1 DEF Above
  <1> QED BY <1>3 DEF Above

LEMMA AboveJoined ==
  ASSUME RulesOK, NEW w \in Seq(Runs(Nat)), NEW v \in Seq(Runs(Nat)), NEW A \in Seq(Runs(Nat)),
         NEW k \in 1..(Len(w) - 1), Reads(v, A, w, k), NEW p, Rank(p) <= Rules,
         Above(v, Len(A), Rank(p)), PairAt(w, k) = p
  PROVE  /\ IsNext(v, Len(A) + 1)
         /\ Above(JoinedAt(v, Len(A) + 1), Len(A) + 1, Rank(p))
  <1> DEFINE j == Len(A) + 1
             u == JoinedAt(v, j)
             r == Rank(p)
             n == Len(v)
  <1>1. j \in 1..(n - 1) /\ PairAt(v, j) = p /\ n \in Nat /\ j \in Nat /\ Len(A) = j - 1
    BY ReadsJoined
  <1>2. \A l \in 1..(n - 1) : Rank(PairAt(v, l)) >= r /\ (l < j => Rank(PairAt(v, l)) > r)
    BY <1>1 DEF Above
  <1>3. r \in Nat /\ \A q : Rank(q) \in Nat
    BY RankIs
  <1>4. IsNext(v, j)
    <2>1. j \in Ranked(v)
      BY <1>1 DEF Ranked
    <2>2. ASSUME NEW l \in Ranked(v)
          PROVE  \/ Rank(PairAt(v, j)) < Rank(PairAt(v, l))
                 \/ Rank(PairAt(v, j)) = Rank(PairAt(v, l)) /\ j <= l
      <3>1. l \in 1..(n - 1)
        BY DEF Ranked
      <3>2. Rank(PairAt(v, l)) >= r /\ (l < j => Rank(PairAt(v, l)) > r) /\ Rank(PairAt(v, l)) \in Nat
        BY <1>2, <1>3, <3>1
      <3> HIDE DEF j
      <3> QED BY <1>1, <1>3, <3>1, <3>2
    <2> QED BY <2>1, <2>2 DEF IsNext
  <1> HIDE DEF j, n
  <1>5. /\ Len(u) = n - 1
        /\ \A l \in 1..(n - 1) :
             u[l] = IF l < j THEN v[l] ELSE IF l = j THEN v[j] \o v[j + 1] ELSE v[l + 1]
    BY <1>1, JoinedAtFacts DEF n
  <1>6. v[j] \o v[j + 1] = p[1] \o p[2]
    <2> DEFINE x == v[j]
               y == v[j + 1]
    <2>1. p = <<x, y>>
      BY <1>1 DEF PairAt
    <2> HIDE DEF x, y
    <2>2. p[1] = x /\ p[2] = y
      BY <2>1
    <2> QED BY <2>2 DEF x, y
  <1> DEFINE into == p[1] \o p[2]
  <1> HIDE DEF u, r
  <1>7. ASSUME NEW l \in 1..(Len(u) - 1)
        PROVE  Rank(PairAt(u, l)) >= r /\ (l <= j => Rank(PairAt(u, l)) > r)
    <2>1. l \in 1..(n - 1) /\ l + 1 \in 1..(n - 1) /\ l \in Nat
      BY <1>1, <1>5
    <2>2. PairAt(u, l) = <<u[l], u[l + 1]>>
      BY DEF PairAt
    <2>3. CASE l + 1 < j
      <3>1. u[l] = v[l] /\ u[l + 1] = v[l + 1] /\ l < j
        BY <1>1, <1>5, <2>1, <2>3
      <3>2. PairAt(u, l) = PairAt(v, l)
        BY <3>1 DEF PairAt
      <3> QED BY <1>2, <1>3, <2>1, <3>1, <3>2
    <2>4. CASE l + 1 = j \/ l = j
      <3>1. u[l] = into \/ u[l + 1] = into
        <4>1. u[j] = into
          <5> DEFINE x == v[j] \o v[j + 1]
          <5>1. \A l2 \in 1..(n - 1) : u[l2] = IF l2 < j THEN v[l2] ELSE IF l2 = j THEN x ELSE v[l2 + 1]
            BY <1>5
          <5>2. x = into
            BY <1>6
          <5> HIDE DEF x, into
          <5>3. u[j] = x
            BY <1>1, <5>1
          <5> QED BY <5>2, <5>3
        <4> QED BY <2>4, <4>1
      <3> DEFINE q == PairAt(u, l)
      <3>2. q[1] = u[l] /\ q[2] = u[l + 1]
        <4> DEFINE x == u[l]
                   y == u[l + 1]
        <4>1. q = <<x, y>>
          BY <2>2
        <4> HIDE DEF x, y, q
        <4>2. q[1] = x /\ q[2] = y
          BY <4>1
        <4> QED BY <4>2 DEF x, y
      <3> HIDE DEF q
      <3>3. p[1] \o p[2] \in {q[1], q[2]}
        BY <3>1, <3>2
      <3>4. Rank(p) < Rank(q)
        BY <3>3, LaterRules
      <3> QED BY <1>3, <3>4 DEF q, r
    <2>5. CASE l > j
      <3>1. u[l] = v[l + 1] /\ u[l + 1] = v[(l + 1) + 1] /\ ~(l <= j) /\ l + 1 \in 1..(n - 1)
        BY <1>1, <1>5, <2>1, <2>5
      <3>2. PairAt(u, l) = PairAt(v, l + 1)
        BY <3>1 DEF PairAt
      <3> QED BY <1>2, <3>1, <3>2
    <2> QED BY <1>1, <2>1, <2>3, <2>4, <2>5
  <1> QED BY <1>4, <1>7 DEF Above, u, r, j

\* A round of the textbook is some rounds of bpe.
LEMMA ReplacedIs ==
  ASSUME RulesOK, NEW word \in Runs(Nat), NEW F, IsRounds(F, word),
         NEW m \in 0..(Len(word) - 1), Ranked(F[m]) # {}
  PROVE  \E h \in (m + 1)..(Len(word) - 1) : F[h] = Replaced(F[m], BestPair(F[m]))
  <1> DEFINE n == Len(word) - 1
             w == F[m]
             p == BestPair(w)
             r == Rank(p)
             L == Len(w)
             X == Seq(Runs(Nat))
  <1>1. /\ n \in Nat /\ Ranked(F[n]) = {}
        /\ \A h \in 0..n : F[h] \in X /\ (h < n => F[h + 1] = Joining(F[h]))
    BY RoundsFacts, ZenonT(60)
  <1>2. w \in X /\ L \in Nat
    BY <1>1
  <1>3. L >= 2 /\ p = PairAt(w, NextAt(w)) /\ r <= Rules /\ NextAt(w) \in 1..(L - 1) /\ IsNext(w, NextAt(w))
    BY <1>2, BestPairIs, NextIs, JoiningFacts
  <1>4. PICK f : Replaced(w, p) = f[1] /\ IsReplacing(f, w, p)
    BY <1>2, ReplacingExists
  <1>5. r \in Nat /\ Rules \in Nat /\ \A q : Rank(q) \in Nat
    BY RankIs
  <1> HIDE DEF n, w, p
  <1>6. \A k \in 1..(L + 1) :
          f[k] = IF k > L THEN <<>>
                 ELSE IF k < L /\ PairAt(w, k) = p THEN <<p[1] \o p[2]>> \o f[k + 2]
                 ELSE <<w[k]>> \o f[k + 1]
    BY <1>4, Zenon DEF IsReplacing, PairAt
  \* from the place k on, for what is read so far
  <1> DEFINE Good(k, A, g) == /\ Reads(F[g], A, w, k) /\ Above(F[g], Len(A), r)
             Done(k, A, g) == \E h \in g..n : /\ F[h] = A \o f[k]
                                              /\ h = g => \A l \in k..(L - 1) : PairAt(w, l) # p
             T == {k \in 1..(L + 1) : f[k] \in X /\ \A A \in X : \A g \in 0..n : Good(k, A, g) => Done(k, A, g)}
  <1>7. ASSUME NEW k \in 1..(L + 1), \A q \in (k + 1)..(L + 1) : q \in T PROVE k \in T
    <2>0. k \in Nat /\ L \in Nat
      BY <1>2
    <2>4. f[k] = IF k > L THEN <<>>
                 ELSE IF k < L /\ PairAt(w, k) = p THEN <<p[1] \o p[2]>> \o f[k + 2]
                 ELSE <<w[k]>> \o f[k + 1]
      BY <1>6, Zenon
    <2>1. CASE k = L + 1
      <3>1. f[k] = <<>>
        <4>1. k > L
          BY <2>0, <2>1
        <4> QED BY <2>4, <4>1, Zenon
      <3>2. ASSUME NEW A \in X, NEW g \in 0..n, Good(k, A, g) PROVE Done(k, A, g)
        <4>1. F[g] = A
          BY <1>1, <1>2, <2>1, <3>2, ReadsEnds
        <4>2. A \o f[k] = A
          BY <3>1, ConcatEmptySeq
        <4>3. g \in g..n
          BY <1>1
        <4>4. \A l \in k..(L - 1) : PairAt(w, l) # p
          BY <1>2, <2>1
        <4> QED BY <4>1, <4>2, <4>3, <4>4
      <3>3. f[k] \in X
        BY <3>1
      <3> HIDE DEF Good, Done
      <3> QED BY <3>2, <3>3
    <2>2. CASE k < L /\ PairAt(w, k) = p
      <3> DEFINE into == p[1] \o p[2]
      <3>1. f[k] = <<into>> \o f[k + 2]
        <4>1. ~(k > L)
          BY <2>0, <2>2
        <4> QED BY <2>2, <2>4, <4>1, Zenon
      <3>2. k \in 1..(L - 1) /\ k + 2 \in (k + 1)..(L + 1)
        BY <2>0, <2>2
      <3>3. k + 2 \in T
        BY <1>7, <3>2
      <3>4. w[k] \o w[k + 1] = into
        <4> DEFINE x == w[k]
                   y == w[k + 1]
        <4>1. p = <<x, y>>
          BY <2>2 DEF PairAt
        <4> HIDE DEF x, y
        <4>2. p[1] = x /\ p[2] = y
          BY <4>1
        <4> QED BY <4>2 DEF x, y
      <3>5. into \in Runs(Nat)
        <4>1. k \in 1..L /\ k + 1 \in 1..L
          BY <3>2, <2>0
        <4> DEFINE x == w[k]
                   y == w[k + 1]
        <4>2. x \in Runs(Nat) /\ y \in Runs(Nat)
          BY <1>2, <4>1, ElementOfSeq
        <4> HIDE DEF x, y
        <4>3. x \o y \in Runs(Nat)
          <5>1. x \in Seq(Nat) /\ y \in Seq(Nat) /\ x # <<>>
            BY <4>2 DEF Runs
          <5>2. x \o y \in Seq(Nat) /\ x \o y # <<>>
            BY <5>1, ConcatProperties, ConcatEqualIffEmpty
          <5> QED BY <5>2 DEF Runs
        <4> QED BY <3>4, <4>3 DEF x, y
      <3> HIDE DEF into
      <3>6. ASSUME NEW A \in X, NEW g \in 0..n, Good(k, A, g) PROVE Done(k, A, g)
        <4> DEFINE B == Append(A, into)
                   j == Len(A) + 1
        <4>1. F[g] \in X /\ Reads(F[g], A, w, k) /\ Above(F[g], Len(A), r)
          BY <1>1, <3>6
        <4>2. IsNext(F[g], j) /\ Above(JoinedAt(F[g], j), j, r)
          BY <1>2, <1>3, <2>2, <3>2, <4>1, AboveJoined
        <4>3. B \in X /\ Len(B) = j /\ Reads(JoinedAt(F[g], j), B, w, k + 2)
          BY <1>2, <3>2, <3>4, <4>1, ReadsJoined, ZenonT(60)
        <4>4. Ranked(F[g]) # {} /\ NextAt(F[g]) = j
          <5>1. Len(F[g]) \in Nat
            BY <4>1
          <5>2. j \in Ranked(F[g])
            BY <4>2 DEF IsNext
          <5> QED BY <4>2, <5>1, <5>2, NextIs
        <4>5. g < n /\ g + 1 \in 0..n
          <5>1. g # n
            BY <1>1, <4>4
          <5> QED BY <1>1, <5>1
        <4>6. F[g + 1] = JoinedAt(F[g], j)
          BY <1>1, <4>4, <4>5 DEF Joining
        <4>7. Good(k + 2, B, g + 1)
          BY <4>2, <4>3, <4>6
        <4> HIDE DEF Good, B
        <4>8. Done(k + 2, B, g + 1)
          BY <3>3, <4>3, <4>5, <4>7
        <4>9. PICK h \in (g + 1)..n : F[h] = B \o f[k + 2]
          BY <4>8
        <4>10. B \o f[k + 2] = A \o f[k]
          <5> DEFINE s == f[k + 2]
                     R == Runs(Nat)
          <5>1. s \in Seq(R) /\ A \in Seq(R) /\ into \in R
            BY <3>3, <3>5
          <5> HIDE DEF s, R
          <5>2. B = A \o <<into>> /\ <<into>> \in Seq(R)
            BY <5>1 DEF B
          <5>3. (A \o <<into>>) \o s = A \o (<<into>> \o s)
            BY <5>1, <5>2, ConcatAssociative, SMTT(30)
          <5> QED BY <3>1, <5>2, <5>3 DEF s
        <4>11. h \in g..n /\ h # g
          BY <1>1, <4>5
        <4> QED BY <4>9, <4>10, <4>11
      <3>7. f[k] \in X
        <4> DEFINE s == f[k + 2]
                   R == Runs(Nat)
        <4>1. s \in Seq(R) /\ into \in R
          BY <3>3, <3>5
        <4> HIDE DEF s, R
        <4>2. <<into>> \o s \in Seq(R)
          BY <4>1
        <4> QED BY <3>1, <4>2 DEF s, R
      <3> HIDE DEF Good, Done
      <3> QED BY <3>6, <3>7
    <2>3. CASE k <= L /\ ~(k < L /\ PairAt(w, k) = p)
      <3> DEFINE x == w[k]
      <3>1. f[k] = <<x>> \o f[k + 1]
        <4>1. ~(k > L)
          BY <2>0, <2>3
        <4> QED BY <2>3, <2>4, <4>1, Zenon
      <3>2. k \in 1..L /\ k + 1 \in (k + 1)..(L + 1)
        BY <2>0, <2>3
      <3>3. k + 1 \in T
        BY <1>7, <3>2
      <3>4. x \in Runs(Nat)
        BY <1>2, <3>2, ElementOfSeq
      <3>5. ASSUME NEW A \in X, NEW g \in 0..n, Good(k, A, g) PROVE Done(k, A, g)
        <4> DEFINE B == Append(A, x)
        <4>1. F[g] \in X /\ Reads(F[g], A, w, k) /\ Above(F[g], Len(A), r)
          BY <1>1, <3>5
        <4>2. B \in X /\ Len(B) = Len(A) + 1 /\ Reads(F[g], B, w, k + 1)
          BY <1>2, <3>2, <4>1, ReadsOn
        <4>3. Above(F[g], Len(A) + 1, r)
          BY <1>2, <1>3, <2>3, <3>2, <4>1, AboveOn
        <4>4. Good(k + 1, B, g)
          BY <4>2, <4>3
        <4> HIDE DEF Good, B
        <4>5. Done(k + 1, B, g)
          BY <3>3, <4>2, <4>4
        <4>6. PICK h \in g..n : /\ F[h] = B \o f[k + 1]
                                /\ h = g => \A l \in (k + 1)..(L - 1) : PairAt(w, l) # p
          BY <4>5
        <4>7. B \o f[k + 1] = A \o f[k]
          <5> DEFINE s == f[k + 1]
                     R == Runs(Nat)
          <5>1. s \in Seq(R) /\ A \in Seq(R) /\ x \in R
            BY <3>3, <3>4
          <5> HIDE DEF s, R, x
          <5>2. B = A \o <<x>> /\ <<x>> \in Seq(R)
            BY <5>1 DEF B
          <5>3. (A \o <<x>>) \o s = A \o (<<x>> \o s)
            BY <5>1, <5>2, ConcatAssociative, SMTT(30)
          <5> QED BY <3>1, <5>2, <5>3 DEF s
        <4>8. ASSUME h = g, NEW l \in k..(L - 1) PROVE PairAt(w, l) # p
          <5>1. CASE l = k
            <6>1. k < L
              BY <2>0, <5>1
            <6> QED BY <2>3, <5>1, <6>1
          <5>2. CASE l # k
            <6>1. l \in (k + 1)..(L - 1)
              BY <2>0, <5>2
            <6> QED BY <4>6, <4>8, <6>1
          <5> QED BY <5>1, <5>2
        <4> QED BY <4>6, <4>7, <4>8
      <3>6. f[k] \in X
        <4> DEFINE s == f[k + 1]
                   R == Runs(Nat)
        <4>1. s \in Seq(R) /\ x \in R
          BY <3>3, <3>4
        <4> HIDE DEF s, R, x
        <4>2. <<x>> \o s \in Seq(R)
          BY <4>1
        <4> QED BY <3>1, <4>2 DEF s, R, x
      <3> HIDE DEF Good, Done
      <3> QED BY <3>5, <3>6
    <2>5. k = L + 1 \/ k <= L
      BY <2>0
    <2> HIDE DEF T
    <2> QED BY <2>1, <2>2, <2>3, <2>5, Zenon
  <1>8. 1 \in T
    <2> HIDE DEF T
    <2>1. 1..(L + 1) \subseteq T
      BY <1>2, <1>7, DownInduction
    <2>2. 1 \in 1..(L + 1)
      BY <1>2
    <2> QED BY <2>1, <2>2
  <1>9. Good(1, <<>>, m)
    <2>1. Reads(w, <<>>, w, 1)
      BY <1>2, ReadsEnds
    <2>2. Above(w, 0, r)
      <3>1. ASSUME NEW l \in 1..(Len(w) - 1) PROVE Rank(PairAt(w, l)) >= r /\ ~(l <= 0)
        <4>1. CASE l \in Ranked(w)
          BY <1>3, <1>5, <4>1 DEF IsNext
        <4>2. CASE l \notin Ranked(w)
          <5>1. ~(Rank(PairAt(w, l)) <= Rules)
            BY <4>2 DEF Ranked
          <5> QED BY <1>3, <1>5, <5>1
        <4> QED BY <4>1, <4>2
      <3> QED BY <3>1 DEF Above
    <2>3. Len(<<>>) = 0
      OBVIOUS
    <2> QED BY <2>1, <2>2, <2>3 DEF w
  <1>10. m \in 0..n /\ <<>> \in X
    BY DEF n
  <1> HIDE DEF Good
  <1>11. Done(1, <<>>, m)
    BY <1>8, <1>9, <1>10
  <1>12. PICK h \in m..n : /\ F[h] = <<>> \o f[1]
                           /\ h = m => \A l \in 1..(L - 1) : PairAt(w, l) # p
    BY <1>11
  <1>13. <<>> \o f[1] = f[1]
    <2>1. f[1] \in X
      BY <1>8
    <2> QED BY <2>1, ConcatEmptySeq
  <1>14. h # m
    BY <1>3, <1>12
  <1>15. h \in (m + 1)..n
    BY <1>1, <1>10, <1>14
  <1> QED BY <1>4, <1>12, <1>13, <1>15 DEF n, w, p

-----------------------------------------------------------------------------
(* The rounds of the textbook.                                                *)

Further(w) ==
  IF Len(w) < 2 \/ Rank(BestPair(w)) > Len(table.rules) THEN w ELSE Replaced(w, BestPair(w))

IsTextbookRounds(R, word) ==
  R = [k \in 0..Len(word) |->
         IF k = 0 THEN [l \in DOMAIN word |-> <<word[l]>>] ELSE Further(R[k - 1])]

TextbookRounds(word) == CHOOSE R : IsTextbookRounds(R, word)

LEMMA TextbookUnfolds ==
  ASSUME NEW word
  PROVE  TextbookBpe(word) = TextbookRounds(word)[Len(word)]
  BY Zenon DEF TextbookBpe, TextbookRounds, IsTextbookRounds, Further

\* A round leaves the word as it is, or is some rounds of bpe.
LEMMA FurtherIs ==
  ASSUME RulesOK, NEW word \in Runs(Nat), NEW F, IsRounds(F, word), NEW m \in 0..(Len(word) - 1)
  PROVE  /\ Ranked(F[m]) = {} => Further(F[m]) = F[m]
         /\ Ranked(F[m]) # {} => \E h \in (m + 1)..(Len(word) - 1) : Further(F[m]) = F[h]
  <1> DEFINE w == F[m]
  <1>1. w \in Seq(Runs(Nat))
    BY RoundsFacts
  <1>2. Len(w) \in Nat /\ Rules \in Nat /\ Rank(BestPair(w)) \in Nat
    BY <1>1, RankIs
  <1>3. CASE Ranked(w) = {}
    BY <1>1, <1>3, BestPairIs DEF Further, Rules
  <1>4. CASE Ranked(w) # {}
    <2>1. Len(w) >= 2 /\ Rank(BestPair(w)) <= Rules
      BY <1>1, <1>4, BestPairIs
    <2>2. ~(Len(w) < 2 \/ Rank(BestPair(w)) > Len(table.rules))
      BY <1>2, <2>1 DEF Rules
    <2>3. Further(w) = Replaced(w, BestPair(w))
      BY <2>2, Zenon DEF Further
    <2> QED BY <1>4, <2>3, ReplacedIs
  <1> QED BY <1>3, <1>4

LEMMA TextbookIs ==
  ASSUME RulesOK, NEW word \in Runs(Nat), NEW F, IsRounds(F, word)
  PROVE  TextbookBpe(word) = F[Len(word) - 1]
  <1> DEFINE n == Len(word) - 1
             X == {F[m] : m \in 0..n}
             R == TextbookRounds(word)
             step == [w \in X |-> Further(w)]
             first == [l \in DOMAIN word |-> <<word[l]>>]
  <1>1. /\ n \in Nat /\ F[0] = Singles(word) /\ Len(word) = n + 1
        /\ \A m \in 0..n : Ranked(F[m]) = {} => F[n] = F[m]
    <2>1. Len(word) \in Nat
      BY DEF Runs
    <2> QED BY <2>1, RoundsFacts
  <1>2. first = F[0] /\ first \in X
    <2>1. DOMAIN word = 1..Len(word)
      BY DEF Runs
    <2>2. first = Singles(word)
      BY <2>1, Zenon DEF Singles
    <2>3. 0 \in 0..n
      BY <1>1
    <2> QED BY <1>1, <2>2, <2>3
  <1>3. \A m \in 0..n : /\ Ranked(F[m]) = {} => Further(F[m]) = F[m]
                        /\ Ranked(F[m]) # {} => \E h \in (m + 1)..n : Further(F[m]) = F[h]
    BY FurtherIs
  <1> HIDE DEF n
  <1>4. step \in [X -> X]
    <2>1. ASSUME NEW m \in 0..n PROVE Further(F[m]) \in X
      <3>1. CASE Ranked(F[m]) = {}
        BY <1>3, <3>1
      <3>2. CASE Ranked(F[m]) # {}
        <4>1. PICK h \in (m + 1)..n : Further(F[m]) = F[h]
          BY <1>3, <3>2
        <4>2. h \in 0..n
          BY <1>1
        <4> QED BY <4>1, <4>2
      <3> QED BY <3>1, <3>2
    <2>2. \A w \in X : Further(w) \in X
      BY <2>1
    <2> HIDE DEF X
    <2> QED BY <2>2
  <1> HIDE DEF X, R, first
  <1>5. IsTextbookRounds(R, word)
    <2>0. \A w \in X : step[w] = Further(w)
      OBVIOUS
    <2> HIDE DEF step
    <2>1. PICK G \in [0..(n + 1) -> X] : Iterated(G, first, step, n + 1)
      <3>1. n + 1 \in Nat
        BY <1>1
      <3> QED BY <1>2, <1>4, <3>1, UpRecursion
    <2>2. ASSUME NEW k \in 0..(n + 1)
          PROVE  G[k] = IF k = 0 THEN first ELSE Further(G[k - 1])
      <3>1. G[k] = IF k = 0 THEN first ELSE step[G[k - 1]]
        BY <2>1, Zenon DEF Iterated
      <3>2. k # 0 => G[k - 1] \in X
        BY <1>1
      <3> QED BY <2>0, <3>1, <3>2
    <2>3. G = [k \in 0..(n + 1) |-> G[k]]
      OBVIOUS
    <2>4. IsTextbookRounds(G, word)
      BY <1>1, <2>2, <2>3, Zenon DEF IsTextbookRounds, first
    <2> QED BY <2>4, Zenon DEF TextbookRounds, R
  <1>6. \A k \in 0..(n + 1) : R[k] = IF k = 0 THEN first ELSE Further(R[k - 1])
    BY <1>1, <1>5, Zenon DEF IsTextbookRounds, first
  \* after k rounds at least k merges are done, unless all are
  <1> DEFINE T == {k \in Nat : k <= n + 1 =>
                     \E m \in 0..n : R[k] = F[m] /\ (Ranked(F[m]) = {} \/ m >= k)}
  <1>7. 0 \in T
    <2>1. 0 \in 0..(n + 1) /\ 0 \in 0..n /\ 0 >= 0
      BY <1>1
    <2>2. R[0] = F[0]
      BY <1>2, <1>6, <2>1
    <2> QED BY <2>1, <2>2
  <1>8. ASSUME NEW k \in Nat, k \in T PROVE k + 1 \in T
    <2> SUFFICES ASSUME k + 1 <= n + 1
                 PROVE  \E m \in 0..n : R[k + 1] = F[m] /\ (Ranked(F[m]) = {} \/ m >= k + 1)
      OBVIOUS
    <2>1. k <= n + 1 /\ k + 1 \in 0..(n + 1) /\ k + 1 # 0 /\ (k + 1) - 1 = k
      BY <1>1
    <2>2. R[k + 1] = Further(R[k])
      BY <1>6, <2>1
    <2>3. PICK m \in 0..n : R[k] = F[m] /\ (Ranked(F[m]) = {} \/ m >= k)
      BY <1>8, <2>1
    <2>4. CASE Ranked(F[m]) = {}
      BY <1>3, <2>2, <2>3, <2>4
    <2>5. CASE Ranked(F[m]) # {}
      <3>1. PICK h \in (m + 1)..n : Further(F[m]) = F[h]
        BY <1>3, <2>5
      <3>2. h \in 0..n /\ h >= k + 1
        BY <1>1, <2>3, <2>5
      <3> QED BY <2>2, <2>3, <3>1, <3>2
    <2> QED BY <2>4, <2>5
  <1>9. n + 1 \in T
    <2>1. Nat \subseteq T
      <3> HIDE DEF T
      <3> QED BY <1>7, <1>8, SetInduction
    <2>2. n + 1 \in Nat
      BY <1>1
    <2> QED BY <2>1, <2>2
  <1>10. PICK m \in 0..n : R[n + 1] = F[m] /\ (Ranked(F[m]) = {} \/ m >= n + 1)
    <2>1. n + 1 <= n + 1
      BY <1>1
    <2> QED BY <1>9, <2>1
  <1>11. Ranked(F[m]) = {}
    BY <1>1, <1>10
  <1>12. R[n + 1] = F[n]
    BY <1>1, <1>10, <1>11
  <1>13. TextbookBpe(word) = R[n + 1]
    BY <1>1, TextbookUnfolds DEF R
  <1> QED BY <1>12, <1>13 DEF n

LEMMA BpeIsTheTextbook ==
  ASSUME RulesOK, NEW word \in Runs(Nat)
  PROVE  Bpe(word) = TextbookBpe(word)
  <1>1. PICK F : IsRounds(F, word)
    BY RoundsExist
  <1> QED BY <1>1, BpeIs, TextbookIs

-----------------------------------------------------------------------------
(* The words of a text.                                                       *)

LEMMA RunOfType ==
  ASSUME NEW s \in Seq(0..255), NEW class
  PROVE  RunOf(s, class) \in 0..Len(s) /\ (s # <<>> /\ RunOf(s, class) = 0 => Class(s[1]) # class)
  <1> DEFINE l == Len(s)
             T == {n \in 0..l : \A k \in 1..n : Class(s[k]) = class}
  <1>1. l \in Nat
    OBVIOUS
  <1>2. 0 \in T
    BY <1>1
  <1>3. PICK x \in T : \A y \in T : y <= x
    <2>1. T \subseteq 0..l /\ T # {}
      BY <1>2
    <2> HIDE DEF T, l
    <2> QED BY <1>1, <2>1, GreatestNat
  <1>4. ASSUME x < l PROVE Class(s[x + 1]) # class
    <2> SUFFICES ASSUME Class(s[x + 1]) = class PROVE FALSE
      OBVIOUS
    <2>1. x + 1 \in 0..l /\ x \in 0..l
      BY <1>1, <1>3, <1>4
    <2>2. \A k \in 1..(x + 1) : Class(s[k]) = class
      <3>1. \A k \in 1..(x + 1) : k \in 1..x \/ k = x + 1
        BY <2>1
      <3> QED BY <1>3, <3>1
    <2>3. x + 1 \in T
      BY <2>1, <2>2
    <2> QED BY <1>3, <2>1, <2>3
  <1>5. \E n \in 0..l : /\ \A k \in 1..n : Class(s[k]) = class
                        /\ n < l => Class(s[n + 1]) # class
    BY <1>3, <1>4
  <1>6. /\ RunOf(s, class) \in 0..l
        /\ RunOf(s, class) < l => Class(s[RunOf(s, class) + 1]) # class
    BY <1>5, Zenon DEF RunOf
  <1> DEFINE r == RunOf(s, class)
  <1>7. s # <<>> /\ r = 0 => r < l /\ r + 1 = 1
    <2>1. s # <<>> => l # 0
      BY EmptySeq
    <2> HIDE DEF r, l
    <2> QED BY <1>1, <2>1
  <1> HIDE DEF r
  <1> QED BY <1>6, <1>7 DEF r

LEMMA WordLengthType ==
  ASSUME NEW s \in Seq(0..255), s # <<>> PROVE WordLength(s) \in 0..Len(s)
  <1> DEFINE short == {c \in Contractions : IsPrefix(c, s)}
             gap == IF s[1] = 32 THEN 1 ELSE 0
             rest == SubSeq(s, gap + 1, Len(s))
             l == Len(s)
  <1>1. l \in Nat /\ l # 0
    BY EmptySeq
  <1>2. gap \in 0..1
    OBVIOUS
  <1>3. rest \in Seq(0..255) /\ Len(rest) = l - gap
    <2> DEFINE a == gap + 1
    <2>1. a \in Nat /\ 1 <= a /\ a <= l + 1 /\ l - a + 1 = l - gap /\ l <= Len(s)
      BY <1>1, <1>2
    <2> HIDE DEF a, gap, l
    <2>2. SubSeq(s, a, l) \in Seq(0..255) /\ Len(SubSeq(s, a, l)) = l - a + 1
      BY <1>1, <2>1, PartFacts, ZenonT(60)
    <2> QED BY <2>1, <2>2 DEF a, l
  <1>4. WordLength(s) =
          IF short # {} THEN Len(CHOOSE c \in short : TRUE)
          ELSE IF rest # <<>> /\ Class(rest[1]) \in {"alpha", "digit", "other"}
               THEN gap + RunOf(rest, Class(rest[1]))
          ELSE RunOf(s, "space")
    BY Zenon DEF WordLength
  <1>5. \A c \in short : Len(c) \in Nat /\ Len(c) <= l
    <2>1. \A c \in Contractions : Len(c) \in Nat
      BY DEF Contractions
    <2>2. \A c \in short : c \in Contractions /\ Len(c) <= l
      BY DEF IsPrefix
    <2> QED BY <2>1, <2>2
  <1>6. RunOf(rest, Class(rest[1])) \in 0..(l - gap)
    <2> HIDE DEF rest, gap
    <2> QED BY <1>3, RunOfType
  <1>7. RunOf(s, "space") \in 0..l
    BY RunOfType
  <1> HIDE DEF short, gap, rest
  <1>8. short # {} => (CHOOSE c \in short : TRUE) \in short
    BY Zenon
  <1>9. CASE short # {}
    BY <1>1, <1>4, <1>5, <1>8, <1>9
  <1>10. CASE short = {}
    <2>1. WordLength(s) = gap + RunOf(rest, Class(rest[1])) \/ WordLength(s) = RunOf(s, "space")
      BY <1>4, <1>10
    <2> HIDE DEF l
    <2>2. WordLength(s) \in 0..l
      BY <1>1, <1>2, <1>6, <1>7, <2>1
    <2> QED BY <2>2 DEF l
  <1> QED BY <1>9, <1>10

\* f gives the words from each place on.
IsWords(f, s) ==
  f = [p \in 1..(Len(s) + 1) |->
         IF p > Len(s) THEN <<>>
         ELSE LET n == WordLength(SubSeq(s, p, Len(s)))
              IN  IF n = 0 THEN f[p + 1] ELSE <<SubSeq(s, p, p + n - 1)>> \o f[p + n]]

LEMMA WordsFrom ==
  ASSUME NEW s \in Seq(0..255)
  PROVE  \E g : /\ Words(s) = g[1]
                /\ \A p \in 1..(Len(s) + 1) :
                     /\ g[p] \in Seq(Runs(0..255))
                     /\ g[p] = IF p > Len(s) THEN <<>>
                               ELSE IF WordLength(SubSeq(s, p, Len(s))) = 0 THEN g[p + 1]
                               ELSE <<SubSeq(s, p, p + WordLength(SubSeq(s, p, Len(s))) - 1)>>
                                      \o g[p + WordLength(SubSeq(s, p, Len(s)))]
  <1> DEFINE l == Len(s)
             Size(p) == WordLength(SubSeq(s, p, l))
             val == [p \in 1..l |-> IF Size(p) = 0 THEN <<>> ELSE <<SubSeq(s, p, p + Size(p) - 1)>>]
             nxt == [p \in 1..l |-> IF Size(p) = 0 THEN p + 1 ELSE p + Size(p)]
             X == Seq(Runs(0..255))
  <1>1. l \in Nat
    OBVIOUS
  <1>2. \A p \in 1..l : /\ val[p] = IF Size(p) = 0 THEN <<>> ELSE <<SubSeq(s, p, p + Size(p) - 1)>>
                        /\ nxt[p] = IF Size(p) = 0 THEN p + 1 ELSE p + Size(p)
    OBVIOUS
  <1>3. ASSUME NEW p \in 1..l PROVE Size(p) \in 0..(l - p + 1)
    <2>1. p \in Nat /\ l \in Nat /\ 1 <= p /\ p <= l + 1 /\ l <= Len(s) /\ l - p + 1 \in Nat
          /\ l - p + 1 # 0
      BY <1>1
    <2> DEFINE t == SubSeq(s, p, l)
    <2>2. t \in Seq(0..255) /\ Len(t) = l - p + 1
      <3> HIDE DEF l
      <3> QED BY <2>1, PartFacts, ZenonT(60)
    <2> HIDE DEF t, l
    <2>3. t # <<>>
      BY <2>1, <2>2
    <2> QED BY <2>2, <2>3, WordLengthType DEF t
  <1> HIDE DEF val, nxt, l
  <1>4. \A p \in 1..l : nxt[p] \in (p + 1)..(l + 1)
    <2>1. ASSUME NEW p \in 1..l PROVE nxt[p] \in (p + 1)..(l + 1)
      <3> DEFINE z == Size(p)
      <3>1. z \in 0..(l - p + 1) /\ nxt[p] = IF z = 0 THEN p + 1 ELSE p + z
        BY <1>2, <1>3
      <3> HIDE DEF z
      <3> QED BY <1>1, <3>1
    <2> QED BY <2>1
  <1>5. ASSUME NEW p \in 1..l PROVE val[p] \in X
    <2>1. CASE Size(p) = 0
      <3>1. val[p] = <<>>
        BY <1>2, <2>1
      <3> QED BY <3>1
    <2>2. CASE Size(p) # 0
      <3> DEFINE b == p + Size(p) - 1
                 t == SubSeq(s, p, b)
      <3>1. b \in Nat /\ b <= l /\ p <= b + 1 /\ 1 <= p /\ p \in Nat /\ b - p + 1 # 0 /\ b - p + 1 \in Nat
        <4> DEFINE z == Size(p)
        <4>1. z \in 0..(l - p + 1) /\ z # 0 /\ b = p + z - 1
          BY <1>3, <2>2
        <4> HIDE DEF z, b
        <4> QED BY <1>1, <4>1
      <3> HIDE DEF b
      <3>2. t \in Seq(0..255) /\ Len(t) = b - p + 1
        <4>1. b <= Len(s)
          BY <3>1 DEF l
        <4>2. p \in Nat /\ b \in Nat /\ 1 <= p /\ p <= b + 1
          BY <3>1
        <4> QED BY <4>1, <4>2, PartFacts, ZenonT(60)
      <3> HIDE DEF t
      <3>3. t # <<>>
        BY <3>1, <3>2
      <3>4. t \in Runs(0..255)
        BY <3>2, <3>3 DEF Runs
      <3>5. <<t>> \in X
        BY <3>4
      <3>6. val[p] = <<t>>
        BY <1>2, <2>2 DEF t, b
      <3> QED BY <3>5, <3>6
    <2> QED BY <2>1, <2>2
  <1>6. PICK f : FromPlace(f, val, nxt, l, 1)
    BY <1>1, <1>4, DownRecursion
  <1> HIDE DEF Size, X
  \* what each place gives, by downward induction
  <1> DEFINE T == {p \in 1..(l + 1) : f[p] \in X}
  <1>8. \A p \in 1..(l + 1) : f[p] = IF p > l THEN <<>> ELSE val[p] \o f[nxt[p]]
    BY <1>6, Zenon DEF FromPlace
  <1>9. ASSUME NEW p \in 1..(l + 1), \A q \in (p + 1)..(l + 1) : q \in T PROVE p \in T
    <2>1. CASE p > l
      <3>1. f[p] = <<>>
        BY <1>8, <2>1
      <3>2. <<>> \in X
        BY DEF X
      <3> QED BY <3>1, <3>2
    <2>2. CASE ~(p > l)
      <3>1. p \in 1..l
        BY <1>1, <2>2
      <3>2. f[nxt[p]] \in X
        BY <1>4, <1>9, <3>1
      <3>3. val[p] \o f[nxt[p]] \in X
        BY <1>5, <3>1, <3>2, ConcatProperties DEF X
      <3>4. f[p] = val[p] \o f[nxt[p]]
        BY <1>8, <2>2
      <3> QED BY <3>3, <3>4
    <2> QED BY <2>1, <2>2
  <1>10. \A p \in 1..(l + 1) : f[p] \in X
    <2>1. 1..(l + 1) \subseteq T
      <3> HIDE DEF T
      <3> QED BY <1>1, <1>9, DownInduction
    <2> QED BY <2>1
  <1>11. ASSUME NEW p \in 1..(l + 1)
         PROVE  f[p] = IF p > l THEN <<>>
                       ELSE IF Size(p) = 0 THEN f[p + 1] ELSE <<SubSeq(s, p, p + Size(p) - 1)>> \o f[p + Size(p)]
    <2>1. f[p] = IF p > l THEN <<>> ELSE val[p] \o f[nxt[p]]
      BY <1>8
    <2>2. CASE p > l
      BY <2>1, <2>2
    <2>3. CASE ~(p > l) /\ Size(p) = 0
      <3>1. p \in 1..l /\ p + 1 \in 1..(l + 1)
        BY <1>1, <2>3
      <3>2. val[p] = <<>> /\ nxt[p] = p + 1
        BY <1>2, <2>3, <3>1
      <3>3. <<>> \o f[p + 1] = f[p + 1]
        BY <1>10, <3>1, ConcatEmptySeq DEF X
      <3> QED BY <2>1, <2>3, <3>2, <3>3
    <2>4. CASE ~(p > l) /\ Size(p) # 0
      <3>1. p \in 1..l
        BY <1>1, <2>4
      <3>2. val[p] = <<SubSeq(s, p, p + Size(p) - 1)>> /\ nxt[p] = p + Size(p)
        BY <1>2, <2>4, <3>1
      <3> QED BY <2>1, <2>4, <3>2
    <2> QED BY <2>2, <2>3, <2>4
  <1>12. f = [p \in 1..(l + 1) |-> f[p]]
    BY <1>6, Zenon DEF FromPlace
  <1>13. IsWords(f, s)
    BY <1>11, <1>12, Zenon DEF IsWords, Size, l
  <1> DEFINE g == CHOOSE h : IsWords(h, s)
  <1>14. Words(s) = g[1] /\ IsWords(g, s)
    <2>1. Words(s) = g[1]
      BY Zenon DEF Words, IsWords
    <2>2. IsWords(g, s)
      BY <1>13, Zenon
    <2> QED BY <2>1, <2>2
  <1> HIDE DEF g
  <1>15. \A p \in 1..(l + 1) :
           g[p] = IF p > l THEN <<>>
                  ELSE IF Size(p) = 0 THEN g[p + 1] ELSE <<SubSeq(s, p, p + Size(p) - 1)>> \o g[p + Size(p)]
    BY <1>14, Zenon DEF IsWords, Size, l
  <1> DEFINE U == {p \in 1..(l + 1) : g[p] \in X}
  <1>16. ASSUME NEW p \in 1..(l + 1), \A q \in (p + 1)..(l + 1) : q \in U PROVE p \in U
    <2>1. CASE p > l
      <3>1. g[p] = <<>>
        BY <1>15, <2>1
      <3>2. <<>> \in X
        BY DEF X
      <3> QED BY <3>1, <3>2
    <2>2. CASE ~(p > l) /\ Size(p) = 0
      <3>1. p + 1 \in (p + 1)..(l + 1)
        BY <1>1, <2>2
      <3>2. g[p] = g[p + 1]
        BY <1>15, <2>2
      <3> QED BY <1>16, <3>1, <3>2
    <2>3. CASE ~(p > l) /\ Size(p) # 0
      <3>1. p \in 1..l
        BY <1>1, <2>3
      <3>2. val[p] = <<SubSeq(s, p, p + Size(p) - 1)>> /\ nxt[p] = p + Size(p)
        BY <1>2, <2>3, <3>1
      <3>3. g[nxt[p]] \in X /\ val[p] \in X
        BY <1>4, <1>5, <1>16, <3>1
      <3>4. val[p] \o g[nxt[p]] \in X
        BY <3>3, ConcatProperties DEF X
      <3>5. g[p] = val[p] \o g[nxt[p]]
        BY <1>15, <2>3, <3>2
      <3> QED BY <3>4, <3>5
    <2> QED BY <2>1, <2>2, <2>3
  <1>17. \A p \in 1..(l + 1) : g[p] \in X
    <2>1. 1..(l + 1) \subseteq U
      <3> HIDE DEF U
      <3> QED BY <1>1, <1>16, DownInduction
    <2> QED BY <2>1
  <1> QED BY <1>14, <1>15, <1>17, Zenon DEF X, Size, l

LEMMA WordsType ==
  ASSUME NEW s \in Seq(0..255) PROVE Words(s) \in Seq(Runs(0..255))
  <1>1. Len(s) \in Nat /\ 1 \in 1..(Len(s) + 1)
    OBVIOUS
  <1> QED BY <1>1, WordsFrom, Zenon

LEMMA WideIsNat == \A b \in 0..255 : B2U[b] \in Nat
  <1>1. ASSUME NEW b \in 0..255 PROVE Cardinality((0..(b - 1)) \ Printable) \in Nat
    <2>1. b - 1 \in Int
      OBVIOUS
    <2>2. IsFiniteSet(0..(b - 1))
      BY <2>1, FS_Interval
    <2> QED BY <2>2, FS_Difference, FS_CardinalityType
  <1>2. ASSUME NEW b \in 0..255 PROVE B2U[b] \in Nat
    <2>1. B2U[b] = IF b \in Printable THEN b ELSE 256 + Cardinality((0..(b - 1)) \ Printable)
      BY DEF B2U
    <2> DEFINE c == Cardinality((0..(b - 1)) \ Printable)
    <2>2. c \in Nat
      BY <1>1
    <2> HIDE DEF c
    <2> QED BY <2>1, <2>2 DEF c
  <1> QED BY <1>2

\* A word in wide characters.
Wide(s) == [l \in DOMAIN s |-> B2U[s[l]]]

LEMMA WideType ==
  ASSUME NEW s \in Runs(0..255)
  PROVE  /\ Wide(s) \in Runs(Nat) /\ Len(Wide(s)) = Len(s) /\ Len(s) \in Nat /\ DOMAIN s = 1..Len(s)
         /\ \A l \in 1..Len(s) : Wide(s)[l] = B2U[s[l]] /\ s[l] \in 0..255
  <1>1. s \in Seq(0..255) /\ s # <<>>
    BY DEF Runs
  <1>2. Len(s) \in Nat /\ Len(s) # 0 /\ DOMAIN s = 1..Len(s) /\ \A l \in 1..Len(s) : s[l] \in 0..255
    <2>1. Len(s) \in Nat /\ DOMAIN s = 1..Len(s) /\ \A l \in 1..Len(s) : s[l] \in 0..255
      BY <1>1, LenProperties, ElementOfSeq
    <2>2. Len(s) # 0
      BY <1>1, EmptySeq
    <2> QED BY <2>1, <2>2
  <1> DEFINE n == Len(s)
             w == Wide(s)
  <1>3. n \in Nat /\ \A l \in 1..n : B2U[s[l]] \in Nat
    BY <1>2, WideIsNat
  <1>4. w = [l \in 1..n |-> B2U[s[l]]]
    BY <1>2 DEF Wide
  <1>5. w \in Seq(Nat) /\ Len(w) = n /\ w # <<>> /\ \A l \in 1..n : w[l] = B2U[s[l]]
    <2>1. n # 0
      BY <1>2
    <2> HIDE DEF n, w
    <2>2. w \in Seq(Nat) /\ Len(w) = n /\ \A l \in 1..n : w[l] = B2U[s[l]]
      BY <1>3, <1>4
    <2> QED BY <2>1, <2>2
  <1> QED BY <1>2, <1>5 DEF Runs

-----------------------------------------------------------------------------
(* The theorem.                                                               *)

\* The text is one of bytes, and the rules of the file are in the order learnt.
FileOK == text \in Seq(0..255) /\ RulesOK

\* bpe (tokenizer.cpp:622-711) gives for every word of every text what byte pair
\* encoding gives for it, whatever the vocabulary, with rules in order.
THEOREM BpeIsAlwaysTextbook == TokenSpec => []BpeIsTextbook
  <1>1. TokenInit => FileOK
    BY TokenAssumption DEF TokenInit, Encode, FileOK, RulesOK
  <1>2. FileOK /\ [TokenNext]_tokenVars => FileOK'
    <2>1. [TokenNext]_tokenVars => UNCHANGED <<table, text>>
      BY DEF TokenNext, Skip, TakeSpecial, Rest, tokenVars
    <2>2. FileOK /\ UNCHANGED <<table, text>> => FileOK'
      BY DEF FileOK, RulesOK
    <2> QED BY <2>1, <2>2
  <1>3. FileOK => BpeIsTextbook
    <2> SUFFICES ASSUME FileOK, NEW k \in DOMAIN Words(text)
                 PROVE  LET word == [l \in DOMAIN Words(text)[k] |-> B2U[Words(text)[k][l]]]
                        IN  Bpe(word) = TextbookBpe(word)
      BY DEF BpeIsTextbook
    <2> DEFINE s == Words(text)[k]
    <2>1. Words(text) \in Seq(Runs(0..255))
      BY WordsType DEF FileOK
    <2>2. s \in Runs(0..255)
      <3> DEFINE ws == Words(text)
      <3>1. ws \in Seq(Runs(0..255)) /\ k \in DOMAIN ws
        BY <2>1
      <3> HIDE DEF ws
      <3>2. ws[k] \in Runs(0..255)
        BY <3>1
      <3> QED BY <3>2 DEF ws
    <2> HIDE DEF s
    <2>6. Wide(s) \in Runs(Nat)
      BY <2>2, WideType
    <2>7. RulesOK
      BY DEF FileOK
    <2> QED BY <2>6, <2>7, BpeIsTheTextbook DEF Wide, s
  <1> QED BY <1>1, <1>2, <1>3, PTL DEF TokenSpec

-----------------------------------------------------------------------------
(* Wide characters: each stands for one byte.                                 *)

\* No two bytes are written with one wide character.
LEMMA WideIsInjective == \A b, c \in 0..255 : B2U[b] = B2U[c] => b = c
  <1> DEFINE Before(b) == (0..(b - 1)) \ Printable
  <1>1. \A b \in 0..255 : B2U[b] = IF b \in Printable THEN b ELSE 256 + Cardinality(Before(b))
    BY DEF B2U
  <1>2. \A b \in 0..255 : IsFiniteSet(Before(b)) /\ Cardinality(Before(b)) \in Nat
    <2>1. ASSUME NEW b \in 0..255 PROVE IsFiniteSet(Before(b)) /\ Cardinality(Before(b)) \in Nat
      <3>1. IsFiniteSet(0..(b - 1))
        <4>1. b - 1 \in Int
          OBVIOUS
        <4> QED BY <4>1, FS_Interval
      <3> QED BY <3>1, FS_Difference, FS_CardinalityType
    <2> QED BY <2>1
  <1>3. ASSUME NEW b \in 0..255, NEW c \in 0..255, b \notin Printable, b < c
        PROVE  Cardinality(Before(b)) < Cardinality(Before(c))
    <2>1. Before(b) \subseteq Before(c) /\ b \in Before(c) /\ b \notin Before(b)
      BY <1>3
    <2> DEFINE B == Before(b)
               C == Before(c)
    <2>2. B \subseteq C /\ B # C /\ IsFiniteSet(C) /\ Cardinality(B) \in Nat /\ Cardinality(C) \in Nat
      BY <1>2, <2>1
    <2> HIDE DEF B, C
    <2>3. Cardinality(B) <= Cardinality(C) /\ Cardinality(B) # Cardinality(C)
      BY <2>2, FS_Subset
    <2>4. Cardinality(B) < Cardinality(C)
      BY <2>2, <2>3
    <2> QED BY <2>4 DEF B, C
  <1>4. PICK card \in [0..255 -> Nat] :
          /\ \A b \in 0..255 : B2U[b] = IF b \in Printable THEN b ELSE 256 + card[b]
          /\ \A b, c \in 0..255 : b \notin Printable /\ b < c => card[b] < card[c]
    <2> DEFINE f == [b \in 0..255 |-> Cardinality(Before(b))]
    <2>1. f \in [0..255 -> Nat] /\ \A b \in 0..255 : f[b] = Cardinality(Before(b))
      BY <1>2
    <2> HIDE DEF f, Before
    <2>2. \A b, c \in 0..255 : b \notin Printable /\ b < c => f[b] < f[c]
      BY <1>3, <2>1, ZenonT(60)
    <2>3. \A b \in 0..255 : B2U[b] = IF b \in Printable THEN b ELSE 256 + f[b]
      BY <1>1, <2>1, ZenonT(60)
    <2> QED BY <2>1, <2>2, <2>3
  <1>5. ASSUME NEW b \in 0..255, NEW c \in 0..255, B2U[b] = B2U[c] PROVE b = c
    <2>1. card[b] \in Nat /\ card[c] \in Nat
      BY <1>4
    <2>2. CASE b \in Printable
      <3>1. B2U[b] = b
        BY <1>4, <2>2
      <3>2. B2U[c] = c \/ B2U[c] = 256 + card[c]
        BY <1>4
      <3> QED BY <1>5, <2>1, <3>1, <3>2
    <2>3. CASE b \notin Printable /\ c \in Printable
      <3>1. B2U[c] = c /\ B2U[b] = 256 + card[b]
        BY <1>4, <2>3
      <3> QED BY <1>5, <2>1, <3>1
    <2>4. CASE b \notin Printable /\ c \notin Printable
      <3>1. B2U[b] = 256 + card[b] /\ B2U[c] = 256 + card[c]
        BY <1>4, <2>4
      <3>2. card[b] = card[c]
        <4>1. 256 + card[b] = 256 + card[c]
          BY <1>5, <3>1, Zenon
        <4> QED BY <2>1, <4>1
      <3>3. \A x, y \in 0..255 : x \notin Printable /\ x < y => card[x] < card[y]
        BY <1>4
      <3>4. card[b] < card[c] \/ ~(b < c)
        BY <2>4, <3>3
      <3>5. card[c] < card[b] \/ ~(c < b)
        BY <2>4, <3>3
      <3> QED BY <2>1, <3>2, <3>4, <3>5
    <2> QED BY <2>2, <2>3, <2>4
  <1> QED BY <1>5

\* A wide character stands for the byte it is written for.
LEMMA NarrowIs ==
  /\ \A b \in 0..255 : B2U[b] \in DOMAIN U2B /\ U2B[B2U[b]] = b
  /\ \A w \in DOMAIN U2B : U2B[w] \in 0..255
  <1> DEFINE S == {B2U[b] : b \in 0..255}
  <1>1. U2B = [t \in S |-> CHOOSE b \in 0..255 : t \in Range(B2U) => B2U[b] = t]
    BY DEF U2B, Inverse
  <1>2. DOMAIN B2U = 0..255
    BY DEF B2U
  <1>3. \A b \in 0..255 : B2U[b] \in Range(B2U)
    BY <1>2 DEF Range
  <1>4. ASSUME NEW b \in 0..255 PROVE B2U[b] \in DOMAIN U2B /\ U2B[B2U[b]] = b
    <2> DEFINE t == B2U[b]
               c == CHOOSE d \in 0..255 : t \in Range(B2U) => B2U[d] = t
    <2>1. t \in S
      OBVIOUS
    <2>2. c \in 0..255 /\ B2U[c] = t
      <3>1. \E d \in 0..255 : t \in Range(B2U) => B2U[d] = t
        OBVIOUS
      <3>2. c \in 0..255 /\ (t \in Range(B2U) => B2U[c] = t)
        BY <3>1, Zenon
      <3> QED BY <1>3, <3>2
    <2>3. U2B[t] = c /\ t \in DOMAIN U2B
      <3> HIDE DEF S, t
      <3> QED BY <1>1, <2>1, Zenon
    <2> HIDE DEF c
    <2> QED BY <2>2, <2>3, WideIsInjective
  <1>5. ASSUME NEW w \in DOMAIN U2B PROVE U2B[w] \in 0..255
    <2>1. PICK b \in 0..255 : w = B2U[b]
      BY <1>1, <1>5
    <2> QED BY <1>4, <2>1
  <1> QED BY <1>4, <1>5

-----------------------------------------------------------------------------
(* The core of a text, part by part.                                          *)

\* The file is one that can be.
TableOK ==
  /\ table.kind \in {"huggingface", "tiktoken", "bert"}
  /\ table.vocab \in Seq(Seq(IF table.kind = "huggingface" THEN Nat ELSE 0..255))
  /\ table.special \in Seq(Nat) /\ table.prefix \in Seq(Nat)
  /\ RulesOK

\* No character of the text is cut at its end.
Ends(s) == table.kind = "bert" /\ s # <<>> => s[Len(s)] \notin 192..223

CoreParts(s) ==
  [k \in DOMAIN s |->
    IF ~Kept(s, k) THEN <<>> ELSE <<IF table.kind = "bert" THEN Lower(s[k]) ELSE s[k]>>]

\* The text b says what s says.
Says(b, s) ==
  b \in Seq(0..255) /\ s \in Seq(0..255) /\ Ends(b) /\ Ends(s) /\ Core(b) = Core(s)

\* The core of a text, its bytes one by one.
LEMMA CorePartsType ==
  ASSUME NEW s \in Seq(0..255)
  PROVE  /\ CoreParts(s) \in Seq(Seq(0..255)) /\ Len(CoreParts(s)) = Len(s) /\ Len(s) \in Nat
         /\ \A k \in 1..Len(s) :
              CoreParts(s)[k] = IF ~Kept(s, k) THEN <<>>
                                ELSE <<IF table.kind = "bert" THEN Lower(s[k]) ELSE s[k]>>
         /\ Core(s) = FlattenSeq(CoreParts(s)) /\ Core(s) \in Seq(0..255)
  <1>1. DOMAIN s = 1..Len(s) /\ Len(s) \in Nat /\ \A k \in 1..Len(s) : s[k] \in 0..255
    BY LenProperties, ElementOfSeq
  <1>2. \A c \in 0..255 : Lower(c) \in 0..255
    BY DEF Lower
  <1> DEFINE part(k) == IF ~Kept(s, k) THEN <<>>
                        ELSE <<IF table.kind = "bert" THEN Lower(s[k]) ELSE s[k]>>
  <1>3. \A k \in 1..Len(s) : part(k) \in Seq(0..255)
    <2>1. ASSUME NEW k \in 1..Len(s) PROVE part(k) \in Seq(0..255)
      <3> DEFINE c == IF table.kind = "bert" THEN Lower(s[k]) ELSE s[k]
      <3>1. c \in 0..255
        BY <1>1, <1>2
      <3> HIDE DEF c
      <3>2. <<c>> \in Seq(0..255) /\ <<>> \in Seq(0..255)
        BY <3>1
      <3> QED BY <3>2 DEF c
    <2> QED BY <2>1
  <1>4. CoreParts(s) = [k \in 1..Len(s) |-> part(k)]
    BY <1>1 DEF CoreParts
  <1>5. CoreParts(s) \in Seq(Seq(0..255)) /\ Len(CoreParts(s)) = Len(s)
    <2> HIDE DEF part
    <2> QED BY <1>1, <1>3, <1>4
  <1>6. \A k \in 1..Len(s) : CoreParts(s)[k] = part(k)
    BY <1>4
  <1>7. Core(s) = FlattenSeq(CoreParts(s))
    BY DEF Core, CoreParts
  <1>8. Core(s) \in Seq(0..255)
    BY <1>5, <1>7, FlattenType
  <1> QED BY <1>1, <1>5, <1>6, <1>7, <1>8

\* The core of two texts, when the first ends with a whole character.
LEMMA CoreOfTwo ==
  ASSUME NEW s \in Seq(0..255), NEW t \in Seq(0..255), Ends(s),
         table.kind \in {"huggingface", "tiktoken", "bert"}
  PROVE  /\ s \o t \in Seq(0..255) /\ Core(s \o t) = Core(s) \o Core(t)
         /\ Ends(t) => Ends(s \o t)
  <1> DEFINE u == s \o t
             m == Len(s)
             n == Len(t)
  <1>1. /\ u \in Seq(0..255) /\ Len(u) = m + n /\ m \in Nat /\ n \in Nat
        /\ \A k \in 1..(m + n) : u[k] = IF k <= m THEN s[k] ELSE t[k - m]
    BY ConcatProperties
  <1>2. \A k \in 1..m : u[k] = s[k] /\ k \in 1..Len(u)
    BY <1>1
  <1>3. \A k \in 1..n : u[m + k] = t[k] /\ m + k \in 1..Len(u)
    <2>1. ASSUME NEW k \in 1..n PROVE u[m + k] = t[k] /\ m + k \in 1..Len(u)
      <3> DEFINE j == m + k
      <3>1. j \in 1..(m + n) /\ ~(j <= m) /\ j - m = k
        BY <1>1
      <3> HIDE DEF j, m, n, u
      <3> QED BY <1>1, <3>1 DEF j
    <2> QED BY <2>1
  <1>4. table.kind = "bert" /\ m # 0 => u[m] \notin 192..223
    <2> SUFFICES ASSUME table.kind = "bert", m # 0 PROVE u[m] \notin 192..223
      OBVIOUS
    <2>1. s # <<>> /\ m \in 1..m
      BY <1>1
    <2> QED BY <1>2, <2>1 DEF Ends
  <1> HIDE DEF u
  <1>5. ASSUME NEW k \in 1..m PROVE Kept(u, k) <=> Kept(s, k)
    <2>1. u[k] = s[k]
      BY <1>2
    <2>2. k > 1 => k - 1 \in 1..m /\ u[k - 1] = s[k - 1]
      BY <1>1, <1>2
    <2> HIDE DEF m
    <2> QED BY <2>1, <2>2 DEF Kept
  <1>6. ASSUME NEW k \in 1..n PROVE Kept(u, m + k) <=> Kept(t, k)
    <2> DEFINE j == m + k
    <2>1. u[j] = t[k]
      BY <1>3
    <2>2. k > 1 => u[j - 1] = t[k - 1] /\ j > 1
      <3> SUFFICES ASSUME k > 1 PROVE u[j - 1] = t[k - 1] /\ j > 1
        OBVIOUS
      <3>1. k - 1 \in 1..n /\ m + (k - 1) = j - 1 /\ j > 1
        BY <1>1
      <3> QED BY <1>3, <3>1
    <2>3. ~(k > 1) => j - 1 = m /\ (j > 1 <=> m # 0)
      BY <1>1
    <2>4. table.kind = "bert" /\ ~(k > 1) /\ j > 1 => u[j - 1] \notin 192..223
      BY <1>4, <2>3
    <2> SUFFICES Kept(u, j) <=> Kept(t, k)
      OBVIOUS
    <2> HIDE DEF j
    <2>5. table.kind = "bert" =>
            ((j > 1 => u[j - 1] \notin 192..223) <=> (k > 1 => t[k - 1] \notin 192..223))
      BY <2>2, <2>4, Zenon
    <2>6. CASE table.kind = "bert"
      <3>1. Kept(u, j) <=> /\ Class(u[j]) # "space" /\ u[j] \notin 192..223
                           /\ (j > 1 => u[j - 1] \notin 192..223)
        BY <2>6 DEF Kept
      <3>2. Kept(t, k) <=> /\ Class(t[k]) # "space" /\ t[k] \notin 192..223
                           /\ (k > 1 => t[k - 1] \notin 192..223)
        BY <2>6 DEF Kept
      <3>3. (j > 1 => u[j - 1] \notin 192..223) <=> (k > 1 => t[k - 1] \notin 192..223)
        BY <2>5, <2>6
      <3>4. Class(u[j]) = Class(t[k])
        BY <2>1
      <3> QED BY <2>1, <3>1, <3>2, <3>3, <3>4, SMTT(40)
    <2>7. CASE table.kind # "bert"
      <3>1. Kept(u, j) <=> (table.kind = "huggingface" => u[j] # 95)
        BY <2>7 DEF Kept
      <3>2. Kept(t, k) <=> (table.kind = "huggingface" => t[k] # 95)
        BY <2>7 DEF Kept
      <3> QED BY <2>1, <3>1, <3>2, Zenon
    <2> QED BY <2>6, <2>7
  <1>7. Core(u) = Core(s) \o Core(t)
    <2> DEFINE cs == CoreParts(s)
               ct == CoreParts(t)
               cu == CoreParts(u)
    <2>1. /\ cs \in Seq(Seq(0..255)) /\ Len(cs) = m /\ Core(s) = FlattenSeq(cs)
          /\ ct \in Seq(Seq(0..255)) /\ Len(ct) = n /\ Core(t) = FlattenSeq(ct)
          /\ cu \in Seq(Seq(0..255)) /\ Len(cu) = m + n /\ Core(u) = FlattenSeq(cu)
      BY <1>1, CorePartsType
    <2>2. ASSUME NEW k \in 1..Len(cs) PROVE cu[k] = cs[k]
      <3>1. k \in 1..m /\ k \in 1..Len(u) /\ u[k] = s[k] /\ (Kept(u, k) <=> Kept(s, k))
        BY <1>2, <1>5, <2>1
      <3>2. cs[k] = IF ~Kept(s, k) THEN <<>> ELSE <<IF table.kind = "bert" THEN Lower(s[k]) ELSE s[k]>>
        BY <3>1, CorePartsType
      <3>3. cu[k] = IF ~Kept(u, k) THEN <<>> ELSE <<IF table.kind = "bert" THEN Lower(u[k]) ELSE u[k]>>
        BY <1>1, <3>1, CorePartsType
      <3> QED BY <3>1, <3>2, <3>3, Zenon
    <2>3. ASSUME NEW k \in 1..Len(ct) PROVE cu[Len(cs) + k] = ct[k]
      <3> DEFINE j == m + k
      <3>1. k \in 1..n /\ j \in 1..Len(u) /\ u[j] = t[k] /\ (Kept(u, j) <=> Kept(t, k))
        BY <1>3, <1>6, <2>1
      <3>2. cu[j] = ct[k]
        <4> HIDE DEF j
        <4>1. ct[k] = IF ~Kept(t, k) THEN <<>> ELSE <<IF table.kind = "bert" THEN Lower(t[k]) ELSE t[k]>>
          BY <3>1, CorePartsType
        <4>2. cu[j] = IF ~Kept(u, j) THEN <<>> ELSE <<IF table.kind = "bert" THEN Lower(u[j]) ELSE u[j]>>
          BY <1>1, <3>1, CorePartsType, ZenonT(60)
        <4> QED BY <3>1, <4>1, <4>2, Zenon
      <3> QED BY <2>1, <3>2
    <2> HIDE DEF cs, ct, cu
    <2>4. Len(cu) = Len(cs) + Len(ct)
      BY <2>1
    <2>5. FlattenSeq(cu) = FlattenSeq(cs) \o FlattenSeq(ct)
      BY <2>1, <2>2, <2>3, <2>4, FlattenOfParts, ZenonT(60)
    <2> QED BY <2>1, <2>5
  <1>8. ASSUME Ends(t) PROVE Ends(u)
    <2> SUFFICES ASSUME table.kind = "bert", u # <<>> PROVE u[Len(u)] \notin 192..223
      BY DEF Ends
    <2>1. CASE n = 0
      <3>1. Len(u) = m /\ m # 0
        BY <1>1, <2>1
      <3> QED BY <1>4, <3>1
    <2>2. CASE n # 0
      <3>1. n \in 1..n /\ t # <<>>
        BY <1>1, <2>2
      <3>2. u[m + n] = t[n]
        BY <1>3, <3>1
      <3> QED BY <1>1, <1>8, <3>1, <3>2 DEF Ends
    <2> QED BY <2>1, <2>2
  <1> QED BY <1>1, <1>7, <1>8 DEF u

\* Texts that say the same can be put one after the other.
LEMMA SaysBoth ==
  ASSUME table.kind \in {"huggingface", "tiktoken", "bert"},
         NEW b, NEW s, Says(b, s), NEW c, NEW t, Says(c, t)
  PROVE  Says(b \o c, s \o t)
  <1>1. /\ b \o c \in Seq(0..255) /\ Core(b \o c) = Core(b) \o Core(c) /\ Ends(b \o c)
        /\ s \o t \in Seq(0..255) /\ Core(s \o t) = Core(s) \o Core(t) /\ Ends(s \o t)
    BY CoreOfTwo, ZenonT(60) DEF Says
  <1> QED BY <1>1 DEF Says

LEMMA SaysItself == ASSUME NEW s \in Seq(0..255), Ends(s) PROVE Says(s, s)
  BY DEF Says

LEMMA SaysNothing == Says(<<>>, <<>>)
  BY DEF Says, Ends

-----------------------------------------------------------------------------
(* Ids and the text they stand for.                                           *)

\* The place of a piece in the vocabulary, or -1.
LEMMA IdIs ==
  ASSUME TableOK, NEW piece
  PROVE  /\ Id(piece) = -1 \/ (Id(piece) \in Nat /\ Id(piece) < Len(table.vocab)
                               /\ table.vocab[Id(piece) + 1] = piece)
         /\ InVocab(table, piece) => Id(piece) \in Nat
  <1> DEFINE v == table.vocab
             at == {k \in 1..Len(v) : v[k] = piece}
             c == CHOOSE k \in at : \A l \in at : k <= l
  <1>1. Len(v) \in Nat /\ DOMAIN v = 1..Len(v)
    BY LenProperties DEF TableOK
  <1>2. Id(piece) = IF at = {} THEN -1 ELSE c - 1
    BY Zenon DEF Id
  <1>3. at # {} => c \in 1..Len(v) /\ v[c] = piece
    <2> SUFFICES ASSUME at # {} PROVE c \in at
      OBVIOUS
    <2>1. at \subseteq Nat
      OBVIOUS
    <2>2. \E k \in at : \A l \in at : k <= l
      <3> HIDE DEF at
      <3> QED BY <2>1, LeastNat
    <2> HIDE DEF at
    <2> QED BY <2>2, Zenon
  <1>4. InVocab(table, piece) => at # {}
    BY <1>1 DEF InVocab
  <1> HIDE DEF at, c
  <1>5. CASE at = {}
    BY <1>2, <1>4, <1>5
  <1>6. CASE at # {}
    <2>1. Id(piece) = c - 1 /\ c \in 1..Len(v) /\ v[c] = piece
      BY <1>2, <1>3, <1>6
    <2> HIDE DEF v
    <2>2. Id(piece) \in Nat /\ Id(piece) < Len(v) /\ Id(piece) + 1 = c
      BY <1>1, <2>1
    <2> QED BY <2>1, <2>2 DEF v
  <1> QED BY <1>5, <1>6

\* The text of an id is bytes.
LEMMA DecodeType ==
  ASSUME TableOK, NEW id \in Nat
  PROVE  Decode(id) \in Seq(0..255) /\ Unsharped(Decode(id)) \in Seq(0..255)
  <1> DEFINE v == table.vocab
  <1>1. Len(v) \in Nat /\ (id < Len(v) => id + 1 \in 1..Len(v))
    BY LenProperties DEF TableOK
  <1>2. CASE ~(id < Len(v))
    <2>1. id >= Len(v)
      BY <1>1, <1>2
    <2> QED BY <2>1 DEF Decode, Unsharped
  <1>3. CASE id < Len(v) /\ table.kind # "huggingface"
    <2>1. v \in Seq(Seq(0..255))
      BY <1>3 DEF TableOK
    <2>2. v[id + 1] \in Seq(0..255)
      <3> HIDE DEF v
      <3> QED BY <1>1, <1>3, <2>1, ElementOfSeq
    <2>3. Decode(id) = v[id + 1]
      <3>1. ~(id >= Len(v))
        BY <1>1, <1>3
      <3> QED BY <1>3, <3>1 DEF Decode
    <2> DEFINE d == Decode(id)
    <2>4. d \in Seq(0..255)
      BY <2>2, <2>3
    <2> HIDE DEF d
    <2>5. Len(d) > 2 => SubSeq(d, 3, Len(d)) \in Seq(0..255)
      <3> SUFFICES ASSUME Len(d) > 2 PROVE SubSeq(d, 3, Len(d)) \in Seq(0..255)
        OBVIOUS
      <3>1. Len(d) \in Nat /\ 3 \in Nat /\ 1 <= 3 /\ 3 <= Len(d) + 1 /\ Len(d) <= Len(d)
        BY <2>4
      <3> QED BY <2>4, <3>1, PartFacts
    <2> QED BY <2>4, <2>5 DEF Unsharped, d
  <1>4. CASE id < Len(v) /\ table.kind = "huggingface"
    <2> DEFINE w == v[id + 1]
               parts == [k \in DOMAIN w |-> IF w[k] \in DOMAIN U2B THEN <<U2B[w[k]]>> ELSE <<>>]
    <2>1. w \in Seq(Nat)
      <3>1. v \in Seq(Seq(Nat))
        BY <1>4 DEF TableOK
      <3> HIDE DEF v
      <3> QED BY <1>1, <1>4, <3>1, ElementOfSeq
    <2>2. Decode(id) = FlattenSeq(parts)
      <3>1. ~(id >= Len(v))
        BY <1>1, <1>4
      <3> QED BY <1>4, <3>1, Zenon DEF Decode
    <2> HIDE DEF w
    <2>3. parts \in Seq(Seq(0..255))
      <3>1. DOMAIN w = 1..Len(w) /\ Len(w) \in Nat
        BY <2>1
      <3>2. \A k \in DOMAIN w : (IF w[k] \in DOMAIN U2B THEN <<U2B[w[k]]>> ELSE <<>>) \in Seq(0..255)
        <4> TAKE k \in DOMAIN w
        <4>1. CASE w[k] \in DOMAIN U2B
          <5>1. U2B[w[k]] \in 0..255
            BY <4>1, NarrowIs
          <5> DEFINE c == U2B[w[k]]
          <5>2. <<c>> \in Seq(0..255)
            <6> HIDE DEF c
            <6> QED BY <5>1 DEF c
          <5> QED BY <4>1, <5>2
        <4>2. CASE w[k] \notin DOMAIN U2B
          BY <4>2
        <4> QED BY <4>1, <4>2
      <3> QED BY <3>1, <3>2
    <2>4. FlattenSeq(parts) \in Seq(0..255)
      <3> HIDE DEF parts
      <3> QED BY <2>3, FlattenType
    <2> QED BY <1>4, <2>2, <2>4 DEF Unsharped
  <1> QED BY <1>2, <1>3, <1>4

\* Back is spelling piece by piece.
\* The text of ids is that of each, one after the other.
LEMMA BackIs ==
  ASSUME TableOK
  PROVE  \E back : /\ PartByPart(back, Nat, 0..255)
                   /\ \A x \in Seq(Nat) : back[x] = Back(x)
                   /\ \A id \in Nat : back[<<id>>] = Unsharped(Decode(id))
  <1> DEFINE F == [id \in Nat |-> Unsharped(Decode(id))]
             back == EachSpelt(F, Nat)
  <1>1. F \in [Nat -> Seq(0..255)] /\ \A id \in Nat : F[id] = Unsharped(Decode(id))
    BY DecodeType
  <1>2. ASSUME NEW x \in Seq(Nat) PROVE back[x] = Back(x)
    <2>1. [k \in DOMAIN x |-> F[x[k]]] = [k \in DOMAIN x |-> Unsharped(Decode(x[k]))]
      <3>1. \A k \in DOMAIN x : x[k] \in Nat
        BY LenProperties, ElementOfSeq
      <3> HIDE DEF F
      <3> QED BY <1>1, <3>1
    <2>2. back[x] = FlattenSeq([k \in DOMAIN x |-> F[x[k]]])
      <3> HIDE DEF F
      <3> QED BY DEF EachSpelt
    <2> HIDE DEF F
    <2> QED BY <2>1, <2>2, Zenon DEF Back
  <1> HIDE DEF F
  <1>3. PartByPart(back, Nat, 0..255) /\ \A id \in Nat : back[<<id>>] = F[id]
    BY <1>1, EachIsSpelt, ZenonT(60)
  <1> HIDE DEF back
  <1> QED BY <1>1, <1>2, <1>3

\* The longest fit is one.
\* A longest one exists.
LEMMA LongestIs ==
  ASSUME NEW F, NEW b \in Nat, F \subseteq 1..b, F # {}
  PROVE  (CHOOSE n \in F : \A k \in F : k <= n) \in F
  <1>1. F \subseteq 0..b
    OBVIOUS
  <1>2. \E n \in F : \A k \in F : k <= n
    BY <1>1, GreatestNat
  <1> QED BY <1>2, Zenon

-----------------------------------------------------------------------------
(* Tiktoken: piece by piece the text, with a piece for every byte.            *)

Fits(s, p) == {n \in 1..(Len(s) - p + 1) : Id(SubSeq(s, p, p + n - 1)) >= 0}
Longest(s, p) == CHOOSE n \in Fits(s, p) : \A k \in Fits(s, p) : k <= n

IsTiktoken(f, s) ==
  f = [p \in 1..(Len(s) + 1) |->
         IF Fits(s, p) = {} THEN <<>>
         ELSE <<Id(SubSeq(s, p, p + Longest(s, p) - 1))>> \o f[p + Longest(s, p)]]

\* With a piece for every byte, some piece fits at every place.
LEMMA TiktokenFits ==
  ASSUME TableOK, NEW s \in Seq(0..255), \A p \in DOMAIN s : InVocab(table, <<s[p]>>)
  PROVE  /\ Fits(s, Len(s) + 1) = {}
         /\ \A p \in 1..Len(s) :
              /\ Fits(s, p) # {} /\ Longest(s, p) \in 1..(Len(s) - p + 1)
              /\ Id(SubSeq(s, p, p + Longest(s, p) - 1)) \in Nat
  <1> DEFINE l == Len(s)
  <1>1. l \in Nat /\ DOMAIN s = 1..l
    OBVIOUS
  <1>2. Fits(s, l + 1) = {}
    BY <1>1 DEF Fits
  <1>3. ASSUME NEW p \in 1..l
        PROVE  /\ Fits(s, p) # {} /\ Longest(s, p) \in 1..(l - p + 1)
               /\ Id(SubSeq(s, p, p + Longest(s, p) - 1)) \in Nat
    <2>1. 1 \in 1..(l - p + 1) /\ p + 1 - 1 = p /\ l - p + 1 \in Nat
      BY <1>1
    <2>2. SubSeq(s, p, p) = <<s[p]>>
      BY PartOfOne
    <2>3. Id(<<s[p]>>) \in Nat
      <3>1. InVocab(table, <<s[p]>>)
        BY <1>1
      <3> QED BY <3>1, IdIs
    <2>4. 1 \in Fits(s, p)
      <3>1. Id(SubSeq(s, p, p + 1 - 1)) >= 0
        <4>1. Id(SubSeq(s, p, p)) >= 0
          <5> DEFINE d == Id(<<s[p]>>)
          <5>1. d \in Nat /\ Id(SubSeq(s, p, p)) = d
            BY <2>2, <2>3
          <5> HIDE DEF d
          <5> QED BY <5>1
        <4>2. p + 1 - 1 = p
          BY <2>1
        <4> QED BY <4>1, <4>2, Zenon
      <3> QED BY <2>1, <3>1, Zenon DEF Fits, l
    <2>5. Fits(s, p) \subseteq 1..(l - p + 1)
      BY DEF Fits
    <2>6. Longest(s, p) \in Fits(s, p)
      BY <2>1, <2>4, <2>5, LongestIs DEF Longest
    <2>7. Id(SubSeq(s, p, p + Longest(s, p) - 1)) >= 0
      BY <2>6 DEF Fits
    <2>8. Id(SubSeq(s, p, p + Longest(s, p) - 1)) \in Nat
      BY <2>7, IdIs
    <2> QED BY <2>4, <2>5, <2>6, <2>8
  <1> QED BY <1>2, <1>3

\* Tiktoken, from a place on.
LEMMA TiktokenFrom ==
  ASSUME TableOK, NEW s \in Seq(0..255), \A p \in DOMAIN s : InVocab(table, <<s[p]>>)
  PROVE  \E g : /\ Tiktoken(s) = g[1]
                /\ \A p \in 1..(Len(s) + 1) :
                     g[p] = IF p > Len(s) THEN <<>>
                            ELSE <<Id(SubSeq(s, p, p + Longest(s, p) - 1))>> \o g[p + Longest(s, p)]
  <1> DEFINE l == Len(s)
             val == [p \in 1..l |-> <<Id(SubSeq(s, p, p + Longest(s, p) - 1))>>]
             nxt == [p \in 1..l |-> p + Longest(s, p)]
  <1>1. l \in Nat
    OBVIOUS
  <1>2. \A p \in 1..l : val[p] = <<Id(SubSeq(s, p, p + Longest(s, p) - 1))>> /\ nxt[p] = p + Longest(s, p)
    OBVIOUS
  <1>3. \A p \in 1..(l + 1) : Fits(s, p) = {} <=> p > l
    <2>1. \A p \in 1..(l + 1) : p > l => p = l + 1
      BY <1>1
    <2>2. \A p \in 1..(l + 1) : ~(p > l) => p \in 1..l
      BY <1>1
    <2> QED BY <2>1, <2>2, TiktokenFits
  <1> HIDE DEF val, nxt
  <1>4. ASSUME NEW p \in 1..l PROVE nxt[p] \in (p + 1)..(l + 1)
    <2> DEFINE n == Longest(s, p)
    <2>1. n \in 1..(l - p + 1) /\ nxt[p] = p + n
      BY <1>2, TiktokenFits
    <2> HIDE DEF n
    <2> QED BY <1>1, <2>1
  <1>5. PICK f : FromPlace(f, val, nxt, l, 1)
    BY <1>1, <1>4, DownRecursion
  <1>6. IsTiktoken(f, s)
    <2>1. f = [p \in 1..(l + 1) |-> IF p > l THEN <<>> ELSE val[p] \o f[nxt[p]]]
      BY <1>5, Zenon DEF FromPlace
    <2>2. ASSUME NEW p \in 1..(l + 1)
          PROVE  (IF p > l THEN <<>> ELSE val[p] \o f[nxt[p]])
                   = IF Fits(s, p) = {} THEN <<>>
                     ELSE <<Id(SubSeq(s, p, p + Longest(s, p) - 1))>> \o f[p + Longest(s, p)]
      <3>1. ~(p > l) => p \in 1..l
        BY <1>1
      <3> HIDE DEF l
      <3> QED BY <1>2, <1>3, <3>1, Zenon
    <2> QED BY <2>1, <2>2, Zenon DEF IsTiktoken, l
  <1> DEFINE g == CHOOSE h : IsTiktoken(h, s)
  <1>7. Tiktoken(s) = g[1]
    BY Zenon DEF Tiktoken, IsTiktoken, Fits, Longest
  <1>8. IsTiktoken(g, s)
    BY <1>6, Zenon
  <1> HIDE DEF g
  <1>9. ASSUME NEW p \in 1..(l + 1)
        PROVE  g[p] = IF p > l THEN <<>>
                      ELSE <<Id(SubSeq(s, p, p + Longest(s, p) - 1))>> \o g[p + Longest(s, p)]
    <2>1. g[p] = IF Fits(s, p) = {} THEN <<>>
                 ELSE <<Id(SubSeq(s, p, p + Longest(s, p) - 1))>> \o g[p + Longest(s, p)]
      BY <1>8, Zenon DEF IsTiktoken, l
    <2> HIDE DEF l
    <2> QED BY <1>3, <2>1, Zenon
  <1> QED BY <1>7, <1>9, Zenon

\* Tiktoken gives back the text.
LEMMA TiktokenSays ==
  ASSUME TableOK, table.kind = "tiktoken", NEW s \in Seq(0..255),
         \A p \in DOMAIN s : InVocab(table, <<s[p]>>)
  PROVE  Tiktoken(s) \in Seq(Nat) /\ Back(Tiktoken(s)) = s
  <1> DEFINE l == Len(s)
  <1>1. l \in Nat
    OBVIOUS
  <1>2. PICK g : /\ Tiktoken(s) = g[1]
                 /\ \A p \in 1..(l + 1) :
                      g[p] = IF p > l THEN <<>>
                             ELSE <<Id(SubSeq(s, p, p + Longest(s, p) - 1))>> \o g[p + Longest(s, p)]
    BY TiktokenFrom
  <1>3. PICK back : /\ PartByPart(back, Nat, 0..255)
                    /\ \A x \in Seq(Nat) : back[x] = Back(x)
                    /\ \A id \in Nat : back[<<id>>] = Unsharped(Decode(id))
    BY BackIs
  <1> DEFINE T == {p \in 1..(l + 1) : g[p] \in Seq(Nat) /\ back[g[p]] = SubSeq(s, p, l)}
  <1>4. ASSUME NEW p \in 1..(l + 1), \A q \in (p + 1)..(l + 1) : q \in T PROVE p \in T
    <2>1. CASE p > l
      <3>1. g[p] = <<>> /\ p = l + 1
        <4>1. p = l + 1
          BY <1>1, <2>1
        <4> QED BY <1>2, <2>1, <4>1, Zenon
      <3>2. SubSeq(s, p, l) = <<>>
        BY <1>1, <3>1
      <3>3. <<>> \in Seq(Nat) /\ back[<<>>] = <<>>
        BY <1>3 DEF PartByPart
      <3> QED BY <3>1, <3>2, <3>3
    <2>2. CASE ~(p > l)
      <3> DEFINE n == Longest(s, p)
                 w == SubSeq(s, p, p + n - 1)
                 id == Id(w)
      <3>1. p \in 1..l
        BY <1>1, <2>2
      <3>2. n \in 1..(l - p + 1) /\ id \in Nat /\ g[p] = <<id>> \o g[p + n]
        BY <1>2, <2>2, <3>1, TiktokenFits
      <3> HIDE DEF n
      <3>3. p + n \in (p + 1)..(l + 1) /\ p + n - 1 \in Nat /\ p <= p + n /\ p + n - 1 <= l /\ p + n - 1 + 1 = p + n
            /\ p \in Nat /\ 1 <= p
        BY <1>1, <3>1, <3>2
      <3>4. g[p + n] \in Seq(Nat) /\ back[g[p + n]] = SubSeq(s, p + n, l)
        BY <1>4, <3>3
      <3>5. <<id>> \in Seq(Nat) /\ <<id>> \o g[p + n] \in Seq(Nat)
        BY <3>2, <3>4, ConcatProperties
      <3>6. back[<<id>> \o g[p + n]] = back[<<id>>] \o back[g[p + n]]
        BY <1>3, <3>4, <3>5 DEF PartByPart
      <3>7. back[<<id>>] = w
        <4>1. id < Len(table.vocab) /\ table.vocab[id + 1] = w
          <5>1. id = -1 \/ (id < Len(table.vocab) /\ table.vocab[id + 1] = w)
            BY IdIs
          <5>2. id # -1
            <6> HIDE DEF id
            <6> QED BY <3>2
          <5> QED BY <5>1, <5>2
        <4>2. ~(id >= Len(table.vocab))
          <5>1. Len(table.vocab) \in Nat
            BY DEF TableOK
          <5> HIDE DEF id
          <5> QED BY <3>2, <4>1, <5>1
        <4>3. Decode(id) = w
          BY <4>1, <4>2, Zenon DEF Decode
        <4>4. Unsharped(w) = w
          BY DEF Unsharped
        <4> HIDE DEF id, w
        <4> QED BY <1>3, <3>2, <4>3, <4>4
      <3>8. w \o SubSeq(s, p + n, l) = SubSeq(s, p, l)
        <4> DEFINE b == p + n - 1
        <4>1. b \in Nat /\ p <= b + 1 /\ b <= l /\ b + 1 = p + n /\ l <= Len(s)
          BY <3>3
        <4> HIDE DEF b
        <4>2. SubSeq(s, p, b) \o SubSeq(s, b + 1, l) = SubSeq(s, p, l)
          BY <1>1, <3>3, <4>1, PartsJoin
        <4> QED BY <4>1, <4>2 DEF b
      <3> QED BY <3>2, <3>4, <3>5, <3>6, <3>7, <3>8
    <2> QED BY <2>1, <2>2
  <1>5. 1 \in T
    <2>1. 1..(l + 1) \subseteq T
      <3> HIDE DEF T
      <3> QED BY <1>1, <1>4, DownInduction
    <2>2. 1 \in 1..(l + 1)
      BY <1>1
    <2> QED BY <2>1, <2>2
  <1>6. SubSeq(s, 1, l) = s
    OBVIOUS
  <1> QED BY <1>2, <1>3, <1>5, <1>6

-----------------------------------------------------------------------------
(* Huggingface: the words say the text but "_", and the pieces of a word it.  *)

\* The regular expression matches everywhere but at "_".
LEMMA WordLengthOfNone ==
  ASSUME NEW s \in Seq(0..255), s # <<>>, WordLength(s) = 0 PROVE s[1] = 95
  <1> DEFINE short == {c \in Contractions : IsPrefix(c, s)}
             gap == IF s[1] = 32 THEN 1 ELSE 0
             rest == SubSeq(s, gap + 1, Len(s))
             l == Len(s)
  <1>1. l \in Nat /\ l # 0 /\ s[1] \in 0..255
    <2>1. l \in Nat
      OBVIOUS
    <2>2. l # 0
      BY EmptySeq
    <2>3. 1 \in 1..Len(s)
      BY <2>1, <2>2
    <2> QED BY <2>1, <2>2, <2>3, ElementOfSeq
  <1>2. WordLength(s) =
          IF short # {} THEN Len(CHOOSE c \in short : TRUE)
          ELSE IF rest # <<>> /\ Class(rest[1]) \in {"alpha", "digit", "other"}
               THEN gap + RunOf(rest, Class(rest[1]))
          ELSE RunOf(s, "space")
    BY Zenon DEF WordLength
  <1>3. short = {}
    <2> SUFFICES ASSUME short # {} PROVE FALSE
      OBVIOUS
    <2>1. (CHOOSE c \in short : TRUE) \in short
      <3> HIDE DEF short
      <3> QED BY Zenon
    <2>2. \A c \in Contractions : Len(c) # 0
      <3>1. /\ Len(<<39, 115>>) = 2 /\ Len(<<39, 116>>) = 2 /\ Len(<<39, 109>>) = 2 /\ Len(<<39, 100>>) = 2
            /\ Len(<<39, 114, 101>>) = 3 /\ Len(<<39, 118, 101>>) = 3 /\ Len(<<39, 108, 108>>) = 3
        OBVIOUS
      <3>2. ASSUME NEW c \in Contractions PROVE Len(c) = 2 \/ Len(c) = 3
        <4>1. \/ c = <<39, 115>> \/ c = <<39, 116>> \/ c = <<39, 109>> \/ c = <<39, 100>>
              \/ c = <<39, 114, 101>> \/ c = <<39, 118, 101>> \/ c = <<39, 108, 108>>
          BY Zenon DEF Contractions
        <4> QED BY <3>1, <4>1, Zenon
      <3> HIDE DEF short
      <3>3. 2 # 0 /\ 3 # 0
        OBVIOUS
      <3> QED BY <3>2, <3>3, Zenon
    <2>3. \A c \in short : Len(c) # 0
      BY <2>2
    <2> HIDE DEF short
    <2> QED BY <1>2, <2>1, <2>3
  <1>4. gap \in 0..1
    OBVIOUS
  <1>5. rest \in Seq(0..255)
    <2> DEFINE a == gap + 1
    <2>1. a \in Nat /\ 1 <= a /\ a <= l + 1 /\ l <= Len(s)
      BY <1>1, <1>4
    <2> HIDE DEF a, l
    <2>2. SubSeq(s, a, l) \in Seq(0..255)
      <3>1. l \in Nat
        BY <1>1
      <3> QED BY <2>1, <3>1, PartFacts, ZenonT(60)
    <2> QED BY <2>2 DEF a, l
  <1>6. ~(rest # <<>> /\ Class(rest[1]) \in {"alpha", "digit", "other"})
    <2> SUFFICES ASSUME rest # <<>>, Class(rest[1]) \in {"alpha", "digit", "other"} PROVE FALSE
      OBVIOUS
    <2> DEFINE r == RunOf(rest, Class(rest[1]))
    <2>1. gap + r = 0
      BY <1>2, <1>3
    <2>2. r \in 0..Len(rest) /\ r # 0
      <3> HIDE DEF rest
      <3> QED BY <1>5, RunOfType
    <2>3. Len(rest) \in Nat
      <3> HIDE DEF rest
      <3> QED BY <1>5
    <2> HIDE DEF r, gap, rest
    <2> QED BY <1>4, <2>1, <2>2, <2>3
  <1>7. Class(s[1]) # "space"
    <2>1. RunOf(s, "space") = 0
      BY <1>2, <1>3, <1>6, Zenon
    <2> QED BY <2>1, RunOfType
  <1>8. rest = s
    <2>1. gap = 0
      BY <1>7 DEF Class
    <2>2. gap + 1 = 1
      BY <2>1
    <2> HIDE DEF gap
    <2> QED BY <2>2
  <1>9. Class(s[1]) \notin {"alpha", "digit", "other"}
    BY <1>6, <1>8
  <1> QED BY <1>1, <1>7, <1>9 DEF Class

\* A match ends within the text.
LEMMA WordSize ==
  ASSUME NEW s \in Seq(0..255), NEW p \in 1..Len(s)
  PROVE  /\ WordLength(SubSeq(s, p, Len(s))) \in 0..(Len(s) - p + 1)
         /\ WordLength(SubSeq(s, p, Len(s))) = 0 => s[p] = 95
  <1> DEFINE l == Len(s)
             t == SubSeq(s, p, l)
  <1>1. l \in Nat /\ p \in Nat /\ 1 <= p /\ p <= l + 1 /\ l <= Len(s) /\ l - p + 1 \in Nat /\ l - p + 1 # 0
        /\ 1 \in 1..(l - p + 1) /\ p + 1 - 1 = p
    OBVIOUS
  <1>2. t \in Seq(0..255) /\ Len(t) = l - p + 1 /\ \A k \in 1..(l - p + 1) : t[k] = s[p + k - 1]
    <2> HIDE DEF l
    <2>1. l \in Nat /\ p \in Nat /\ 1 <= p /\ p <= l + 1 /\ l <= Len(s)
      BY <1>1
    <2> QED BY <2>1, PartFacts, ZenonT(60)
  <1> HIDE DEF t, l
  <1>3. t # <<>> /\ t[1] = s[p]
    <2>1. Len(t) # 0
      BY <1>1, <1>2
    <2>2. t[1] = s[p + 1 - 1]
      BY <1>1, <1>2
    <2> QED BY <1>1, <2>1, <2>2
  <1>4. WordLength(t) \in 0..Len(t) /\ (WordLength(t) = 0 => t[1] = 95)
    BY <1>2, <1>3, WordLengthType, WordLengthOfNone
  <1> QED BY <1>2, <1>3, <1>4 DEF t, l

\* The words of a text have all of it but "_".
LEMMA WordsSay ==
  ASSUME table.kind = "huggingface", NEW s \in Seq(0..255)
  PROVE  Says(FlattenSeq(Words(s)), s)
  <1> DEFINE l == Len(s)
             Size(p) == WordLength(SubSeq(s, p, l))
             X == Seq(Runs(0..255))
  <1>1. l \in Nat /\ l <= Len(s) /\ table.kind \in {"huggingface", "tiktoken", "bert"}
    OBVIOUS
  <1>2. PICK g : /\ Words(s) = g[1]
                 /\ \A p \in 1..(l + 1) :
                      /\ g[p] \in X
                      /\ g[p] = IF p > l THEN <<>>
                                ELSE IF Size(p) = 0 THEN g[p + 1]
                                ELSE <<SubSeq(s, p, p + Size(p) - 1)>> \o g[p + Size(p)]
    BY WordsFrom
  <1>3. \A p \in 1..l : Size(p) \in 0..(l - p + 1) /\ (Size(p) = 0 => s[p] = 95)
    BY WordSize
  <1>4. \A x \in X : FlattenSeq(x) \in Seq(0..255) /\ x \in Seq(Seq(0..255))
    <2>1. \A x \in X : x \in Seq(Seq(0..255))
      <3>1. Runs(0..255) \subseteq Seq(0..255)
        BY DEF Runs
      <3> QED BY <3>1, SeqMonotonic
    <2> HIDE DEF X
    <2> QED BY <2>1, FlattenType
  <1>5. \A x : Ends(x)
    BY DEF Ends
  <1> HIDE DEF l, Size, X
  <1> DEFINE T == {p \in 1..(l + 1) : Says(FlattenSeq(g[p]), SubSeq(s, p, l))}
  <1>6. ASSUME NEW p \in 1..(l + 1), \A q \in (p + 1)..(l + 1) : q \in T PROVE p \in T
    <2>1. CASE p > l
      <3>1. g[p] = <<>>
        BY <1>2, <2>1
      <3>2. SubSeq(s, p, l) = <<>>
        BY <1>1, <2>1, SubSeqEmpty
      <3>3. FlattenSeq(g[p]) = <<>>
        BY <3>1, FlattenOfNone
      <3> QED BY <3>2, <3>3, SaysNothing
    <2>2. CASE ~(p > l) /\ Size(p) = 0
      <3>1. p \in 1..l /\ p + 1 \in (p + 1)..(l + 1) /\ p \in Nat /\ 1 <= p /\ p <= p + 1 /\ p <= l
        BY <1>1, <2>2
      <3>2. g[p] = g[p + 1]
        BY <1>2, <2>2
      <3>3. Says(FlattenSeq(g[p + 1]), SubSeq(s, p + 1, l))
        BY <1>6, <3>1
      <3>4. SubSeq(s, p, l) = <<s[p]>> \o SubSeq(s, p + 1, l)
        <4>1. p \in 1..Len(s) /\ l \in p..Len(s)
          BY <1>1, <3>1 DEF l
        <4> QED BY <4>1, SubSeqRecursiveFirst
      <3>5. Says(<<>>, <<s[p]>>)
        <4>1. s[p] = 95
          BY <1>3, <2>2, <3>1
        <4>2. Says(<<>>, <<95>>)
          <5>1. Core(<<95>>) = <<>> /\ Core(<<>>) = <<>>
            <6>1. CoreParts(<<95>>) = <<<<>>>> /\ Core(<<95>>) = FlattenSeq(CoreParts(<<95>>))
              BY DEF CoreParts, Kept, Core
            <6>2. CoreParts(<<>>) = <<>> /\ Core(<<>>) = FlattenSeq(CoreParts(<<>>))
              BY DEF CoreParts, Core
            <6>3. FlattenSeq(<<<<>>>>) = <<>>
              <7>1. <<>> \in Seq(Nat)
                OBVIOUS
              <7> QED BY <7>1, FlattenOfOne
            <6> QED BY <6>1, <6>2, <6>3, FlattenOfNone
          <5> QED BY <1>5, <5>1 DEF Says
        <4> QED BY <4>1, <4>2
      <3>6. Says(<<>> \o FlattenSeq(g[p + 1]), SubSeq(s, p, l))
        BY <1>1, <3>3, <3>4, <3>5, SaysBoth
      <3>7. <<>> \o FlattenSeq(g[p + 1]) = FlattenSeq(g[p + 1])
        <4>1. p + 1 \in 1..(l + 1)
          BY <1>1, <3>1
        <4> QED BY <1>2, <1>4, <4>1, ConcatEmptySeq
      <3> QED BY <3>2, <3>6, <3>7
    <2>3. CASE ~(p > l) /\ Size(p) # 0
      <3> DEFINE n == Size(p)
                 b == p + n - 1
                 w == SubSeq(s, p, b)
      <3>1. p \in 1..l /\ n \in 1..(l - p + 1)
        BY <1>1, <1>3, <2>3
      <3>2. g[p] = <<w>> \o g[p + n]
        BY <1>2, <2>3
      <3> HIDE DEF n
      <3>3. /\ p \in Nat /\ 1 <= p /\ b \in Nat /\ p <= b + 1 /\ b <= l /\ b + 1 = p + n /\ b <= Len(s)
            /\ p + n \in (p + 1)..(l + 1) /\ p + n \in 1..(l + 1) /\ b - p + 1 # 0
        BY <1>1, <3>1
      <3> HIDE DEF b
      <3>4. w \in Seq(0..255)
        BY <3>3, PartFacts
      <3>5. Says(w, w)
        BY <1>5, <3>4, SaysItself
      <3>6. Says(FlattenSeq(g[p + n]), SubSeq(s, p + n, l))
        BY <1>6, <3>3
      <3>7. Says(w \o FlattenSeq(g[p + n]), w \o SubSeq(s, p + n, l))
        BY <1>1, <3>5, <3>6, SaysBoth
      <3>8. w \o SubSeq(s, b + 1, l) = SubSeq(s, p, l)
        BY <1>1, <3>3, PartsJoin
      <3>9. FlattenSeq(<<w>> \o g[p + n]) = w \o FlattenSeq(g[p + n])
        <4>1. <<w>> \in Seq(Seq(0..255))
          BY <3>4
        <4>3. g[p + n] \in Seq(Seq(0..255))
          BY <1>2, <1>4, <3>3
        <4>2. FlattenSeq(<<w>>) = w
          BY <3>4, FlattenOfOne
        <4> QED BY <4>1, <4>2, <4>3, FlattenOfTwo, ZenonT(60)
      <3> QED BY <3>2, <3>3, <3>7, <3>8, <3>9
    <2> QED BY <2>1, <2>2, <2>3
  <1>7. 1 \in T
    <2>1. 1..(l + 1) \subseteq T
      <3> HIDE DEF T
      <3> QED BY <1>1, <1>6, DownInduction
    <2>2. 1 \in 1..(l + 1)
      BY <1>1
    <2> QED BY <2>1, <2>2
  <1>8. SubSeq(s, 1, l) = s
    BY DEF l
  <1> QED BY <1>2, <1>7, <1>8

\* bpe cuts a word into pieces.
LEMMA BpeCuts ==
  ASSUME RulesOK, NEW word \in Runs(Nat)
  PROVE  Bpe(word) \in Seq(Runs(Nat)) /\ FlattenSeq(Bpe(word)) = word
  <1>1. PICK F \in [0..(Len(word) - 1) -> Seq(Runs(Nat))] : IsRounds(F, word)
    BY RoundsExist
  <1>2. Bpe(word) = F[Len(word) - 1]
    BY <1>1, BpeIs
  <1> DEFINE n == Len(word) - 1
  <1>3. n \in Nat
    BY <1>1, RoundsFacts
  <1>4. n \in 0..n
    BY <1>3
  <1> QED BY <1>1, <1>2, <1>4, RoundsFacts

Narrow(x) == FlattenSeq([k \in DOMAIN x |-> IF x[k] \in DOMAIN U2B THEN <<U2B[x[k]]>> ELSE <<>>])

\* Back to bytes, and a word in wide characters is the word again.
IsNarrow(narrow) ==
  /\ PartByPart(narrow, Nat, 0..255)
  /\ \A x \in Seq(Nat) : narrow[x] = Narrow(x)
  /\ \A w \in Runs(0..255) : narrow[Wide(w)] = w

\* Some function gives the bytes of wide characters.
LEMMA NarrowOfWide == \E narrow : IsNarrow(narrow)
  <1> DEFINE F == [c \in Nat |-> IF c \in DOMAIN U2B THEN <<U2B[c]>> ELSE <<>>]
             narrow == EachSpelt(F, Nat)
  <1>1. ASSUME NEW c \in Nat PROVE (IF c \in DOMAIN U2B THEN <<U2B[c]>> ELSE <<>>) \in Seq(0..255)
    <2>1. CASE c \in DOMAIN U2B
      <3>1. U2B[c] \in 0..255
        BY <2>1, NarrowIs
      <3> DEFINE b == U2B[c]
      <3>2. <<b>> \in Seq(0..255)
        <4> HIDE DEF b
        <4> QED BY <3>1 DEF b
      <3> QED BY <2>1, <3>2
    <2>2. CASE c \notin DOMAIN U2B
      BY <2>2
    <2> QED BY <2>1, <2>2
  <1>2. F \in [Nat -> Seq(0..255)]
    BY <1>1
  <1>3. \A c \in Nat : F[c] = IF c \in DOMAIN U2B THEN <<U2B[c]>> ELSE <<>>
    OBVIOUS
  <1> HIDE DEF F
  <1>4. PartByPart(narrow, Nat, 0..255) /\ \A c \in Nat : narrow[<<c>>] = F[c]
    BY <1>2, EachIsSpelt, ZenonT(60)
  <1>5. ASSUME NEW x \in Seq(Nat) PROVE narrow[x] = Narrow(x)
    <2>1. \A k \in DOMAIN x : x[k] \in Nat
      BY LenProperties, ElementOfSeq
    <2>2. [k \in DOMAIN x |-> F[x[k]]]
            = [k \in DOMAIN x |-> IF x[k] \in DOMAIN U2B THEN <<U2B[x[k]]>> ELSE <<>>]
      BY <1>3, <2>1
    <2>3. narrow[x] = FlattenSeq([k \in DOMAIN x |-> F[x[k]]])
      BY DEF EachSpelt
    <2> HIDE DEF narrow
    <2> QED BY <2>2, <2>3, Zenon DEF Narrow
  <1> HIDE DEF narrow
  <1>6. ASSUME NEW w \in Runs(0..255) PROVE narrow[Wide(w)] = w
    <2> DEFINE ws == Singles(Wide(w))
               ss == Singles(w)
    <2>1. /\ w \in Seq(0..255) /\ Wide(w) \in Seq(Nat) /\ Len(Wide(w)) = Len(w) /\ Len(w) \in Nat
          /\ \A l \in 1..Len(w) : Wide(w)[l] = B2U[w[l]] /\ w[l] \in 0..255
      BY WideType DEF Runs
    <2>2. ws \in Seq(Runs(Nat)) /\ Len(ws) = Len(w) /\ FlattenSeq(ws) = Wide(w)
      BY <2>1, SinglesFacts
    <2>3. ss \in Seq(Runs(0..255)) /\ Len(ss) = Len(w) /\ FlattenSeq(ss) = w
      BY <2>1, SinglesFacts
    <2>4. \A l \in 1..Len(w) : ws[l] = <<B2U[w[l]]>> /\ ss[l] = <<w[l]>>
      BY <2>1 DEF Singles
    <2> HIDE DEF ws, ss
    <2>5. ws \in Seq(Seq(Nat)) /\ ss \in Seq(Seq(0..255))
      <3>1. Runs(Nat) \subseteq Seq(Nat) /\ Runs(0..255) \subseteq Seq(0..255)
        BY DEF Runs
      <3> QED BY <2>2, <2>3, <3>1, SeqMonotonic
    <2>6. ASSUME NEW k \in DOMAIN ss PROVE narrow[ws[k]] = ss[k]
      <3>1. k \in 1..Len(w)
        BY <2>3
      <3>2. w[k] \in 0..255 /\ B2U[w[k]] \in Nat /\ B2U[w[k]] \in DOMAIN U2B /\ U2B[B2U[w[k]]] = w[k]
        BY <2>1, <3>1, WideIsNat, NarrowIs
      <3>3. narrow[<<B2U[w[k]]>>] = F[B2U[w[k]]]
        BY <1>4, <3>2, Zenon
      <3>4. F[B2U[w[k]]] = <<w[k]>>
        BY <1>3, <3>2
      <3> QED BY <2>4, <3>1, <3>3, <3>4, Zenon
    <2>7. Len(ws) = Len(ss)
      BY <2>2, <2>3
    <2>8. narrow[FlattenSeq(ws)] = FlattenSeq(ss)
      <3> DEFINE A == Nat
                 B == 0..255
      <3>1. PartByPart(narrow, A, B) /\ ws \in Seq(Seq(A)) /\ ss \in Seq(Seq(B))
        BY <1>4, <2>5
      <3> HIDE DEF A, B
      <3> QED BY <2>6, <2>7, <3>1, FlattenOfFlat, ZenonT(60)
    <2> QED BY <2>2, <2>3, <2>8
  <1> QED BY <1>4, <1>5, <1>6, Zenon DEF IsNarrow

\* The pieces of a text spell its words.
LEMMA HfPiecesSay ==
  ASSUME RulesOK, NEW s \in Seq(0..255), NEW narrow, IsNarrow(narrow)
  PROVE  /\ HfPieces(s) \in Seq(Seq(Nat))
         /\ EachSpelt(narrow, Seq(Nat))[HfPieces(s)] = FlattenSeq(Words(s))
  <1> DEFINE words == Words(s)
             pp == [k \in DOMAIN words |-> Bpe(Wide(words[k]))]
             spell == EachSpelt(narrow, Seq(Nat))
  <1>1. words \in Seq(Runs(0..255))
    BY WordsType
  <1>2. HfPieces(s) = FlattenSeq(pp)
    BY Zenon DEF HfPieces, Wide
  <1> HIDE DEF words
  <1>3. Len(words) \in Nat /\ DOMAIN words = 1..Len(words)
        /\ \A k \in 1..Len(words) : words[k] \in Runs(0..255)
    BY <1>1, LenProperties, ElementOfSeq
  <1>4. ASSUME NEW k \in 1..Len(words)
        PROVE  Bpe(Wide(words[k])) \in Seq(Seq(Nat)) /\ FlattenSeq(Bpe(Wide(words[k]))) = Wide(words[k])
    <2>1. Wide(words[k]) \in Runs(Nat)
      BY <1>3, WideType
    <2>2. Runs(Nat) \subseteq Seq(Nat)
      BY DEF Runs
    <2> QED BY <2>1, <2>2, BpeCuts, SeqMonotonic
  <1>5. pp \in Seq(Seq(Seq(Nat))) /\ Len(pp) = Len(words) /\ \A k \in 1..Len(words) : pp[k] = Bpe(Wide(words[k]))
    BY <1>3, <1>4
  <1> HIDE DEF pp
  <1>6. FlattenSeq(pp) \in Seq(Seq(Nat))
    BY <1>5, FlattenType
  <1>7. narrow \in [Seq(Nat) -> Seq(0..255)]
    BY DEF PartByPart, IsNarrow
  <1>8. PartByPart(spell, Seq(Nat), 0..255)
    BY <1>7, EachIsSpelt
  <1>9. ASSUME NEW k \in DOMAIN words PROVE spell[pp[k]] = words[k]
    <2> DEFINE q == pp[k]
               ss == [j \in DOMAIN q |-> narrow[q[j]]]
    <2>1. q \in Seq(Seq(Nat)) /\ FlattenSeq(q) = Wide(words[k]) /\ words[k] \in Runs(0..255)
      BY <1>3, <1>4, <1>5
    <2> HIDE DEF q
    <2>2. spell[q] = FlattenSeq(ss)
      BY <2>1 DEF EachSpelt
    <2>3. ss \in Seq(Seq(0..255)) /\ Len(q) = Len(ss) /\ \A j \in DOMAIN ss : narrow[q[j]] = ss[j]
      <3>1. DOMAIN q = 1..Len(q) /\ Len(q) \in Nat /\ \A j \in 1..Len(q) : q[j] \in Seq(Nat)
        BY <2>1, LenProperties, ElementOfSeq
      <3>2. \A j \in 1..Len(q) : narrow[q[j]] \in Seq(0..255)
        BY <1>7, <3>1
      <3> QED BY <3>1, <3>2
    <2> HIDE DEF ss
    <2>4. narrow[FlattenSeq(q)] = FlattenSeq(ss)
      <3> DEFINE A == Nat
                 B == 0..255
      <3>1. PartByPart(narrow, A, B) /\ q \in Seq(Seq(A)) /\ ss \in Seq(Seq(B))
        BY <2>1, <2>3 DEF IsNarrow
      <3>2. Len(q) = Len(ss)
        BY <2>3
      <3>3. \A j \in DOMAIN ss : narrow[q[j]] = ss[j]
        BY <2>3
      <3> HIDE DEF A, B, spell
      <3> QED BY <3>3, <3>2, <3>1, FlattenOfFlat, ZenonT(60)
    <2>5. narrow[Wide(words[k])] = words[k]
      BY <2>1 DEF IsNarrow
    <2> QED BY <2>1, <2>2, <2>4, <2>5 DEF q
  <1>10. words \in Seq(Seq(0..255))
    <2>1. Runs(0..255) \subseteq Seq(0..255)
      BY DEF Runs
    <2> QED BY <1>1, <2>1, SeqMonotonic
  <1> HIDE DEF spell
  <1>11. spell[FlattenSeq(pp)] = FlattenSeq(words)
    <2> DEFINE A == Seq(Nat)
               B == 0..255
    <2>1. PartByPart(spell, A, B) /\ pp \in Seq(Seq(A)) /\ words \in Seq(Seq(B))
      BY <1>5, <1>8, <1>10
    <2>2. Len(pp) = Len(words)
      BY <1>5
    <2> HIDE DEF A, B
    <2> QED BY <1>9, <2>2, <2>1, FlattenOfFlat, ZenonT(60)
  <1> QED BY <1>2, <1>6, <1>11 DEF spell, words

\* Huggingface gives back the text but "_", unless a piece has no id.
LEMMA HfSays ==
  ASSUME TableOK, table.kind = "huggingface", NEW s \in Seq(0..255)
  PROVE  /\ HfIds(s) \in Seq(Int)
         /\ (\A k \in DOMAIN HfIds(s) : HfIds(s)[k] # -1) =>
              HfIds(s) \in Seq(Nat) /\ Says(Back(HfIds(s)), s)
  <1>1. PICK narrow : IsNarrow(narrow)
    BY NarrowOfWide
  <1> DEFINE pieces == HfPieces(s)
             out == HfIds(s)
  <1>2. pieces \in Seq(Seq(Nat)) /\ EachSpelt(narrow, Seq(Nat))[pieces] = FlattenSeq(Words(s))
    BY <1>1, HfPiecesSay DEF TableOK
  <1>3. out = [k \in DOMAIN pieces |-> Id(pieces[k])]
    BY Zenon DEF HfIds
  <1> HIDE DEF pieces, out
  <1>4. Len(pieces) \in Nat /\ DOMAIN pieces = 1..Len(pieces) /\ \A k \in 1..Len(pieces) : pieces[k] \in Seq(Nat)
    BY <1>2, LenProperties, ElementOfSeq
  <1>5. \A k \in 1..Len(pieces) : out[k] = Id(pieces[k]) /\ (out[k] = -1 \/ out[k] \in Nat)
    <2>1. ASSUME NEW k \in 1..Len(pieces) PROVE out[k] = Id(pieces[k]) /\ (out[k] = -1 \/ out[k] \in Nat)
      <3>1. out[k] = Id(pieces[k])
        BY <1>3, <1>4
      <3>2. Id(pieces[k]) = -1 \/ Id(pieces[k]) \in Nat
        BY IdIs
      <3> QED BY <3>1, <3>2
    <2> QED BY <2>1
  <1>6. out = [k \in 1..Len(pieces) |-> out[k]]
    BY <1>3, <1>4
  <1>7. out \in Seq(Int) /\ DOMAIN out = 1..Len(pieces)
    <2>1. \A k \in 1..Len(pieces) : out[k] \in Int
      <3>1. -1 \in Int /\ Nat \subseteq Int
        OBVIOUS
      <3> QED BY <1>5, <3>1
    <2> QED BY <1>4, <1>6, <2>1
  <1>8. ASSUME \A k \in DOMAIN out : out[k] # -1 PROVE out \in Seq(Nat) /\ Says(Back(out), s)
    <2>1. \A k \in 1..Len(pieces) : out[k] = Id(pieces[k]) /\ out[k] \in Nat
      BY <1>5, <1>7, <1>8
    <2>2. out \in Seq(Nat)
      BY <1>4, <1>6, <2>1
    <2>3. ASSUME NEW k \in 1..Len(pieces) PROVE Unsharped(Decode(out[k])) = narrow[pieces[k]]
      <3> DEFINE id == out[k]
                 v == table.vocab
      <3>1. id \in Nat /\ id < Len(v) /\ v[id + 1] = pieces[k] /\ Len(v) \in Nat
        <4>1. id = Id(pieces[k]) /\ id \in Nat
          BY <2>1
        <4>2. Id(pieces[k]) = -1 \/ (Id(pieces[k]) < Len(v) /\ v[Id(pieces[k]) + 1] = pieces[k])
          BY IdIs
        <4>3. Len(v) \in Nat
          BY DEF TableOK
        <4> HIDE DEF id
        <4>4. id # -1
          BY <4>1
        <4> QED BY <4>1, <4>2, <4>3, <4>4
      <3> HIDE DEF id
      <3>2. ~(id >= Len(v))
        <4> HIDE DEF v
        <4> QED BY <3>1
      <3>3. Decode(id) = Narrow(pieces[k])
        BY <3>1, <3>2, Zenon DEF Decode, Narrow
      <3>4. Unsharped(Decode(id)) = Decode(id)
        BY DEF Unsharped
      <3> QED BY <1>1, <1>4, <3>3, <3>4 DEF id, IsNarrow
    <2>4. Back(out) = EachSpelt(narrow, Seq(Nat))[pieces]
      <3>1. [k \in DOMAIN out |-> Unsharped(Decode(out[k]))] = [k \in DOMAIN pieces |-> narrow[pieces[k]]]
        BY <1>4, <1>7, <2>3
      <3>2. EachSpelt(narrow, Seq(Nat))[pieces] = FlattenSeq([k \in DOMAIN pieces |-> narrow[pieces[k]]])
        BY <1>2 DEF EachSpelt
      <3> QED BY <3>1, <3>2, Zenon DEF Back
    <2>5. Says(FlattenSeq(Words(s)), s)
      BY WordsSay
    <2> QED BY <1>2, <2>2, <2>4, <2>5
  <1> QED BY <1>7, <1>8 DEF out
=============================================================================
