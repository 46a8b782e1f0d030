------------------------------ MODULE TextProofs ------------------------------
(***************************************************************************)
(* Encoding keeps the text: for every vocabulary, with pieces for the text,   *)
(* every list of special tokens and every text.                              *)
(*                                                                          *)
(* BertSays: the ids of a text, decoded, say the text, as HfSays and           *)
(* TiktokenSays in TokenizerProofs.  PartHasPieces: the file has pieces for a  *)
(* segment when it has them for the text.  TextInv: the ids out say the text   *)
(* before the segment that is open, and that begins with a character.         *)
(***************************************************************************)
EXTENDS TokenizerProofs

-----------------------------------------------------------------------------
(* Bytes and ids: what SetInductions and the library have for all sequences. *)

IsPart(u, s, a, b) ==
  u \in Seq(0..255) /\ Len(u) = b - a + 1 /\ \A k \in 1..(b - a + 1) : u[k] = s[a + k - 1]

LEMMA PartType ==
  ASSUME NEW S, NEW s \in Seq(S), NEW a \in Nat, NEW b \in Nat, 1 <= a, a <= b + 1, b <= Len(s)
  PROVE  SubSeq(s, a, b) \in Seq(S)
  BY PartFacts, Zenon

LEMMA BytePart ==
  ASSUME NEW s \in Seq(0..255), NEW a \in Nat, NEW b \in Nat, 1 <= a, a <= b + 1, b <= Len(s)
  PROVE  IsPart(SubSeq(s, a, b), s, a, b)
  <1>1. SubSeq(s, a, b) \in Seq(0..255)
    BY PartType, Zenon
  <1>2. Len(SubSeq(s, a, b)) = b - a + 1
    OBVIOUS
  <1>3. \A k \in 1..(b - a + 1) : SubSeq(s, a, b)[k] = s[a + k - 1]
    OBVIOUS
  <1> QED BY <1>1, <1>2, <1>3 DEF IsPart

LEMMA BytesEqual ==
  ASSUME NEW s \in Seq(0..255), NEW t \in Seq(0..255), Len(s) = Len(t), \A k \in 1..Len(s) : s[k] = t[k]
  PROVE  s = t
  BY SeqEqual, SMTT(40)

LEMMA IdsAssociate ==
  ASSUME NEW a \in Seq(Nat), NEW b \in Seq(Nat), NEW c \in Seq(Nat)
  PROVE  (a \o b) \o c = a \o (b \o c)
  BY ConcatAssociative, SMTT(40)

-----------------------------------------------------------------------------
(* BERT: the pieces of a word.                                                *)

Cand(w, p, n) == (IF p = 1 THEN <<>> ELSE Sharps) \o SubSeq(w, p, p + n - 1)
Cands(w, p) == {n \in 1..(Len(w) - p + 1) : Id(Cand(w, p, n)) >= 0}
LongestCand(w, p) == CHOOSE n \in Cands(w, p) : \A k \in Cands(w, p) : k <= n

IsWordPiece(f, w) ==
  f = [p \in 1..(Len(w) + 1) |->
         IF p > Len(w) THEN <<>>
         ELSE IF Cands(w, p) = {} THEN <<UNK>>
         ELSE <<Id(Cand(w, p, LongestCand(w, p)))>> \o f[p + LongestCand(w, p)]]

LEMMA HeadOfTwo ==
  ASSUME NEW S, NEW x \in Seq(S), Len(x) >= 2 PROVE SubSeq(x, 1, 2) = <<x[1], x[2]>>
  <1> DEFINE u == SubSeq(x, 1, 2)
             v == <<x[1], x[2]>>
  <1>1. 1 \in Nat /\ 2 \in Nat /\ 1 <= 1 /\ 1 <= 2 + 1 /\ 2 <= Len(x)
    OBVIOUS
  <1>2. u \in Seq(S) /\ Len(u) = 2 - 1 + 1 /\ \A k \in 1..(2 - 1 + 1) : u[k] = x[1 + k - 1]
    BY <1>1
  <1> HIDE DEF u
  <1>3. Len(u) = 2 /\ u[1] = x[1] /\ u[2] = x[2]
    <2>1. 2 - 1 + 1 = 2 /\ 1 + 1 - 1 = 1 /\ 1 + 2 - 1 = 2 /\ 1 \in 1..2 /\ 2 \in 1..2
      OBVIOUS
    <2> QED BY <1>2, <2>1
  <1>4. v \in Seq(S) /\ Len(v) = 2 /\ v[1] = x[1] /\ v[2] = x[2]
    <2>1. 1 \in 1..Len(x) /\ 2 \in 1..Len(x)
      OBVIOUS
    <2>2. x[1] \in S /\ x[2] \in S
      BY <2>1, ElementOfSeq
    <2> QED BY <2>2
  <1> HIDE DEF v
  <1>5. u = v
    <2>1. \A k \in 1..Len(u) : u[k] = v[k]
      BY <1>3, <1>4
    <2> QED BY <1>2, <1>3, <1>4, <2>1, BytesEqual
  <1> QED BY <1>5 DEF u, v

\* The text of a candidate is the part of the word it is tried for.
LEMMA CandIs ==
  ASSUME table.kind = "bert", NEW w \in Seq(0..255), w[1] # 35 \/ Len(w) <= 2,
         NEW p \in 1..Len(w), NEW n \in 1..(Len(w) - p + 1)
  PROVE  Unsharped(Cand(w, p, n)) = SubSeq(w, p, p + n - 1)
  <1> DEFINE part == SubSeq(w, p, p + n - 1)
             c == Cand(w, p, n)
  <1>1. /\ part \in Seq(0..255) /\ Len(part) = n /\ n \in Nat /\ n # 0 /\ n <= Len(w) /\ Len(w) \in Nat
        /\ part[1] = w[p]
    <2> DEFINE b == p + n - 1
    <2>1. p \in Nat /\ b \in Nat /\ 1 <= p /\ p <= b + 1 /\ b <= Len(w) /\ b - p + 1 = n /\ 1 \in 1..n
          /\ p + 1 - 1 = p /\ n \in Nat /\ n # 0 /\ n <= Len(w) /\ Len(w) \in Nat
      OBVIOUS
    <2> HIDE DEF b
    <2>2. /\ SubSeq(w, p, b) \in Seq(0..255) /\ Len(SubSeq(w, p, b)) = b - p + 1
          /\ \A k \in 1..(b - p + 1) : SubSeq(w, p, b)[k] = w[p + k - 1]
      <3>1. p \in Nat /\ b \in Nat /\ 1 <= p /\ p <= b + 1 /\ b <= Len(w)
        BY <2>1
      <3>2. IsPart(SubSeq(w, p, b), w, p, b)
        BY <3>1, BytePart, Zenon
      <3> QED BY <3>2 DEF IsPart
    <2>3. SubSeq(w, p, b)[1] = w[p]
      BY <2>1, <2>2
    <2> QED BY <2>1, <2>2, <2>3 DEF b
  <1> HIDE DEF part
  <1>2. Sharps \in Seq(0..255) /\ Len(Sharps) = 2 /\ Sharps[1] = 35
    BY DEF Sharps
  <1>3. CASE p = 1
    <2>1. c = part
      <3>1. <<>> \o part = part
        BY <1>1, ConcatEmptySeq
      <3> QED BY <1>3, <3>1 DEF Cand, part
    <2>2. ~(IsPrefix(Sharps, part) /\ Len(part) > 2)
      <3> SUFFICES ASSUME IsPrefix(Sharps, part), Len(part) > 2 PROVE FALSE
        OBVIOUS
      <3>1. w[1] # 35
        BY <1>1
      <3>2. SubSeq(Sharps, 1, 2) = SubSeq(part, 1, 2)
        BY <1>2 DEF IsPrefix
      <3>3. SubSeq(Sharps, 1, 2)[1] = Sharps[1]
        BY <1>2
      <3>4. SubSeq(part, 1, 2)[1] = part[1]
        BY <1>1
      <3>5. part[1] = 35
        BY <1>2, <3>2, <3>3, <3>4
      <3> QED BY <1>1, <1>3, <3>1, <3>5
    <2> QED BY <2>1, <2>2 DEF Unsharped, part
  <1>4. CASE p # 1
    <2>1. c = Sharps \o part
      BY <1>4 DEF Cand, part
    <2>2. /\ c \in Seq(0..255) /\ Len(c) = 2 + n
          /\ \A k \in 1..(2 + n) : c[k] = IF k <= 2 THEN Sharps[k] ELSE part[k - 2]
      <3>1. /\ Sharps \o part \in Seq(0..255) /\ Len(Sharps \o part) = Len(Sharps) + Len(part)
            /\ \A k \in 1..(Len(Sharps) + Len(part)) :
                 (Sharps \o part)[k] = IF k <= Len(Sharps) THEN Sharps[k] ELSE part[k - Len(Sharps)]
        BY <1>1, <1>2, ConcatProperties, ZenonT(60)
      <3> QED BY <1>1, <1>2, <2>1, <3>1
    <2> HIDE DEF c
    <2>3. SubSeq(c, 1, 2) = SubSeq(Sharps, 1, 2)
      <3>1. c[1] = Sharps[1] /\ c[2] = Sharps[2] /\ Len(c) >= 2
        BY <1>1, <2>2
      <3>2. SubSeq(c, 1, 2) = <<c[1], c[2]>>
        BY <2>2, <3>1, HeadOfTwo
      <3>3. SubSeq(Sharps, 1, 2) = <<Sharps[1], Sharps[2]>>
        <4>1. Sharps \in Seq(0..255) /\ Len(Sharps) >= 2
          BY <1>2
        <4> QED BY <4>1, HeadOfTwo
      <3> QED BY <3>1, <3>2, <3>3
    <2>4. IsPrefix(Sharps, c) /\ Len(c) > 2
      BY <1>1, <1>2, <2>2, <2>3 DEF IsPrefix
    <2>5. SubSeq(c, 3, Len(c)) = part
      <3> DEFINE u == SubSeq(c, 3, Len(c))
      <3>1. Len(c) \in Nat /\ 3 \in Nat /\ 1 <= 3 /\ 3 <= Len(c) + 1 /\ Len(c) <= Len(c) /\ Len(c) - 3 + 1 = n
        BY <1>1, <2>2
      <3>2. u \in Seq(0..255) /\ Len(u) = Len(c) - 3 + 1 /\ \A k \in 1..(Len(c) - 3 + 1) : u[k] = c[3 + k - 1]
        <4>1. IsPart(u, c, 3, Len(c))
          BY <2>2, <3>1, BytePart, Zenon
        <4> HIDE DEF u
        <4> QED BY <4>1 DEF IsPart
      <3> HIDE DEF u
      <3>3. \A k \in 1..n : u[k] = part[k]
        <4> TAKE k \in 1..n
        <4>1. 3 + k - 1 \in 1..(2 + n) /\ ~(3 + k - 1 <= 2) /\ 3 + k - 1 - 2 = k
          BY <1>1
        <4>2. c[3 + k - 1] = part[3 + k - 1 - 2]
          BY <2>2, <4>1
        <4> QED BY <3>1, <3>2, <4>1, <4>2
      <3>4. u = part
        <4>1. Len(u) = Len(part)
          BY <1>1, <3>1, <3>2
        <4>2. \A k \in 1..Len(u) : u[k] = part[k]
          BY <3>1, <3>2, <3>3
        <4> QED BY <1>1, <3>2, <4>1, <4>2, BytesEqual
      <3> QED BY <3>4 DEF u
    <2>6. Unsharped(c) = SubSeq(c, 3, Len(c))
      BY <2>4 DEF Unsharped
    <2> QED BY <2>5, <2>6 DEF part, c
  <1> QED BY <1>3, <1>4

\* WordPiece, from a place on.
LEMMA WordPieceFrom ==
  ASSUME TableOK, NEW w \in Seq(0..255)
  PROVE  \E g : /\ WordPiece(w) = g[1]
                /\ \A p \in 1..(Len(w) + 1) :
                     g[p] = IF p > Len(w) THEN <<>>
                            ELSE IF Cands(w, p) = {} THEN <<UNK>>
                            ELSE <<Id(Cand(w, p, LongestCand(w, p)))>> \o g[p + LongestCand(w, p)]
  <1> DEFINE l == Len(w)
             val == [p \in 1..l |-> IF Cands(w, p) = {} THEN <<UNK>>
                                    ELSE <<Id(Cand(w, p, LongestCand(w, p)))>>]
             nxt == [p \in 1..l |-> IF Cands(w, p) = {} THEN l + 1 ELSE p + LongestCand(w, p)]
  <1>1. l \in Nat
    OBVIOUS
  <1>2. \A p \in 1..l : /\ val[p] = IF Cands(w, p) = {} THEN <<UNK>>
                                    ELSE <<Id(Cand(w, p, LongestCand(w, p)))>>
                        /\ nxt[p] = IF Cands(w, p) = {} THEN l + 1 ELSE p + LongestCand(w, p)
    OBVIOUS
  <1> HIDE DEF val, nxt
  <1>3. ASSUME NEW p \in 1..l PROVE nxt[p] \in (p + 1)..(l + 1)
    <2>1. CASE Cands(w, p) = {}
      <3>1. nxt[p] = l + 1
        BY <1>2, <2>1, Zenon
      <3>2. l + 1 \in (p + 1)..(l + 1)
        BY <1>1
      <3> QED BY <3>1, <3>2
    <2>2. CASE Cands(w, p) # {}
      <3> DEFINE n == LongestCand(w, p)
      <3>1. n \in Cands(w, p)
        <4>1. Cands(w, p) \subseteq 1..(l - p + 1) /\ l - p + 1 \in Nat
          BY <1>1 DEF Cands
        <4> QED BY <2>2, <4>1, LongestIs DEF LongestCand
      <3>2. n \in 1..(l - p + 1) /\ nxt[p] = p + n
        BY <1>2, <2>2, <3>1 DEF Cands
      <3> HIDE DEF n
      <3> QED BY <1>1, <3>2
    <2> QED BY <2>1, <2>2
  <1>4. PICK f : FromPlace(f, val, nxt, l, 1)
    BY <1>1, <1>3, DownRecursion
  <1>5. IsWordPiece(f, w)
    <2>1. f = [p \in 1..(l + 1) |-> IF p > l THEN <<>> ELSE val[p] \o f[nxt[p]]]
      BY <1>4, Zenon DEF FromPlace
    <2>2. f[l + 1] = <<>>
      <3>1. f[l + 1] = IF l + 1 > l THEN <<>> ELSE val[l + 1] \o f[nxt[l + 1]]
        <4>1. l + 1 \in 1..(l + 1)
          BY <1>1
        <4> HIDE DEF l
        <4> QED BY <2>1, <4>1, Zenon
      <3>2. l + 1 > l
        BY <1>1
      <3> QED BY <3>1, <3>2
    <2>3. ASSUME NEW p \in 1..(l + 1)
          PROVE  (IF p > l THEN <<>> ELSE val[p] \o f[nxt[p]])
                   = IF p > l THEN <<>>
                     ELSE IF Cands(w, p) = {} THEN <<UNK>>
                     ELSE <<Id(Cand(w, p, LongestCand(w, p)))>> \o f[p + LongestCand(w, p)]
      <3>1. ~(p > l) => p \in 1..l
        BY <1>1
      <3>2. <<UNK>> \o f[l + 1] = <<UNK>>
        BY <2>2
      <3> HIDE DEF l
      <3> QED BY <1>2, <3>1, <3>2, Zenon
    <2> QED BY <2>1, <2>3, Zenon DEF IsWordPiece, l
  <1> DEFINE g == CHOOSE h : IsWordPiece(h, w)
  <1>7. WordPiece(w) = g[1]
    BY Zenon DEF WordPiece, IsWordPiece, Cands, LongestCand, Cand
  <1>8. IsWordPiece(g, w)
    BY <1>5, Zenon
  <1> HIDE DEF g
  <1>9. \A p \in 1..(l + 1) :
           g[p] = IF p > l THEN <<>>
                  ELSE IF Cands(w, p) = {} THEN <<UNK>>
                  ELSE <<Id(Cand(w, p, LongestCand(w, p)))>> \o g[p + LongestCand(w, p)]
    BY <1>8, Zenon DEF IsWordPiece, l
  <1> QED BY <1>7, <1>9, Zenon

\* A word that is a piece, or of bytes that are pieces alone and continuing.
Pieced(w) ==
  /\ w \in Seq(0..255) /\ w # <<>> /\ (w[1] # 35 \/ Len(w) <= 2)
  /\ \/ InVocab(table, w)
     \/ InVocab(table, <<w[1]>>) /\ \A k \in 1..Len(w) : InVocab(table, Sharps \o <<w[k]>>)

\* A word that has pieces is given back.
LEMMA WordPieceSays ==
  ASSUME TableOK, table.kind = "bert", NEW w, Pieced(w), NEW back, PartByPart(back, Nat, 0..255),
         \A id \in Nat : back[<<id>>] = Unsharped(Decode(id))
  PROVE  WordPiece(w) \in Seq(Nat) /\ back[WordPiece(w)] = w
  <1> DEFINE l == Len(w)
             Cont == \A k \in 1..l : InVocab(table, Sharps \o <<w[k]>>)
  <1>1. l \in Nat /\ l # 0 /\ w \in Seq(0..255)
    <2>1. l \in Nat /\ w \in Seq(0..255)
      BY DEF Pieced
    <2>2. l # 0
      BY EmptySeq DEF Pieced
    <2> QED BY <2>1, <2>2
  <1>2. PICK g : /\ WordPiece(w) = g[1]
                 /\ \A p \in 1..(l + 1) :
                      g[p] = IF p > l THEN <<>>
                             ELSE IF Cands(w, p) = {} THEN <<UNK>>
                             ELSE <<Id(Cand(w, p, LongestCand(w, p)))>> \o g[p + LongestCand(w, p)]
    BY <1>1, WordPieceFrom
  <1>3. ASSUME NEW p \in 1..l, p = 1 \/ Cont
        PROVE  /\ Cands(w, p) # {} /\ LongestCand(w, p) \in Cands(w, p)
               /\ p = 1 /\ ~Cont => LongestCand(w, p) = l
    <2>1. Cands(w, p) \subseteq 1..(l - p + 1) /\ l - p + 1 \in Nat
      BY <1>1 DEF Cands
    <2>2. 1 \in 1..(l - p + 1) /\ p + 1 - 1 = p
      BY <1>1
    <2>3. SubSeq(w, p, p) = <<w[p]>>
      BY <1>1, PartOfOne
    <2>4. CASE p = 1 /\ InVocab(table, w)
      <3>1. Cand(w, 1, l) = w
        <4>1. <<>> \o SubSeq(w, 1, 1 + l - 1) = w
          <5>1. 1 + l - 1 = l
            BY <1>1
          <5>2. SubSeq(w, 1, l) = w
            BY <1>1
          <5>3. <<>> \o w = w
            BY <1>1, ConcatEmptySeq
          <5> QED BY <5>1, <5>2, <5>3
        <4> QED BY <4>1 DEF Cand
      <3>2. Id(w) \in Nat
        BY <2>4, IdIs
      <3>3. Id(Cand(w, 1, l)) >= 0
        <4> DEFINE d == Id(w)
        <4>1. d >= 0
          <5> HIDE DEF d
          <5> QED BY <3>2 DEF d
        <4> QED BY <3>1, <4>1
      <3>4. l \in 1..(l - 1 + 1) /\ l - p + 1 = l
        BY <1>1, <2>4
      <3>5. l \in Cands(w, p)
        BY <2>4, <3>3, <3>4, Zenon DEF Cands
      <3>6. LongestCand(w, p) \in Cands(w, p) /\ \A k \in Cands(w, p) : k <= LongestCand(w, p)
        <4>1. \E n \in Cands(w, p) : \A k \in Cands(w, p) : k <= n
          BY <2>1, <3>4, <3>5
        <4> QED BY <4>1, Zenon DEF LongestCand
      <3>7. LongestCand(w, p) = l
        <4> DEFINE n == LongestCand(w, p)
        <4>1. n \in 1..l /\ l <= n
          BY <2>1, <3>4, <3>5, <3>6
        <4> HIDE DEF n
        <4>2. n = l
          BY <1>1, <4>1
        <4> QED BY <4>2 DEF n
      <3> QED BY <3>5, <3>6, <3>7
    <2>5. CASE ~(p = 1 /\ InVocab(table, w))
      <3>1. Cont
        BY <1>3, <2>5 DEF Pieced
      <3>2. Id(Cand(w, p, 1)) \in Nat
        <4>1. CASE p = 1
          <5>1. InVocab(table, <<w[1]>>)
            BY <2>5, <4>1 DEF Pieced
          <5>2. Cand(w, 1, 1) = <<w[1]>>
            <6>1. Cand(w, 1, 1) = <<>> \o SubSeq(w, 1, 1 + 1 - 1) /\ 1 + 1 - 1 = 1
              BY DEF Cand
            <6>2. SubSeq(w, 1, 1) = <<w[1]>>
              BY <2>3, <4>1
            <6> QED BY <6>1, <6>2
          <5> QED BY <4>1, <5>1, <5>2, IdIs
        <4>2. CASE p # 1
          <5>1. InVocab(table, Sharps \o <<w[p]>>)
            BY <3>1
          <5>2. Cand(w, p, 1) = Sharps \o <<w[p]>>
            BY <2>2, <2>3, <4>2 DEF Cand
          <5> QED BY <5>1, <5>2, IdIs
        <4> QED BY <4>1, <4>2
      <3>3. Id(Cand(w, p, 1)) >= 0
        <4> DEFINE d == Id(Cand(w, p, 1))
        <4> HIDE DEF d
        <4>1. d >= 0
          BY <3>2 DEF d
        <4> QED BY <4>1 DEF d
      <3>4. 1 \in Cands(w, p)
        BY <2>2, <3>3, Zenon DEF Cands, l
      <3>5. LongestCand(w, p) \in Cands(w, p)
        BY <2>1, <3>4, LongestIs DEF LongestCand
      <3> QED BY <3>1, <3>4, <3>5
    <2> QED BY <2>4, <2>5
  <1>4. Cont \/ ~Cont
    OBVIOUS
  <1> DEFINE T == {p \in 1..(l + 1) : p = 1 \/ p = l + 1 \/ Cont =>
                     g[p] \in Seq(Nat) /\ back[g[p]] = SubSeq(w, p, l)}
  <1>5. ASSUME NEW p \in 1..(l + 1), \A q \in (p + 1)..(l + 1) : q \in T PROVE p \in T
    <2> SUFFICES ASSUME p = 1 \/ p = l + 1 \/ Cont
                 PROVE  g[p] \in Seq(Nat) /\ back[g[p]] = SubSeq(w, p, l)
      OBVIOUS
    <2>1. CASE p > l
      <3>1. g[p] = <<>> /\ p = l + 1
        <4>1. p = l + 1
          BY <1>1, <2>1
        <4> QED BY <1>2, <2>1, <4>1, Zenon
      <3>2. SubSeq(w, p, l) = <<>>
        BY <1>1, <3>1
      <3>3. <<>> \in Seq(Nat) /\ back[<<>>] = <<>>
        BY DEF PartByPart
      <3> QED BY <3>1, <3>2, <3>3
    <2>2. CASE ~(p > l)
      <3> DEFINE n == LongestCand(w, p)
                 part == SubSeq(w, p, p + n - 1)
                 id == Id(Cand(w, p, n))
      <3>1. p \in 1..l /\ (p = 1 \/ Cont)
        BY <1>1, <2>2
      <3>2. Cands(w, p) # {} /\ n \in Cands(w, p) /\ (p = 1 /\ ~Cont => n = l)
        BY <1>3, <3>1
      <3>3. n \in 1..(l - p + 1) /\ id >= 0
        BY <3>2 DEF Cands
      <3>4. id \in Nat /\ id < Len(table.vocab) /\ table.vocab[id + 1] = Cand(w, p, n)
        <4> DEFINE d == id
        <4>1. d = -1 \/ (d \in Nat /\ d < Len(table.vocab) /\ table.vocab[d + 1] = Cand(w, p, n))
          BY IdIs
        <4>2. d >= 0
          BY <3>3
        <4> HIDE DEF d
        <4>3. d # -1
          BY <4>2
        <4> QED BY <4>1, <4>3 DEF d
      <3>5. g[p] = <<id>> \o g[p + n]
        BY <1>2, <2>2, <3>2
      <3>6. Unsharped(Decode(id)) = part
        <4>1. ~(id >= Len(table.vocab))
          <5>1. Len(table.vocab) \in Nat
            BY DEF TableOK
          <5> DEFINE d == id
          <5>2. d \in Nat /\ d < Len(table.vocab)
            BY <3>4
          <5> HIDE DEF d
          <5>3. ~(d >= Len(table.vocab))
            BY <5>1, <5>2
          <5> QED BY <5>3 DEF d
        <4>2. Decode(id) = Cand(w, p, n)
          BY <3>4, <4>1, Zenon DEF Decode
        <4>3. Unsharped(Cand(w, p, n)) = part
          <5> HIDE DEF n
          <5>1. w[1] # 35 \/ Len(w) <= 2
            BY DEF Pieced
          <5> QED BY <1>1, <3>1, <3>3, <5>1, CandIs
        <4> QED BY <4>2, <4>3
      <3> HIDE DEF n, id
      <3>7. p + n \in (p + 1)..(l + 1) /\ (p + n = l + 1 \/ Cont)
        <4>1. p + n \in (p + 1)..(l + 1)
          BY <1>1, <3>1, <3>3
        <4>2. ~Cont => p + n = l + 1
          <5> SUFFICES ASSUME ~Cont PROVE p + n = l + 1
            OBVIOUS
          <5>1. p = 1 /\ n = l
            BY <3>1, <3>2
          <5> QED BY <1>1, <5>1
        <4> QED BY <4>1, <4>2
      <3>8. g[p + n] \in Seq(Nat) /\ back[g[p + n]] = SubSeq(w, p + n, l)
        BY <1>5, <3>7
      <3>9. <<id>> \in Seq(Nat) /\ <<id>> \o g[p + n] \in Seq(Nat)
        BY <3>4, <3>8, ConcatProperties
      <3>10. back[<<id>> \o g[p + n]] = back[<<id>>] \o back[g[p + n]]
        BY <3>8, <3>9 DEF PartByPart
      <3>11. back[<<id>>] = part
        BY <3>4, <3>6
      <3>12. part \o SubSeq(w, p + n, l) = SubSeq(w, p, l)
        <4> DEFINE b == p + n - 1
        <4>1. b \in Nat /\ p <= b + 1 /\ b <= l /\ b + 1 = p + n /\ l <= Len(w) /\ p \in Nat /\ 1 <= p
          BY <1>1, <3>1, <3>3
        <4> HIDE DEF b
        <4>2. SubSeq(w, p, b) \o SubSeq(w, b + 1, l) = SubSeq(w, p, l)
          BY <1>1, <4>1, PartsJoin
        <4> QED BY <4>1, <4>2 DEF b
      <3> QED BY <3>5, <3>8, <3>9, <3>10, <3>11, <3>12
    <2> QED BY <2>1, <2>2
  <1>6. 1 \in T
    <2>1. 1..(l + 1) \subseteq T
      <3> HIDE DEF T
      <3> QED BY <1>1, <1>5, DownInduction
    <2>2. 1 \in 1..(l + 1)
      BY <1>1
    <2> QED BY <2>1, <2>2
  <1>7. SubSeq(w, 1, l) = w
    BY <1>1
  <1> QED BY <1>2, <1>6, <1>7

-----------------------------------------------------------------------------
(* BERT: the words of a text.                                                 *)

Letters(s, n, p) == \A k \in p..n : Class(s[k]) \in {"alpha", "digit"}

RunEnd(s, p) ==
  CHOOSE n \in p..Len(s) : Letters(s, n, p) /\ (n < Len(s) => ~Letters(s, n + 1, n + 1))

\* The byte at p is in no word; the word that begins at p, and where the text goes on.
Gone(s, p) == ~(s[p] >= 224) /\ (s[p] >= 128 \/ Class(s[p]) = "space")

WordAt(s, p) ==
  IF s[p] >= 224 THEN SubSeq(s, p, IF p + 2 > Len(s) THEN Len(s) ELSE p + 2)
  ELSE IF Letters(s, p, p) THEN [k \in 1..(RunEnd(s, p) - p + 1) |-> Lower(s[p + k - 1])]
  ELSE <<s[p]>>

After(s, p) ==
  IF s[p] >= 224 THEN p + 3 ELSE IF Letters(s, p, p) THEN RunEnd(s, p) + 1 ELSE p + 1

IsBertWords(f, s) ==
  f = [p \in 1..(Len(s) + 3) |->
        IF p > Len(s) THEN <<>>
        ELSE IF s[p] >= 224
             THEN <<SubSeq(s, p, IF p + 2 > Len(s) THEN Len(s) ELSE p + 2)>> \o f[p + 3]
        ELSE IF s[p] >= 128 \/ Class(s[p]) = "space" THEN f[p + 1]
        ELSE IF Letters(s, p, p)
             THEN <<[k \in 1..(RunEnd(s, p) - p + 1) |-> Lower(s[p + k - 1])]>>
                    \o f[RunEnd(s, p) + 1]
        ELSE <<<<s[p]>>>> \o f[p + 1]]

\* A run of letters and digits has an end.
LEMMA RunEndIs ==
  ASSUME NEW s \in Seq(0..255), NEW p \in 1..Len(s), Letters(s, p, p)
  PROVE  RunEnd(s, p) \in p..Len(s) /\ Letters(s, RunEnd(s, p), p)
  <1> DEFINE l == Len(s)
             T == {n \in p..l : Letters(s, n, p)}
  <1>1. l \in Nat
    OBVIOUS
  <1>2. p \in T
    BY <1>1
  <1>3. PICK x \in T : \A y \in T : y <= x
    <2>1. T \subseteq 0..l /\ T # {}
      BY <1>1, <1>2
    <2> HIDE DEF T, l
    <2> QED BY <1>1, <2>1, GreatestNat
  <1>4. ASSUME x < l PROVE ~Letters(s, x + 1, x + 1)
    <2> SUFFICES ASSUME Letters(s, x + 1, x + 1) PROVE FALSE
      OBVIOUS
    <2>1. x + 1 \in p..l /\ x \in p..l
      BY <1>1, <1>3, <1>4
    <2>2. Letters(s, x + 1, p)
      <3>1. \A k \in p..(x + 1) : k \in p..x \/ k \in (x + 1)..(x + 1)
        BY <2>1
      <3>2. Letters(s, x, p)
        BY <1>3
      <3> QED BY <3>1, <3>2 DEF Letters
    <2>3. x + 1 \in T
      BY <2>1, <2>2
    <2>4. x + 1 <= x
      BY <1>3, <2>3
    <2> HIDE DEF T
    <2> QED BY <2>1, <2>4
  <1>5. \E n \in p..l : Letters(s, n, p) /\ (n < l => ~Letters(s, n + 1, n + 1))
    BY <1>3, <1>4
  <1> QED BY <1>5, Zenon DEF RunEnd

LEMMA AfterIs ==
  ASSUME NEW s \in Seq(0..255), NEW p \in 1..Len(s)
  PROVE  After(s, p) \in (p + 1)..(Len(s) + 3)
  <1> DEFINE l == Len(s)
             n == RunEnd(s, p)
  <1>1. l \in Nat /\ p \in 1..l
    OBVIOUS
  <1>2. Letters(s, p, p) => n \in p..l
    BY RunEndIs
  <1>3. \/ After(s, p) = p + 3
        \/ Letters(s, p, p) /\ After(s, p) = n + 1
        \/ After(s, p) = p + 1
    BY DEF After
  <1> HIDE DEF l, n
  <1>4. After(s, p) \in (p + 1)..(l + 3)
    BY <1>1, <1>2, <1>3
  <1> QED BY <1>4 DEF l

\* BertWords, from a place on.
LEMMA BertWordsFrom ==
  ASSUME NEW s \in Seq(0..255)
  PROVE  \E g : /\ BertWords(s) = g[1]
                /\ \A p \in 1..(Len(s) + 3) :
                     g[p] = IF p > Len(s) THEN <<>>
                            ELSE IF Gone(s, p) THEN g[p + 1]
                            ELSE <<WordAt(s, p)>> \o g[After(s, p)]
  <1> DEFINE l == Len(s)
             m == l + 2
             X == {WordAt(s, p) : p \in 1..l}
             val == [p \in 1..m |-> IF p > l \/ Gone(s, p) THEN <<>> ELSE <<WordAt(s, p)>>]
             nxt == [p \in 1..m |-> IF p > l THEN m + 1 ELSE IF Gone(s, p) THEN p + 1 ELSE After(s, p)]
  <1>1. l \in Nat /\ m \in Nat /\ m + 1 = l + 3
    OBVIOUS
  <1>2. \A p \in 1..m :
          /\ val[p] = IF p > l \/ Gone(s, p) THEN <<>> ELSE <<WordAt(s, p)>>
          /\ nxt[p] = IF p > l THEN m + 1 ELSE IF Gone(s, p) THEN p + 1 ELSE After(s, p)
    OBVIOUS
  <1> HIDE DEF val, nxt, m
  <1>3. ASSUME NEW p \in 1..m PROVE nxt[p] \in (p + 1)..(m + 1) /\ val[p] \in Seq(X)
    <2>1. CASE p > l
      <3>1. nxt[p] = m + 1 /\ val[p] = <<>>
        BY <1>2, <2>1, Zenon
      <3>2. m + 1 \in (p + 1)..(m + 1) /\ <<>> \in Seq(X)
        BY <1>1
      <3> QED BY <3>1, <3>2
    <2>2. CASE ~(p > l) /\ Gone(s, p)
      <3>1. nxt[p] = p + 1 /\ val[p] = <<>>
        BY <1>2, <2>2, Zenon
      <3>2. p + 1 \in (p + 1)..(m + 1) /\ <<>> \in Seq(X)
        BY <1>1
      <3> QED BY <3>1, <3>2
    <2>3. CASE ~(p > l) /\ ~Gone(s, p)
      <3>1. nxt[p] = After(s, p) /\ val[p] = <<WordAt(s, p)>>
        BY <1>2, <2>3, Zenon
      <3>2. p \in 1..l
        BY <1>1, <2>3
      <3>3. After(s, p) \in (p + 1)..(m + 1)
        BY <1>1, <3>2, AfterIs
      <3>4. WordAt(s, p) \in X
        BY <3>2
      <3> HIDE DEF X
      <3>5. <<WordAt(s, p)>> \in Seq(X)
        BY <3>4
      <3> QED BY <3>1, <3>3, <3>5
    <2> QED BY <2>1, <2>2, <2>3
  <1> HIDE DEF X
  <1>4. PICK f : FromPlace(f, val, nxt, m, 1)
    BY <1>1, <1>3, DownRecursion
  <1>5. /\ f = [p \in 1..(m + 1) |-> f[p]]
        /\ \A p \in 1..(m + 1) : f[p] \in Seq(X) /\ f[p] = IF p > m THEN <<>> ELSE val[p] \o f[nxt[p]]
    BY <1>1, <1>3, <1>4, FromPlaceType, SMTT(40)
  <1>6. ASSUME NEW p \in 1..(m + 1)
        PROVE  f[p] = IF p > l THEN <<>>
                      ELSE IF Gone(s, p) THEN f[p + 1]
                      ELSE <<WordAt(s, p)>> \o f[After(s, p)]
    <2>1. CASE p > m
      <3>1. p > l
        BY <1>1, <2>1 DEF m
      <3> QED BY <1>5, <2>1, <3>1
    <2>2. CASE ~(p > m) /\ p > l
      <3>1. p \in 1..m /\ m + 1 \in 1..(m + 1) /\ m + 1 > m
        BY <1>1, <2>2
      <3>2. f[m + 1] = <<>>
        BY <1>5, <3>1
      <3>3. f[p] = <<>> \o <<>>
        BY <1>2, <1>5, <2>2, <3>1, <3>2
      <3> QED BY <2>2, <3>3
    <2>3. CASE ~(p > l) /\ Gone(s, p)
      <3>1. p \in 1..m /\ ~(p > m) /\ p + 1 \in 1..(m + 1)
        BY <1>1, <2>3 DEF m
      <3>2. f[p] = <<>> \o f[p + 1]
        BY <1>2, <1>5, <2>3, <3>1
      <3>3. <<>> \o f[p + 1] = f[p + 1]
        BY <1>5, <3>1, ConcatEmptySeq
      <3> QED BY <2>3, <3>2, <3>3
    <2>4. CASE ~(p > l) /\ ~Gone(s, p)
      <3>1. p \in 1..m /\ ~(p > m)
        BY <1>1, <2>4 DEF m
      <3> QED BY <1>2, <1>5, <2>4, <3>1
    <2> QED BY <2>1, <2>2, <2>3, <2>4
  <1>7. IsBertWords(f, s)
    <2>1. ASSUME NEW p \in 1..(l + 3)
          PROVE  f[p] = IF p > Len(s) THEN <<>>
                        ELSE IF s[p] >= 224
                             THEN <<SubSeq(s, p, IF p + 2 > Len(s) THEN Len(s) ELSE p + 2)>> \o f[p + 3]
                        ELSE IF s[p] >= 128 \/ Class(s[p]) = "space" THEN f[p + 1]
                        ELSE IF Letters(s, p, p)
                             THEN <<[k \in 1..(RunEnd(s, p) - p + 1) |-> Lower(s[p + k - 1])]>>
                                    \o f[RunEnd(s, p) + 1]
                        ELSE <<<<s[p]>>>> \o f[p + 1]
      <3>1. f[p] = IF p > l THEN <<>>
                   ELSE IF Gone(s, p) THEN f[p + 1]
                   ELSE <<WordAt(s, p)>> \o f[After(s, p)]
        BY <1>1, <1>6
      <3> QED BY <3>1, ZenonT(60) DEF Gone, WordAt, After
    <2>2. f = [p \in 1..(l + 3) |-> f[p]]
      BY <1>1, <1>5
    <2> QED BY <2>1, <2>2, Zenon DEF IsBertWords
  <1> DEFINE g == CHOOSE h : IsBertWords(h, s)
  <1>8. BertWords(s) = g[1]
    BY Zenon DEF BertWords, IsBertWords, Letters, RunEnd
  <1>9. IsBertWords(g, s)
    BY <1>7, Zenon
  <1> HIDE DEF g
  <1>10. ASSUME NEW p \in 1..(l + 3)
         PROVE  g[p] = IF p > l THEN <<>>
                       ELSE IF Gone(s, p) THEN g[p + 1]
                       ELSE <<WordAt(s, p)>> \o g[After(s, p)]
    <2>1. g[p] = IF p > Len(s) THEN <<>>
                 ELSE IF s[p] >= 224
                      THEN <<SubSeq(s, p, IF p + 2 > Len(s) THEN Len(s) ELSE p + 2)>> \o g[p + 3]
                 ELSE IF s[p] >= 128 \/ Class(s[p]) = "space" THEN g[p + 1]
                 ELSE IF Letters(s, p, p)
                      THEN <<[k \in 1..(RunEnd(s, p) - p + 1) |-> Lower(s[p + k - 1])]>>
                             \o g[RunEnd(s, p) + 1]
                 ELSE <<<<s[p]>>>> \o g[p + 1]
      BY <1>9, Zenon DEF IsBertWords
    <2>2. CASE p > l
      BY <2>1, <2>2, Zenon
    <2>3. CASE ~(p > l) /\ s[p] >= 224
      <3>1. ~Gone(s, p)
        BY <2>3, Zenon DEF Gone
      <3>2. After(s, p) = p + 3
        BY <2>3, Zenon DEF After
      <3>3. WordAt(s, p) = SubSeq(s, p, IF p + 2 > Len(s) THEN Len(s) ELSE p + 2)
        BY <2>3, Zenon DEF WordAt
      <3>4. g[p] = <<WordAt(s, p)>> \o g[After(s, p)]
        BY <2>1, <2>3, <3>2, <3>3, Zenon
      <3> QED BY <2>3, <3>1, <3>4, Zenon
    <2>4. CASE ~(p > l) /\ Gone(s, p)
      BY <2>1, <2>4, Zenon DEF Gone
    <2>5. CASE ~(p > l) /\ ~(s[p] >= 224) /\ ~Gone(s, p) /\ Letters(s, p, p)
      <3>1. After(s, p) = RunEnd(s, p) + 1
        BY <2>5, Zenon DEF After
      <3>2. WordAt(s, p) = [k \in 1..(RunEnd(s, p) - p + 1) |-> Lower(s[p + k - 1])]
        BY <2>5, Zenon DEF WordAt
      <3>3. g[p] = <<WordAt(s, p)>> \o g[After(s, p)]
        BY <2>1, <2>5, <3>1, <3>2, Zenon DEF Gone
      <3> QED BY <2>5, <3>3, Zenon
    <2>6. CASE ~(p > l) /\ ~(s[p] >= 224) /\ ~Gone(s, p) /\ ~Letters(s, p, p)
      <3>1. After(s, p) = p + 1
        BY <2>6, Zenon DEF After
      <3>2. WordAt(s, p) = <<s[p]>>
        BY <2>6, Zenon DEF WordAt
      <3>3. g[p] = <<WordAt(s, p)>> \o g[After(s, p)]
        BY <2>1, <2>6, <3>1, <3>2, Zenon DEF Gone
      <3> QED BY <2>6, <3>3, Zenon
    <2> QED BY <2>2, <2>3, <2>4, <2>5, <2>6, Zenon
  <1> QED BY <1>8, <1>10, Zenon

-----------------------------------------------------------------------------
(* Bytes of characters, and letters.                                          *)

\* A character has one to three bytes, and what follows it is a character.
LEMMA NextChar ==
  ASSUME NEW s \in Seq(0..255), Utf8(s), NEW p \in 1..Len(s), ~Asked(s, p)
  PROVE  /\ s[p] \in 0..255 /\ s[p] \notin 128..191
         /\ s[p] < 128 => ~Asked(s, p + 1)
         /\ s[p] \in 192..223 => p + 1 \in 1..Len(s) /\ s[p + 1] \in 128..191 /\ ~Asked(s, p + 2)
         /\ s[p] >= 224 => /\ p + 1 \in 1..Len(s) /\ p + 2 \in 1..Len(s)
                           /\ s[p + 2] \in 128..191 /\ ~Asked(s, p + 3)
  <1> DEFINE l == Len(s)
             a == s[p - 1]
             b == s[p]
             c == s[p + 1]
             d == s[p + 2]
  <1>1. l \in Nat /\ p \in 1..l
    OBVIOUS
  <1>2. \A q \in 1..l : s[q] \in 0..255 /\ (s[q] \in 128..191 <=> Asked(s, q))
    <2> TAKE q \in 1..l
    <2>1. s[q] \in 0..255
      BY ElementOfSeq
    <2>2. q \in DOMAIN s
      OBVIOUS
    <2> QED BY <2>1, <2>2 DEF Utf8
  <1>3. ~Asked(s, l + 1)
    BY DEF Utf8
  <1>4. /\ p > 1 => a < 192 /\ a \in 0..255
        /\ b \in 0..255 /\ b \notin 128..191
    <2>1. p > 1 => p - 1 \in 1..l
      BY <1>1
    <2>2. p > 1 => ~(a >= 192)
      BY Zenon DEF Asked
    <2>3. ASSUME p > 1 PROVE a \in 0..255
      <3> DEFINE r == p - 1
      <3>1. r \in 1..l
        BY <2>1, <2>3
      <3> HIDE DEF r, l
      <3>2. s[r] \in 0..255
        BY <1>2, <3>1
      <3> QED BY <3>2 DEF r
    <2>4. b \in 0..255 /\ b \notin 128..191
      BY <1>1, <1>2
    <2> HIDE DEF a, b, l
    <2>5. ASSUME p > 1 PROVE a < 192 /\ a \in 0..255
      <3>1. ~(a >= 192) /\ a \in 0..255
        BY <2>2, <2>3, <2>5
      <3> QED BY <3>1
    <2> QED BY <2>4, <2>5
  <1>5. /\ Asked(s, p + 1) <=> b >= 192 \/ (p > 1 /\ a >= 224)
        /\ Asked(s, p + 2) <=> c >= 192 \/ b >= 224
        /\ Asked(s, p + 3) <=> d >= 192 \/ c >= 224
    <2>1. /\ p + 1 > 1 /\ p + 1 - 1 = p /\ p + 1 - 2 = p - 1 /\ p + 2 > 1 /\ p + 2 > 2 /\ p + 2 - 1 = p + 1
          /\ p + 2 - 2 = p /\ p + 3 > 1 /\ p + 3 > 2 /\ p + 3 - 1 = p + 2 /\ p + 3 - 2 = p + 1
          /\ (p + 1 > 2 <=> p > 1)
      BY <1>1
    <2>2. Asked(s, p + 1) <=> b >= 192 \/ (p > 1 /\ a >= 224)
      <3> DEFINE u == s[p + 1 - 1]
                 v == s[p + 1 - 2]
      <3>1. Asked(s, p + 1) <=> (p + 1 > 1 /\ u >= 192) \/ (p + 1 > 2 /\ v >= 224)
        BY DEF Asked
      <3>2. u = b /\ v = a
        BY <2>1, Zenon
      <3> HIDE DEF u, v, a, b, c, d
      <3> QED BY <2>1, <3>1, <3>2
    <2>3. Asked(s, p + 2) <=> c >= 192 \/ b >= 224
      <3> DEFINE u == s[p + 2 - 1]
                 v == s[p + 2 - 2]
      <3>1. Asked(s, p + 2) <=> (p + 2 > 1 /\ u >= 192) \/ (p + 2 > 2 /\ v >= 224)
        BY DEF Asked
      <3>2. u = c /\ v = b
        BY <2>1, Zenon
      <3> HIDE DEF u, v, a, b, c, d
      <3> QED BY <2>1, <3>1, <3>2
    <2>4. Asked(s, p + 3) <=> d >= 192 \/ c >= 224
      <3> DEFINE u == s[p + 3 - 1]
                 v == s[p + 3 - 2]
      <3>1. Asked(s, p + 3) <=> (p + 3 > 1 /\ u >= 192) \/ (p + 3 > 2 /\ v >= 224)
        BY DEF Asked
      <3>2. u = d /\ v = c
        BY <2>1, Zenon
      <3> HIDE DEF u, v, a, b, c, d
      <3> QED BY <2>1, <3>1, <3>2
    <2> QED BY <2>2, <2>3, <2>4, Zenon
  <1>6. p + 1 \in 1..l => c \in 0..255 /\ (c \in 128..191 <=> Asked(s, p + 1))
    BY <1>2
  <1>7. p + 2 \in 1..l => d \in 0..255 /\ (d \in 128..191 <=> Asked(s, p + 2))
    BY <1>2
  <1>8. /\ p + 1 \in 1..l \/ p + 1 = l + 1
        /\ p + 1 \in 1..l => p + 2 \in 1..l \/ p + 2 = l + 1
    BY <1>1
  <1> HIDE DEF l, a, b, c, d
  <1>9. ASSUME b < 128 PROVE ~Asked(s, p + 1)
    <2>1. ~(b >= 192) /\ ~(p > 1 /\ a >= 224)
      <3>1. ~(b >= 192)
        BY <1>4, <1>9
      <3>2. ASSUME p > 1 PROVE ~(a >= 224)
        <4>1. a < 192 /\ a \in 0..255
          BY <1>4, <3>2
        <4> QED BY <4>1
      <3> QED BY <3>1, <3>2
    <2> QED BY <1>5, <2>1, Zenon
  <1>10. ASSUME b >= 192 PROVE p + 1 \in 1..l /\ c \in 128..191
    <2>1. Asked(s, p + 1)
      BY <1>5, <1>10
    <2> QED BY <1>3, <1>6, <1>8, <2>1
  <1>11. ASSUME b \in 192..223 PROVE p + 1 \in 1..l /\ c \in 128..191 /\ ~Asked(s, p + 2)
    <2>1. p + 1 \in 1..l /\ c \in 128..191
      BY <1>10, <1>11
    <2>2. ~(c >= 192) /\ ~(b >= 224)
      BY <1>11, <2>1
    <2> QED BY <1>5, <2>1, <2>2
  <1>12. ASSUME b >= 224
         PROVE  p + 1 \in 1..l /\ p + 2 \in 1..l /\ d \in 128..191 /\ ~Asked(s, p + 3)
    <2>1. p + 1 \in 1..l /\ c \in 128..191
      <3>1. b >= 192
        BY <1>4, <1>12
      <3> QED BY <1>10, <3>1
    <2>2. Asked(s, p + 2)
      BY <1>5, <1>12
    <2>3. p + 2 \in 1..l /\ d \in 128..191
      BY <1>3, <1>7, <1>8, <2>1, <2>2
    <2>4. ~(d >= 192) /\ ~(c >= 224)
      BY <2>1, <2>3
    <2> QED BY <1>5, <2>1, <2>3, <2>4
  <1> QED BY <1>4, <1>9, <1>11, <1>12 DEF l, b, c, d

LEMMA LongChar ==
  ASSUME NEW s \in Seq(0..255), Utf8(s), NEW p \in 1..Len(s), ~Asked(s, p), s[p] >= 224
  PROVE  p + 2 \in 1..Len(s)
  BY NextChar, SMTT(40)

\* Classes and lower case, byte by byte.
LEMMA LetterFacts ==
  \A c \in 0..255 :
    /\ Lower(c) \in 0..255 /\ Lower(Lower(c)) = Lower(c)
    /\ Class(c) \in {"alpha", "digit"} =>
         /\ c < 128 /\ Lower(c) # 35 /\ Lower(c) < 128
         /\ Class(c) # "space" /\ Class(Lower(c)) # "space"
    /\ Class(c) \notin {"alpha", "digit"} => Lower(c) = c
    /\ Class(c) = "space" => c < 128
  BY DEF Lower, Class

\* A run in lower case says what the run says.
LEMMA LoweredSays ==
  ASSUME table.kind = "bert", NEW w \in Seq(0..255), NEW part \in Seq(0..255), Len(w) = Len(part),
         \A k \in 1..Len(part) : w[k] = Lower(part[k]) /\ Class(part[k]) \in {"alpha", "digit"}
  PROVE  Says(w, part)
  <1> DEFINE l == Len(part)
  <1>1. l \in Nat /\ l = Len(w)
    OBVIOUS
  <1>2. ASSUME NEW k \in 1..l
        PROVE  /\ part[k] \in 0..127 /\ w[k] \in 0..127 /\ Class(part[k]) # "space" /\ Class(w[k]) # "space"
               /\ Lower(w[k]) = Lower(part[k])
    <2> DEFINE c == part[k]
    <2>1. c \in 0..255 /\ w[k] = Lower(c) /\ Class(c) \in {"alpha", "digit"}
      BY ElementOfSeq
    <2> HIDE DEF c
    <2>2. /\ Lower(c) \in 0..255 /\ Lower(Lower(c)) = Lower(c) /\ c < 128 /\ Lower(c) < 128
          /\ Class(c) # "space" /\ Class(Lower(c)) # "space"
      BY <2>1, LetterFacts, ZenonT(60)
    <2> DEFINE e == Lower(c)
    <2>3. c \in 0..127 /\ e \in 0..127
      <3>1. c \in 0..255 /\ c < 128 /\ e \in 0..255 /\ e < 128
        BY <2>1, <2>2
      <3> HIDE DEF e
      <3> QED BY <3>1
    <2>4. w[k] \in 0..127 /\ Class(w[k]) # "space" /\ Lower(w[k]) = Lower(c)
      <3> HIDE DEF e
      <3>1. w[k] = e /\ Class(e) # "space" /\ Lower(e) = e
        BY <2>1, <2>2 DEF e
      <3> QED BY <2>3, <3>1 DEF e
    <2> QED BY <2>2, <2>3, <2>4, Zenon DEF c
  <1>3. ASSUME NEW k \in 1..l PROVE Kept(w, k) /\ Kept(part, k)
    <2>1. k > 1 => k - 1 \in 1..l
      BY <1>1
    <2>2. k > 1 => part[k - 1] \in 0..127 /\ w[k - 1] \in 0..127
      BY <1>2, <2>1
    <2>3. part[k] \in 0..127 /\ w[k] \in 0..127 /\ Class(part[k]) # "space" /\ Class(w[k]) # "space"
      BY <1>2
    <2>5. /\ Kept(w, k) <=> /\ Class(w[k]) # "space" /\ w[k] \notin 192..223
                           /\ (k > 1 => w[k - 1] \notin 192..223)
          /\ Kept(part, k) <=> /\ Class(part[k]) # "space" /\ part[k] \notin 192..223
                              /\ (k > 1 => part[k - 1] \notin 192..223)
      BY DEF Kept
    <2>6. w[k] \notin 192..223 /\ part[k] \notin 192..223
      <3> DEFINE x == w[k]
                 y == part[k]
      <3>1. x \in 0..127 /\ y \in 0..127
        BY <2>3
      <3> HIDE DEF x, y
      <3>2. x \notin 192..223 /\ y \notin 192..223
        BY <3>1
      <3> QED BY <3>2 DEF x, y
    <2>7. k > 1 => w[k - 1] \notin 192..223 /\ part[k - 1] \notin 192..223
      <3> DEFINE x == w[k - 1]
                 y == part[k - 1]
      <3>1. k > 1 => x \in 0..127 /\ y \in 0..127
        BY <2>2
      <3> HIDE DEF x, y
      <3>2. k > 1 => x \notin 192..223 /\ y \notin 192..223
        <4> SUFFICES ASSUME k > 1 PROVE x \notin 192..223 /\ y \notin 192..223
          OBVIOUS
        <4>1. x \in 0..127 /\ y \in 0..127
          BY <3>1
        <4> QED BY <4>1
      <3> QED BY <3>2 DEF x, y
    <2> QED BY <2>3, <2>5, <2>6, <2>7, Zenon
  <1>4. CoreParts(w) = CoreParts(part)
    <2>1. /\ CoreParts(w) \in Seq(Seq(0..255)) /\ Len(CoreParts(w)) = l
          /\ CoreParts(part) \in Seq(Seq(0..255)) /\ Len(CoreParts(part)) = l
      BY CorePartsType
    <2>2. ASSUME NEW k \in 1..l PROVE CoreParts(w)[k] = CoreParts(part)[k]
      <3>1. CoreParts(w)[k] = <<Lower(w[k])>>
        BY <1>3, CorePartsType
      <3>2. CoreParts(part)[k] = <<Lower(part[k])>>
        BY <1>3, CorePartsType
      <3> QED BY <1>2, <3>1, <3>2
    <2> DEFINE x == CoreParts(w)
               y == CoreParts(part)
    <2>3. x \in Seq(Seq(0..255)) /\ y \in Seq(Seq(0..255)) /\ Len(x) = Len(y) /\ \A k \in 1..Len(x) : x[k] = y[k]
      BY <2>1, <2>2
    <2> HIDE DEF x, y
    <2> HIDE DEF x, y
    <2>4. x = y
      BY <2>3, SeqEqual, SMTT(40)
    <2> QED BY <2>4 DEF x, y
  <1>5. Core(w) = Core(part)
    BY <1>4, CorePartsType
  <1>6. Ends(w) /\ Ends(part)
    <2>1. w # <<>> => l \in 1..l
      BY <1>1
    <2>2. part # <<>> => l \in 1..l
      BY <1>1
    <2>3. ASSUME NEW k \in 1..l PROVE w[k] \notin 192..223 /\ part[k] \notin 192..223
      <3> DEFINE x == w[k]
                 y == part[k]
      <3>1. x \in 0..127 /\ y \in 0..127
        BY <1>2
      <3> HIDE DEF x, y
      <3>2. x \notin 192..223 /\ y \notin 192..223
        BY <3>1
      <3> QED BY <3>2 DEF x, y
    <2> QED BY <2>1, <2>2, <2>3 DEF Ends
  <1> QED BY <1>5, <1>6 DEF Says

\* Spaces, and characters of two bytes, say nothing to BERT.
LEMMA SpaceSays ==
  ASSUME table.kind = "bert", NEW c \in 0..255, Class(c) = "space" PROVE Says(<<>>, <<c>>)
  <1>1. CoreParts(<<c>>) = <<<<>>>>
    BY DEF CoreParts, Kept
  <1>2. Core(<<c>>) = <<>>
    <2>1. <<>> \in Seq(Nat)
      OBVIOUS
    <2>2. FlattenSeq(<<<<>>>>) = <<>>
      BY <2>1, FlattenOfOne
    <2>3. <<c>> \in Seq(0..255)
      OBVIOUS
    <2> QED BY <1>1, <2>2, <2>3, CorePartsType
  <1>3. Core(<<>>) = <<>>
    <2>1. CoreParts(<<>>) = <<>> /\ Core(<<>>) = FlattenSeq(CoreParts(<<>>))
      BY DEF CoreParts, Core
    <2> QED BY <2>1, FlattenOfNone
  <1>4. c \notin 192..223
    <2>1. c \in 0..255 /\ c < 128
      BY LetterFacts, Zenon
    <2> QED BY <2>1
  <1> QED BY <1>2, <1>3, <1>4 DEF Says, Ends

LEMMA ShortSays ==
  ASSUME table.kind = "bert", NEW a \in 192..223, NEW b \in 128..191 PROVE Says(<<>>, <<a, b>>)
  <1> DEFINE t == <<a, b>>
  <1>1. t \in Seq(0..255) /\ Len(t) = 2 /\ t[1] = a /\ t[2] = b /\ 1 \in 1..2 /\ 2 \in 1..2
    OBVIOUS
  <1> HIDE DEF t
  <1>2. ~Kept(t, 1) /\ ~Kept(t, 2)
    BY <1>1 DEF Kept
  <1>3. CoreParts(t)[1] = <<>> /\ CoreParts(t)[2] = <<>> /\ CoreParts(t) \in Seq(Seq(0..255)) /\ Len(CoreParts(t)) = 2
    <2>1. CoreParts(t) \in Seq(Seq(0..255)) /\ Len(CoreParts(t)) = 2
      BY <1>1, CorePartsType
    <2>2. CoreParts(t)[1] = <<>>
      BY <1>1, <1>2, CorePartsType
    <2>3. CoreParts(t)[2] = <<>>
      BY <1>1, <1>2, CorePartsType
    <2> QED BY <2>1, <2>2, <2>3
  <1>4. FlattenSeq(CoreParts(t)) = <<>>
    <2> DEFINE x == CoreParts(t)
               e == <<<<>>>>
    <2>1. e \in Seq(Seq(0..255)) /\ Len(e) = 1 /\ e[1] = <<>>
      OBVIOUS
    <2>2. FlattenSeq(e) = <<>>
      <3>1. <<>> \in Seq(Nat)
        OBVIOUS
      <3> QED BY <3>1, FlattenOfOne
    <2>3. /\ x \in Seq(Seq(0..255)) /\ Len(x) = Len(e) + Len(e)
          /\ \A k \in 1..Len(e) : x[k] = e[k]
          /\ \A k \in 1..Len(e) : x[Len(e) + k] = e[k]
      BY <1>3, <2>1
    <2> HIDE DEF x, e
    <2>4. FlattenSeq(x) = FlattenSeq(e) \o FlattenSeq(e)
      BY <2>1, <2>3, FlattenOfParts, ZenonT(60)
    <2> QED BY <2>2, <2>4 DEF x
  <1>5. Core(t) = <<>>
    BY <1>1, <1>4, CorePartsType
  <1>6. Core(<<>>) = <<>>
    <2>1. CoreParts(<<>>) = <<>> /\ Core(<<>>) = FlattenSeq(CoreParts(<<>>))
      BY DEF CoreParts, Core
    <2> QED BY <2>1, FlattenOfNone
  <1>7. Ends(t) /\ Ends(<<>>)
    BY <1>1 DEF Ends
  <1> QED BY <1>1, <1>5, <1>6, <1>7 DEF Says, t

-----------------------------------------------------------------------------
(* BERT says the text.                                                        *)

LEMMA AskedNext ==
  ASSUME NEW s, NEW n \in Nat, 1 <= n
  PROVE  Asked(s, n + 1) <=> s[n] >= 192 \/ (n > 1 /\ s[n - 1] >= 224)
  <1> DEFINE u == s[n + 1 - 1]
             v == s[n + 1 - 2]
  <1>1. n + 1 > 1 /\ n + 1 - 1 = n /\ n + 1 - 2 = n - 1 /\ (n + 1 > 2 <=> n > 1)
    OBVIOUS
  <1>2. Asked(s, n + 1) <=> (n + 1 > 1 /\ u >= 192) \/ (n + 1 > 2 /\ v >= 224)
    BY DEF Asked
  <1>3. u = s[n] /\ v = s[n - 1]
    BY <1>1, Zenon
  <1> HIDE DEF u, v
  <1> QED BY <1>1, <1>2, <1>3

\* The word at a place has pieces and says the text it is cut from.
LEMMA WordAtSays ==
  ASSUME TableOK, table.kind = "bert", NEW s \in Seq(0..255), HasPieces(table, s),
         NEW p \in 1..Len(s), ~Asked(s, p), ~Gone(s, p)
  PROVE  /\ After(s, p) \in (p + 1)..(Len(s) + 1) /\ ~Asked(s, After(s, p))
         /\ Pieced(WordAt(s, p)) /\ Says(WordAt(s, p), SubSeq(s, p, After(s, p) - 1))
  <1> DEFINE l == Len(s)
             c == s[p]
             w == WordAt(s, p)
             q == After(s, p)
  <1>1. l \in Nat /\ p \in 1..l /\ p \in DOMAIN s /\ DOMAIN s = 1..l
    OBVIOUS
  <1>2. /\ Utf8(s)
        /\ \A k \in DOMAIN s :
             /\ s[k] >= 224 => InVocab(table, SubSeq(s, k, k + 2))
             /\ s[k] < 128 /\ Class(s[k]) # "space" => InVocab(table, <<Lower(s[k])>>)
             /\ Class(s[k]) \in {"alpha", "digit"} => InVocab(table, Sharps \o <<Lower(s[k])>>)
    BY DEF HasPieces
  <1>3. /\ c \in 0..255 /\ c \notin 128..191
        /\ c < 128 => ~Asked(s, p + 1)
        /\ c >= 224 => p + 1 \in 1..l /\ p + 2 \in 1..l /\ s[p + 2] \in 128..191 /\ ~Asked(s, p + 3)
    BY <1>2, NextChar
  <1>4. CASE c >= 224
    <2> DEFINE b == p + 2
               part == SubSeq(s, p, b)
    <2>1. b \in 1..l /\ s[b] \in 128..191 /\ ~Asked(s, p + 3)
      BY <1>3, <1>4
    <2>2. w = part /\ q = p + 3
      <3>1. ~(p + 2 > Len(s))
        BY <1>1, <2>1
      <3> QED BY <1>4, <3>1 DEF WordAt, After
    <2>3. p \in Nat /\ 1 <= p /\ b \in Nat /\ p <= b + 1 /\ b <= Len(s) /\ b - p + 1 = 3 /\ p + 3 - 1 = b
          /\ p + 3 \in (p + 1)..(l + 1) /\ p + 1 - 1 = p /\ p + 3 - 1 = b
      BY <1>1, <2>1
    <2>4. part \in Seq(0..255) /\ Len(part) = 3 /\ part[1] = c /\ part[3] = s[b]
      <3>1. /\ SubSeq(s, p, b) \in Seq(0..255) /\ Len(SubSeq(s, p, b)) = b - p + 1
            /\ \A k \in 1..(b - p + 1) : SubSeq(s, p, b)[k] = s[p + k - 1]
        <4> HIDE DEF b
        <4>1. p \in Nat /\ b \in Nat /\ 1 <= p /\ p <= b + 1 /\ b <= Len(s)
          BY <2>3
        <4>2. IsPart(SubSeq(s, p, b), s, p, b)
          BY <4>1, BytePart, Zenon
        <4> QED BY <4>2 DEF IsPart
      <3>2. 1 \in 1..3 /\ 3 \in 1..3
        OBVIOUS
      <3> HIDE DEF b
      <3> QED BY <2>3, <3>1, <3>2
    <2>5. Pieced(part)
      <3>1. InVocab(table, part)
        BY <1>1, <1>2, <1>4
      <3>2. part # <<>> /\ part[1] # 35
        BY <1>4, <2>4
      <3> HIDE DEF part
      <3> QED BY <2>4, <3>1, <3>2 DEF Pieced
    <2>6. Says(part, part)
      <3>1. Ends(part)
        <4> DEFINE e == s[b]
        <4>1. part[Len(part)] = e /\ e \in 128..191
          BY <2>1, <2>4
        <4> HIDE DEF e, part
        <4>2. e \notin 192..223
          BY <4>1
        <4> QED BY <4>1, <4>2 DEF Ends
      <3> HIDE DEF part
      <3> QED BY <2>4, <3>1, SaysItself
    <2> QED BY <2>1, <2>2, <2>3, <2>5, <2>6
  <1>5. CASE ~(c >= 224) /\ Letters(s, p, p)
    <2> DEFINE n == RunEnd(s, p)
               m == n - p + 1
               part == SubSeq(s, p, n)
    <2>1. w = [k \in 1..m |-> Lower(s[p + k - 1])] /\ q = n + 1
      BY <1>5, Zenon DEF WordAt, After
    <2>2. n \in p..l /\ Letters(s, n, p)
      BY <1>5, RunEndIs
    <2> HIDE DEF n, w
    <2>3. /\ p \in Nat /\ 1 <= p /\ n \in Nat /\ p <= n + 1 /\ n <= Len(s) /\ m \in Nat /\ m # 0
          /\ n + 1 - 1 = n /\ n + 1 \in (p + 1)..(l + 1) /\ n \in 1..l
      BY <1>1, <2>2
    <2>4. /\ part \in Seq(0..255) /\ Len(part) = m
          /\ \A k \in 1..m : part[k] = s[p + k - 1]
      <3>1. p \in Nat /\ n \in Nat /\ 1 <= p /\ p <= n + 1 /\ n <= Len(s)
        BY <2>3
      <3>2. IsPart(part, s, p, n)
        BY <3>1, BytePart, Zenon
      <3> HIDE DEF part
      <3> QED BY <3>2 DEF IsPart
    <2>5. ASSUME NEW k \in 1..m
          PROVE  /\ p + k - 1 \in 1..l /\ s[p + k - 1] \in 0..255 /\ Class(s[p + k - 1]) \in {"alpha", "digit"}
                 /\ Lower(s[p + k - 1]) \in 0..255 /\ Lower(s[p + k - 1]) # 35
                 /\ InVocab(table, <<Lower(s[p + k - 1])>>)
                 /\ InVocab(table, Sharps \o <<Lower(s[p + k - 1])>>)
      <3> DEFINE j == p + k - 1
      <3>1. j \in p..n /\ j \in 1..l
        BY <1>1, <2>2
      <3> HIDE DEF j
      <3>2. s[j] \in 0..255 /\ Class(s[j]) \in {"alpha", "digit"}
        BY <2>2, <3>1, ElementOfSeq DEF Letters
      <3>3. s[j] < 128 /\ Class(s[j]) # "space" /\ Lower(s[j]) \in 0..255 /\ Lower(s[j]) # 35
        BY <3>2, LetterFacts
      <3>4. InVocab(table, <<Lower(s[j])>>) /\ InVocab(table, Sharps \o <<Lower(s[j])>>)
        BY <1>1, <1>2, <3>1, <3>2, <3>3
      <3> QED BY <3>1, <3>2, <3>3, <3>4 DEF j
    <2>6. w \in Seq(0..255) /\ Len(w) = m /\ \A k \in 1..m : w[k] = Lower(s[p + k - 1])
      <3> HIDE DEF m
      <3>1. \A k \in 1..m : Lower(s[p + k - 1]) \in 0..255
        BY <2>5
      <3> QED BY <2>1, <2>3, <3>1
    <2>7. Pieced(w)
      <3>1. 1 \in 1..m /\ w # <<>>
        BY <2>3, <2>6
      <3>2. w[1] # 35 /\ InVocab(table, <<w[1]>>)
        BY <2>5, <2>6, <3>1
      <3>3. \A k \in 1..Len(w) : InVocab(table, Sharps \o <<w[k]>>)
        BY <2>5, <2>6
      <3> HIDE DEF m
      <3> QED BY <2>6, <3>1, <3>2, <3>3 DEF Pieced
    <2>8. Says(w, part)
      <3>1. Len(w) = Len(part)
        BY <2>4, <2>6
      <3>2. \A k \in 1..Len(part) : w[k] = Lower(part[k]) /\ Class(part[k]) \in {"alpha", "digit"}
        BY <2>4, <2>5, <2>6, ZenonT(60)
      <3> HIDE DEF part
      <3> QED BY <2>4, <2>6, <3>1, <3>2, LoweredSays
    <2>9. ~Asked(s, n + 1)
      <3> DEFINE a == s[n]
                 b == s[n - 1]
      <3>1. a \in 0..127
        <4>1. a \in 0..255 /\ Class(a) \in {"alpha", "digit"}
          <5>1. n \in p..n
            BY <2>2
          <5> QED BY <2>2, <2>3, <5>1, ElementOfSeq DEF Letters
        <4>2. a < 128
          BY <4>1, LetterFacts
        <4> HIDE DEF a
        <4> QED BY <4>1, <4>2
      <3>2. n > 1 => b \in 0..191
        <4>1. CASE n = p
          <5>1. n > 1 => ~(b >= 192)
            BY <4>1 DEF Asked
          <5>2. n > 1 => b \in 0..255
            <6>1. n > 1 => n - 1 \in 1..l
              BY <2>3
            <6> QED BY <6>1, ElementOfSeq
          <5> HIDE DEF b
          <5> SUFFICES ASSUME n > 1 PROVE b \in 0..191
            OBVIOUS
          <5>3. ~(b >= 192) /\ b \in 0..255
            BY <5>1, <5>2
          <5> QED BY <5>3
        <4>2. CASE n # p
          <5>1. n - 1 \in p..n /\ n - 1 \in 1..l
            BY <1>1, <2>2, <4>2
          <5>2. b \in 0..255 /\ Class(b) \in {"alpha", "digit"}
            BY <2>2, <5>1, ElementOfSeq DEF Letters
          <5>3. b < 128
            BY <5>2, LetterFacts
          <5> HIDE DEF b
          <5> QED BY <5>2, <5>3
        <4> QED BY <4>1, <4>2
      <3>3. Asked(s, n + 1) => a >= 192 \/ (n > 1 /\ b >= 224)
        <4>1. Asked(s, n + 1) <=> s[n] >= 192 \/ (n > 1 /\ s[n - 1] >= 224)
          BY <2>3, AskedNext
        <4> QED BY <4>1
      <3> HIDE DEF a, b
      <3>4. ~(a >= 192)
        BY <3>1
      <3>5. ~(n > 1 /\ b >= 224)
        <4> SUFFICES ASSUME n > 1 PROVE ~(b >= 224)
          OBVIOUS
        <4>1. b \in 0..191
          BY <3>2
        <4> QED BY <4>1
      <3> QED BY <3>3, <3>4, <3>5, Zenon
    <2> QED BY <2>1, <2>3, <2>7, <2>8, <2>9 DEF w
  <1>6. CASE ~(c >= 224) /\ ~Letters(s, p, p)
    <2>1. w = <<c>> /\ q = p + 1
      BY <1>6, Zenon DEF WordAt, After
    <2>2. Class(c) \notin {"alpha", "digit"} /\ Class(c) # "space" /\ c < 128
      <3>1. Class(c) \notin {"alpha", "digit"}
        <4>1. \A k \in p..p : k = p
          BY <1>1
        <4> QED BY <1>6, <4>1 DEF Letters
      <3>2. Class(c) # "space" /\ ~(c >= 128)
        BY <1>6, Zenon DEF Gone
      <3> HIDE DEF c
      <3>3. c < 128
        BY <1>3, <3>2
      <3> QED BY <3>1, <3>2, <3>3
    <2>3. Lower(c) = c
      <3>1. c \in 0..255 /\ Class(c) \notin {"alpha", "digit"}
        BY <1>3, <2>2
      <3> HIDE DEF c
      <3> QED BY <3>1, LetterFacts
    <2>4. InVocab(table, <<c>>)
      BY <1>1, <1>2, <2>2, <2>3
    <2>5. p + 1 \in (p + 1)..(l + 1) /\ p + 1 - 1 = p
      BY <1>1
    <2>6. SubSeq(s, p, p) = <<c>>
      BY PartOfOne
    <2> DEFINE x == <<c>>
    <2>7. x \in Seq(0..255) /\ x # <<>> /\ Len(x) = 1 /\ x[1] = c
      <3> HIDE DEF c
      <3> QED BY <1>3
    <2>8. Pieced(x)
      <3>1. InVocab(table, x)
        BY <2>4
      <3> HIDE DEF x
      <3> QED BY <2>7, <3>1 DEF Pieced
    <2>9. Says(x, x)
      <3>1. c \notin 192..223
        <4>1. c \in 0..255 /\ c < 128
          BY <1>3, <2>2
        <4> HIDE DEF c
        <4> QED BY <4>1
      <3> HIDE DEF x, c
      <3>2. Ends(x)
        BY <2>7, <3>1 DEF Ends
      <3> QED BY <2>7, <3>2, SaysItself
    <2>10. ~Asked(s, p + 1)
      BY <1>3, <2>2
    <2>11. SubSeq(s, p, q - 1) = x /\ q \in (p + 1)..(l + 1)
      BY <2>1, <2>5, <2>6
    <2>12. w = x /\ q = p + 1
      BY <2>1
    <2> HIDE DEF w, q, x, c, l
    <2>13. q \in (p + 1)..(l + 1) /\ ~Asked(s, q) /\ Pieced(w) /\ Says(w, SubSeq(s, p, q - 1))
      BY <2>8, <2>9, <2>10, <2>11, <2>12, Zenon
    <2> QED BY <2>13 DEF w, q, l
  <1> QED BY <1>4, <1>5, <1>6

\* What is in no word says nothing.
LEMMA GoneSays ==
  ASSUME TableOK, table.kind = "bert", NEW s \in Seq(0..255), HasPieces(table, s),
         NEW p \in 1..Len(s), ~Asked(s, p), Gone(s, p)
  PROVE  \/ p + 1 \in (p + 1)..(Len(s) + 1) /\ ~Asked(s, p + 1) /\ Says(<<>>, SubSeq(s, p, p))
         \/ /\ p + 2 \in (p + 1)..(Len(s) + 1) /\ ~Asked(s, p + 2) /\ Says(<<>>, SubSeq(s, p, p + 1))
            /\ p + 1 \in 1..Len(s) /\ Gone(s, p + 1)
  <1> DEFINE l == Len(s)
             c == s[p]
  <1>1. l \in Nat /\ p \in 1..l
    OBVIOUS
  <1>2. Utf8(s)
    BY DEF HasPieces
  <1>3. /\ c \in 0..255 /\ c \notin 128..191
        /\ c < 128 => ~Asked(s, p + 1)
        /\ c \in 192..223 => p + 1 \in 1..l /\ s[p + 1] \in 128..191 /\ ~Asked(s, p + 2)
    BY <1>2, NextChar
  <1>4. (c < 128 /\ Class(c) = "space") \/ c \in 192..223
    <2>1. ~(c >= 224) /\ (c >= 128 \/ Class(c) = "space")
      BY Zenon DEF Gone
    <2>2. Class(c) = "space" => c < 128
      <3>1. c \in 0..255
        BY <1>3
      <3> HIDE DEF c
      <3> QED BY <3>1, LetterFacts
    <2> HIDE DEF c
    <2> QED BY <1>3, <2>1, <2>2
  <1>5. CASE c < 128 /\ Class(c) = "space"
    <2>1. SubSeq(s, p, p) = <<c>>
      BY PartOfOne
    <2>2. Says(<<>>, <<c>>)
      <3>1. c \in 0..255 /\ Class(c) = "space"
        BY <1>3, <1>5
      <3> HIDE DEF c
      <3> QED BY <3>1, SpaceSays
    <2>3. p + 1 \in (p + 1)..(l + 1)
      BY <1>1
    <2> QED BY <1>3, <1>5, <2>1, <2>2, <2>3
  <1>6. CASE c \in 192..223
    <2> DEFINE d == s[p + 1]
    <2>1. p + 1 \in 1..l /\ d \in 128..191 /\ ~Asked(s, p + 2)
      BY <1>3, <1>6
    <2>2. SubSeq(s, p, p + 1) = <<c, d>>
      <3> DEFINE b == p + 1
                 u == SubSeq(s, p, b)
                 v == <<c, d>>
      <3>1. p \in Nat /\ b \in Nat /\ 1 <= p /\ p <= b + 1 /\ b <= Len(s) /\ b - p + 1 = 2
            /\ p + 1 - 1 = p /\ p + 2 - 1 = b
        BY <1>1, <2>1
      <3>2. u \in Seq(0..255) /\ Len(u) = b - p + 1 /\ \A k \in 1..(b - p + 1) : u[k] = s[p + k - 1]
        <4> HIDE DEF b
        <4>1. p \in Nat /\ b \in Nat /\ 1 <= p /\ p <= b + 1 /\ b <= Len(s)
          BY <3>1
        <4>2. IsPart(u, s, p, b)
          BY <4>1, BytePart, Zenon
        <4> HIDE DEF u
        <4> QED BY <4>2 DEF IsPart
      <3>3. u[1] = c /\ u[2] = d /\ Len(u) = 2
        <4>1. 1 \in 1..2 /\ 2 \in 1..2
          OBVIOUS
        <4> HIDE DEF u
        <4>2. u[1] = s[p + 1 - 1] /\ u[2] = s[p + 2 - 1]
          BY <3>1, <3>2, <4>1
        <4> QED BY <3>1, <3>2, <4>2
      <3>4. v \in Seq(0..255) /\ Len(v) = 2 /\ v[1] = c /\ v[2] = d
        <4>1. c \in 0..255 /\ d \in 0..255
          <5> HIDE DEF c, d
          <5> QED BY <1>3, <2>1
        <4> HIDE DEF c, d
        <4> QED BY <4>1
      <3> HIDE DEF u, v, c, d
      <3>5. u = v
        <4>1. \A k \in 1..Len(u) : u[k] = v[k]
          BY <3>3, <3>4
        <4>2. Len(u) = Len(v)
          BY <3>3, <3>4
        <4> QED BY <3>2, <3>4, <4>1, <4>2, BytesEqual
      <3> QED BY <3>5 DEF u, v
    <2>3. Says(<<>>, <<c, d>>)
      <3> HIDE DEF c, d
      <3> QED BY <1>6, <2>1, ShortSays
    <2>4. Gone(s, p + 1)
      <3> DEFINE e == s[p + 1]
      <3>1. e \in 128..191
        BY <2>1
      <3> HIDE DEF e
      <3>2. ~(e >= 224) /\ e >= 128
        BY <3>1
      <3> QED BY <3>2, Zenon DEF Gone, e
    <2>5. p + 2 \in (p + 1)..(l + 1)
      BY <1>1, <2>1
    <2> QED BY <2>1, <2>2, <2>3, <2>4, <2>5
  <1> QED BY <1>4, <1>5, <1>6

\* The words of a text say it.
LEMMA BertWordsSay ==
  ASSUME TableOK, table.kind = "bert", NEW s \in Seq(0..255), HasPieces(table, s)
  PROVE  BertWords(s) \in Seq({w \in Seq(0..255) : Pieced(w)}) /\ Says(FlattenSeq(BertWords(s)), s)
  <1> DEFINE l == Len(s)
             m == l + 2
             X == Seq({w \in Seq(0..255) : Pieced(w)})
  <1>1. l \in Nat /\ m \in Nat /\ m + 1 = l + 3 /\ table.kind \in {"huggingface", "tiktoken", "bert"}
    OBVIOUS
  <1>2. PICK g : /\ BertWords(s) = g[1]
                 /\ \A p \in 1..(l + 3) :
                      g[p] = IF p > l THEN <<>>
                             ELSE IF Gone(s, p) THEN g[p + 1]
                             ELSE <<WordAt(s, p)>> \o g[After(s, p)]
    BY BertWordsFrom
  <1>3. \A x \in X : FlattenSeq(x) \in Seq(0..255) /\ x \in Seq(Seq(0..255))
    <2>1. \A x \in X : x \in Seq(Seq(0..255))
      <3>1. {w \in Seq(0..255) : Pieced(w)} \subseteq Seq(0..255)
        OBVIOUS
      <3> QED BY <3>1, SeqMonotonic
    <2> HIDE DEF X
    <2> QED BY <2>1, FlattenType
  <1>4. \A x, y \in X : x \o y \in X
    BY ConcatProperties
  <1>5. \A w : Pieced(w) => <<w>> \in X
    <2> TAKE w
    <2> SUFFICES ASSUME Pieced(w) PROVE <<w>> \in X
      OBVIOUS
    <2>1. w \in Seq(0..255)
      BY DEF Pieced
    <2> QED BY <2>1
  <1>6. <<>> \in X
    OBVIOUS
  <1> HIDE DEF X, m
  <1> DEFINE T == {p \in 1..(m + 1) : p <= l + 1 /\ ~Asked(s, p) =>
                     g[p] \in X /\ Says(FlattenSeq(g[p]), SubSeq(s, p, l))}
  <1>7. ASSUME NEW p \in 1..l, NEW q \in (p + 1)..(l + 1), ~Asked(s, q), q \in T, NEW b,
               Says(b, SubSeq(s, p, q - 1))
        PROVE  g[q] \in X /\ Says(b \o FlattenSeq(g[q]), SubSeq(s, p, l))
    <2>1. g[q] \in X /\ Says(FlattenSeq(g[q]), SubSeq(s, q, l))
      <3>1. q <= l + 1
        BY <1>1
      <3> QED BY <1>7, <3>1
    <2>2. SubSeq(s, p, q - 1) \o SubSeq(s, q, l) = SubSeq(s, p, l)
      <3> DEFINE c == q - 1
      <3>1. p \in Nat /\ c \in Nat /\ 1 <= p /\ p <= c + 1 /\ c <= l /\ l <= Len(s) /\ c + 1 = q
        BY <1>1
      <3> HIDE DEF c, l
      <3>2. SubSeq(s, p, c) \o SubSeq(s, c + 1, l) = SubSeq(s, p, l)
        BY <1>1, <3>1, PartsJoin
      <3> QED BY <3>1, <3>2 DEF c
    <2>3. Says(b \o FlattenSeq(g[q]), SubSeq(s, p, q - 1) \o SubSeq(s, q, l))
      BY <1>1, <1>7, <2>1, SaysBoth
    <2> QED BY <2>1, <2>2, <2>3
  <1>8. ASSUME NEW p \in 1..(m + 1), \A q \in (p + 1)..(m + 1) : q \in T PROVE p \in T
    <2> SUFFICES ASSUME p <= l + 1, ~Asked(s, p)
                 PROVE  g[p] \in X /\ Says(FlattenSeq(g[p]), SubSeq(s, p, l))
      OBVIOUS
    <2>0. \A q \in (p + 1)..(l + 1) : q \in T
      <3>1. \A q \in (p + 1)..(l + 1) : q \in (p + 1)..(m + 1)
        BY <1>1
      <3> HIDE DEF T
      <3> QED BY <1>8, <3>1
    <2>1. CASE p > l
      <3>1. p = l + 1 /\ p \in 1..(l + 3)
        BY <1>1, <2>1
      <3>2. g[p] = <<>>
        BY <1>2, <2>1, <3>1, Zenon
      <3>3. SubSeq(s, p, l) = <<>>
        BY <1>1, <3>1
      <3> QED BY <1>6, <3>2, <3>3, FlattenOfNone, SaysNothing
    <2>2. CASE ~(p > l) /\ Gone(s, p)
      <3>1. p \in 1..l /\ p \in 1..(l + 3)
        BY <1>1, <2>2
      <3>2. g[p] = g[p + 1]
        BY <1>2, <2>2, <3>1, Zenon
      <3>3. \A x \in X : <<>> \o FlattenSeq(x) = FlattenSeq(x)
        BY <1>3, ConcatEmptySeq
      <3>4. CASE p + 1 \in (p + 1)..(l + 1) /\ ~Asked(s, p + 1) /\ Says(<<>>, SubSeq(s, p, p))
        <4> DEFINE q == p + 1
        <4>1. q \in (p + 1)..(l + 1) /\ ~Asked(s, q) /\ q - 1 = p /\ q \in T
          BY <1>1, <2>0, <3>4
        <4>2. Says(<<>>, SubSeq(s, p, q - 1))
          BY <3>4, <4>1
        <4> HIDE DEF q, T
        <4>3. g[q] \in X /\ Says(<<>> \o FlattenSeq(g[q]), SubSeq(s, p, l))
          BY <1>7, <3>1, <4>1, <4>2
        <4> QED BY <3>2, <3>3, <4>3 DEF q
      <3>5. CASE /\ p + 2 \in (p + 1)..(l + 1) /\ ~Asked(s, p + 2) /\ Says(<<>>, SubSeq(s, p, p + 1))
                 /\ p + 1 \in 1..l /\ Gone(s, p + 1)
        <4> DEFINE q == p + 2
        <4>1. q \in (p + 1)..(l + 1) /\ ~Asked(s, q) /\ q - 1 = p + 1 /\ q \in T
          BY <1>1, <2>0, <3>5
        <4>2. Says(<<>>, SubSeq(s, p, q - 1))
          BY <3>5, <4>1
        <4>4. g[p + 1] = g[q]
          <5> DEFINE r == p + 1
          <5>1. r \in 1..(l + 3) /\ ~(r > l) /\ Gone(s, r) /\ r + 1 = q
            BY <1>1, <3>5
          <5> HIDE DEF r, q
          <5>2. g[r] = g[r + 1]
            BY <1>2, <5>1, Zenon
          <5> QED BY <5>1, <5>2 DEF r
        <4> HIDE DEF q, T
        <4>3. g[q] \in X /\ Says(<<>> \o FlattenSeq(g[q]), SubSeq(s, p, l))
          BY <1>7, <3>1, <4>1, <4>2
        <4> QED BY <3>2, <3>3, <4>3, <4>4
      <3> QED BY <2>2, <3>1, <3>4, <3>5, GoneSays
    <2>3. CASE ~(p > l) /\ ~Gone(s, p)
      <3> DEFINE q == After(s, p)
                 w == WordAt(s, p)
      <3>1. p \in 1..l /\ p \in 1..(l + 3)
        BY <1>1, <2>3
      <3>2. g[p] = <<w>> \o g[q]
        BY <1>2, <2>3, <3>1, Zenon
      <3>3. q \in (p + 1)..(l + 1) /\ ~Asked(s, q) /\ Pieced(w) /\ Says(w, SubSeq(s, p, q - 1))
        BY <2>3, <3>1, WordAtSays
      <3>4. q \in T
        BY <2>0, <3>3
      <3> HIDE DEF q, w, T
      <3>5. g[q] \in X /\ Says(w \o FlattenSeq(g[q]), SubSeq(s, p, l))
        BY <1>7, <3>1, <3>3, <3>4
      <3>6. <<w>> \in X /\ w \in Seq(0..255)
        BY <1>5, <3>3 DEF Pieced
      <3>7. FlattenSeq(<<w>> \o g[q]) = w \o FlattenSeq(g[q])
        <4>1. <<w>> \in Seq(Seq(0..255))
          BY <1>3, <3>6
        <4>2. g[q] \in Seq(Seq(0..255))
          BY <1>3, <3>5
        <4>3. FlattenSeq(<<w>>) = w
          BY <3>6, FlattenOfOne
        <4> QED BY <4>1, <4>2, <4>3, FlattenOfTwo, ZenonT(60)
      <3> QED BY <1>4, <3>2, <3>5, <3>6, <3>7
    <2> QED BY <2>1, <2>2, <2>3
  <1>9. 1 \in T
    <2>1. 1..(m + 1) \subseteq T
      <3> HIDE DEF T
      <3> QED BY <1>1, <1>8, DownInduction
    <2>2. 1 \in 1..(m + 1)
      BY <1>1
    <2> HIDE DEF T
    <2> QED BY <2>1, <2>2
  <1>10. ~Asked(s, 1) /\ 1 <= l + 1
    BY <1>1 DEF Asked
  <1>11. SubSeq(s, 1, l) = s
    OBVIOUS
  <1> QED BY <1>2, <1>9, <1>10, <1>11 DEF X

\* BERT gives back what it keeps of the text.
LEMMA BertSays ==
  ASSUME TableOK, table.kind = "bert", NEW s \in Seq(0..255), HasPieces(table, s)
  PROVE  Bert(s) \in Seq(Nat) /\ Says(Back(Bert(s)), s)
  <1> DEFINE words == BertWords(s)
             out == [k \in DOMAIN words |-> WordPiece(words[k])]
  <1>1. words \in Seq({w \in Seq(0..255) : Pieced(w)}) /\ Says(FlattenSeq(words), s)
    BY BertWordsSay
  <1>2. PICK back : /\ PartByPart(back, Nat, 0..255)
                    /\ \A x \in Seq(Nat) : back[x] = Back(x)
                    /\ \A id \in Nat : back[<<id>>] = Unsharped(Decode(id))
    BY BackIs
  <1>3. Bert(s) = FlattenSeq(out)
    BY Zenon DEF Bert
  <1> HIDE DEF words
  <1>4. /\ Len(words) \in Nat /\ DOMAIN words = 1..Len(words)
        /\ \A k \in 1..Len(words) : words[k] \in Seq(0..255) /\ Pieced(words[k])
    <2> DEFINE W == {w \in Seq(0..255) : Pieced(w)}
    <2>1. \A w \in W : w \in Seq(0..255) /\ Pieced(w)
      OBVIOUS
    <2>2. words \in Seq(W)
      BY <1>1
    <2> HIDE DEF W
    <2> QED BY <2>1, <2>2, LenProperties, ElementOfSeq
  <1>5. ASSUME NEW k \in 1..Len(words)
        PROVE  WordPiece(words[k]) \in Seq(Nat) /\ back[WordPiece(words[k])] = words[k]
    <2> DEFINE w == words[k]
    <2>1. Pieced(w)
      BY <1>4
    <2> HIDE DEF w
    <2>2. PartByPart(back, Nat, 0..255) /\ \A id \in Nat : back[<<id>>] = Unsharped(Decode(id))
      BY <1>2
    <2>3. WordPiece(w) \in Seq(Nat) /\ back[WordPiece(w)] = w
      BY <2>1, <2>2, WordPieceSays
    <2> QED BY <2>3 DEF w
  <1>6. out \in Seq(Seq(Nat)) /\ Len(out) = Len(words) /\ \A k \in 1..Len(words) : out[k] = WordPiece(words[k])
    BY <1>4, <1>5
  <1> HIDE DEF out
  <1>7. FlattenSeq(out) \in Seq(Nat)
    BY <1>6, FlattenType
  <1>8. back[FlattenSeq(out)] = FlattenSeq(words)
    <2> DEFINE A == Nat
               B == 0..255
    <2>1. PartByPart(back, A, B) /\ out \in Seq(Seq(A)) /\ words \in Seq(Seq(B))
      <3>1. words \in Seq(Seq(B))
        <4>1. {w \in Seq(0..255) : Pieced(w)} \subseteq Seq(0..255)
          OBVIOUS
        <4> QED BY <1>1, <4>1, SeqMonotonic
      <3> QED BY <1>2, <1>6, <3>1
    <2>2. Len(out) = Len(words)
      BY <1>6
    <2>3. ASSUME NEW k \in DOMAIN words PROVE back[out[k]] = words[k]
      BY <1>4, <1>5, <1>6
    <2> HIDE DEF A, B
    <2> QED BY <2>3, <2>2, <2>1, FlattenOfFlat, ZenonT(60)
  <1> QED BY <1>1, <1>2, <1>3, <1>7, <1>8

-----------------------------------------------------------------------------
(* A segment of the text is encoded.                                          *)

\* The file has pieces for the part of a text between two characters.
LEMMA PartHasPieces ==
  ASSUME TableOK, NEW s \in Seq(0..255), HasPieces(table, s),
         NEW a \in Nat, NEW b \in Nat, 1 <= a, a <= b + 1, b <= Len(s),
         table.kind = "bert" => ~Asked(s, a) /\ ~Asked(s, b + 1)
  PROVE  HasPieces(table, SubSeq(s, a, b))
  <1> DEFINE u == SubSeq(s, a, b)
             n == b - a + 1
             l == Len(s)
  <1>1. /\ u \in Seq(0..255) /\ Len(u) = n /\ \A k \in 1..n : u[k] = s[a + k - 1]
    <2>1. IsPart(u, s, a, b)
      BY BytePart, Zenon
    <2> HIDE DEF u
    <2> QED BY <2>1 DEF IsPart
  <1>2. n \in Nat /\ l \in Nat /\ \A k \in 1..n : a + k - 1 \in 1..l
    OBVIOUS
  <1>3. DOMAIN u = 1..n /\ DOMAIN s = 1..l
    <2> HIDE DEF u
    <2> QED BY <1>1, <1>2
  <1> HIDE DEF u, n
  <1>4. CASE table.kind = "huggingface"
    BY <1>4 DEF HasPieces, u
  <1>5. CASE table.kind = "tiktoken"
    <2>1. \A k \in 1..l : InVocab(table, <<s[k]>>)
      BY <1>3, <1>5 DEF HasPieces
    <2>2. \A k \in 1..n : InVocab(table, <<u[k]>>)
      <3> TAKE k \in 1..n
      <3>1. u[k] = s[a + k - 1] /\ a + k - 1 \in 1..l
        BY <1>1, <1>2
      <3> QED BY <2>1, <3>1
    <2> QED BY <1>3, <1>5, <2>2 DEF HasPieces, u
  <1>6. CASE table.kind = "bert"
    <2>1. /\ Utf8(s)
          /\ \A k \in 1..l :
               /\ s[k] >= 224 => InVocab(table, SubSeq(s, k, k + 2))
               /\ s[k] < 128 /\ Class(s[k]) # "space" => InVocab(table, <<Lower(s[k])>>)
               /\ Class(s[k]) \in {"alpha", "digit"} => InVocab(table, Sharps \o <<Lower(s[k])>>)
          /\ \A k \in DOMAIN table.special : table.special[k] < Len(table.vocab) =>
               LET piece == table.vocab[table.special[k] + 1]
               IN  piece \in Seq(0..127) /\ ~IsPrefix(Sharps, piece)
      BY <1>3, <1>6 DEF HasPieces
    <2>2. \A k \in 1..l : s[k] \in 0..255 /\ s[k] < 240 /\ (s[k] \in 128..191 <=> Asked(s, k))
      <3> TAKE k \in 1..l
      <3>1. s[k] \in 0..255
        BY ElementOfSeq
      <3>2. k \in DOMAIN s
        BY <1>3
      <3> QED BY <2>1, <3>1, <3>2, Zenon DEF Utf8
    <2>3. ~Asked(s, a) /\ ~Asked(s, b + 1)
      BY <1>6
    <2>4. ASSUME NEW k \in 1..(n + 1) PROVE Asked(u, k) <=> Asked(s, a + k - 1)
      <3>1. CASE k = 1
        <4>1. ~Asked(u, 1)
          BY DEF Asked
        <4>2. a + k - 1 = a
          BY <3>1
        <4> QED BY <2>3, <3>1, <4>1, <4>2
      <3>2. CASE k # 1
        <4> DEFINE j == k - 1
                   m == a + j - 1
        <4>1. /\ j \in Nat /\ 1 <= j /\ j + 1 = k /\ j \in 1..n /\ m \in Nat /\ 1 <= m /\ m \in 1..l
              /\ m + 1 = a + k - 1 /\ a + j - 1 = m
          BY <1>2, <3>2
        <4>2. u[j] = s[m]
          BY <1>1, <4>1
        <4>3. j > 1 => u[j - 1] = s[m - 1] /\ m > 1
          <5> SUFFICES ASSUME j > 1 PROVE u[j - 1] = s[m - 1] /\ m > 1
            OBVIOUS
          <5>1. j - 1 \in 1..n /\ a + (j - 1) - 1 = m - 1 /\ m > 1
            BY <1>2, <4>1
          <5>2. u[j - 1] = s[a + (j - 1) - 1]
            BY <1>1, <5>1
          <5> QED BY <5>1, <5>2
        <4>4. ~(j > 1) /\ m > 1 => ~(s[m - 1] >= 224)
          <5> SUFFICES ASSUME ~(j > 1), m > 1 PROVE ~(s[m - 1] >= 224)
            OBVIOUS
          <5> DEFINE c == s[m - 1]
          <5>1. m = a /\ m - 1 \in 1..l
            BY <4>1
          <5>2. ~(c >= 192)
            BY <2>3, <5>1, Zenon DEF Asked
          <5>3. c \in 0..255
            <6> DEFINE r == m - 1
            <6>1. r \in 1..l
              BY <5>1
            <6> HIDE DEF r
            <6>2. s[r] \in 0..255
              BY <6>1, ElementOfSeq
            <6> QED BY <6>2 DEF r
          <5> HIDE DEF c
          <5>4. ~(c >= 224)
            BY <5>2, <5>3
          <5> QED BY <5>4 DEF c
        <4> HIDE DEF j, m
        <4>5. Asked(u, j + 1) <=> u[j] >= 192 \/ (j > 1 /\ u[j - 1] >= 224)
          BY <4>1, AskedNext
        <4>6. Asked(s, m + 1) <=> s[m] >= 192 \/ (m > 1 /\ s[m - 1] >= 224)
          BY <4>1, AskedNext
        <4>7. Asked(u, j + 1) <=> Asked(s, m + 1)
          BY <4>2, <4>3, <4>4, <4>5, <4>6, Zenon
        <4> QED BY <4>1, <4>7
      <3> QED BY <3>1, <3>2
    <2>5. Utf8(u)
      <3>1. \A k \in 1..n : u[k] < 240 /\ (u[k] \in 128..191 <=> Asked(u, k))
        <4> TAKE k \in 1..n
        <4>1. k \in 1..(n + 1) /\ a + k - 1 \in 1..l /\ u[k] = s[a + k - 1]
          BY <1>1, <1>2
        <4>2. Asked(u, k) <=> Asked(s, a + k - 1)
          BY <2>4, <4>1
        <4>3. s[a + k - 1] < 240 /\ (s[a + k - 1] \in 128..191 <=> Asked(s, a + k - 1))
          BY <2>2, <4>1
        <4> QED BY <4>1, <4>2, <4>3, Zenon
      <3>2. ~Asked(u, Len(u) + 1)
        <4>1. n + 1 \in 1..(n + 1) /\ a + (n + 1) - 1 = b + 1
          BY <1>2 DEF n
        <4>2. Asked(u, n + 1) <=> Asked(s, b + 1)
          BY <2>4, <4>1
        <4> QED BY <1>1, <2>3, <4>2
      <3> QED BY <1>3, <3>1, <3>2 DEF Utf8
    <2>6. ASSUME NEW k \in 1..n
          PROVE  /\ u[k] >= 224 => InVocab(table, SubSeq(u, k, k + 2))
                 /\ u[k] < 128 /\ Class(u[k]) # "space" => InVocab(table, <<Lower(u[k])>>)
                 /\ Class(u[k]) \in {"alpha", "digit"} => InVocab(table, Sharps \o <<Lower(u[k])>>)
      <3> DEFINE q == a + k - 1
      <3>1. q \in 1..l /\ u[k] = s[q]
        BY <1>1, <1>2
      <3>2. ASSUME u[k] >= 224 PROVE SubSeq(u, k, k + 2) = SubSeq(s, q, q + 2)
        <4>1. ~Asked(u, k)
          <5> DEFINE c == u[k]
          <5>1. c \in 128..191 <=> Asked(u, k)
            BY <1>3, <2>5 DEF Utf8
          <5>2. c >= 224
            BY <3>2
          <5>4. c \in 0..255
            BY <1>1, ElementOfSeq
          <5> HIDE DEF c
          <5>3. c \notin 128..191
            BY <5>2, <5>4
          <5> QED BY <5>1, <5>3
        <4>2. k + 2 \in 1..n
          <5>1. k \in 1..Len(u)
            BY <1>1
          <5>2. k + 2 \in 1..Len(u)
            <6> HIDE DEF u
            <6>1. u \in Seq(0..255)
              BY <1>1
            <6> QED BY <2>5, <3>2, <4>1, <5>1, <6>1, LongChar, Zenon
          <5> QED BY <1>1, <5>2
        <4> DEFINE x == SubSeq(u, k, k + 2)
                   y == SubSeq(s, q, q + 2)
        <4>3. /\ k \in Nat /\ k + 2 \in Nat /\ 1 <= k /\ k <= (k + 2) + 1 /\ k + 2 <= Len(u) /\ (k + 2) - k + 1 = 3
              /\ q \in Nat /\ q + 2 \in Nat /\ 1 <= q /\ q <= (q + 2) + 1 /\ q + 2 <= Len(s) /\ (q + 2) - q + 1 = 3
          BY <1>1, <1>2, <4>2
        <4>4. x \in Seq(0..255) /\ Len(x) = 3 /\ \A j \in 1..3 : x[j] = u[k + j - 1]
          <5> DEFINE e == k + 2
          <5>1. k \in Nat /\ e \in Nat /\ 1 <= k /\ k <= e + 1 /\ e <= Len(u) /\ e - k + 1 = 3
            BY <4>3
          <5> HIDE DEF e
          <5>2. SubSeq(u, k, e) \in Seq(0..255) /\ Len(SubSeq(u, k, e)) = e - k + 1
                /\ \A j \in 1..(e - k + 1) : SubSeq(u, k, e)[j] = u[k + j - 1]
            <6>1. u \in Seq(0..255)
              BY <1>1
            <6>2. k \in Nat /\ e \in Nat /\ 1 <= k /\ k <= e + 1 /\ e <= Len(u)
              BY <5>1
            <6>3. IsPart(SubSeq(u, k, e), u, k, e)
              BY <6>1, <6>2, BytePart, Zenon
            <6> QED BY <6>3 DEF IsPart
          <5> QED BY <5>1, <5>2 DEF e
        <4>5. y \in Seq(0..255) /\ Len(y) = 3 /\ \A j \in 1..3 : y[j] = s[q + j - 1]
          <5> DEFINE e == q + 2
          <5>1. q \in Nat /\ e \in Nat /\ 1 <= q /\ q <= e + 1 /\ e <= Len(s) /\ e - q + 1 = 3
            BY <4>3
          <5> HIDE DEF e, q
          <5>2. SubSeq(s, q, e) \in Seq(0..255) /\ Len(SubSeq(s, q, e)) = e - q + 1
                /\ \A j \in 1..(e - q + 1) : SubSeq(s, q, e)[j] = s[q + j - 1]
            <6>1. IsPart(SubSeq(s, q, e), s, q, e)
              BY <5>1, BytePart, Zenon
            <6> QED BY <6>1 DEF IsPart
          <5> QED BY <5>1, <5>2 DEF e
        <4> HIDE DEF x, y
        <4>6. \A j \in 1..Len(x) : x[j] = y[j]
          <5> TAKE j \in 1..Len(x)
          <5>1. j \in 1..3 /\ k + j - 1 \in 1..n /\ a + (k + j - 1) - 1 = q + j - 1
            <6>1. j \in 1..3
              BY <4>4
            <6> QED BY <1>2, <4>2, <6>1 DEF q
          <5>2. u[k + j - 1] = s[a + (k + j - 1) - 1]
            BY <1>1, <5>1
          <5> HIDE DEF q
          <5>3. x[j] = u[k + j - 1] /\ y[j] = s[q + j - 1]
            BY <4>4, <4>5, <5>1
          <5> QED BY <5>1, <5>2, <5>3
        <4>7. x = y
          <5>1. x \in Seq(0..255) /\ y \in Seq(0..255) /\ Len(x) = Len(y)
            BY <4>4, <4>5
          <5> QED BY <4>6, <5>1, BytesEqual
        <4> QED BY <4>7 DEF x, y
      <3> HIDE DEF q
      <3>3. /\ s[q] >= 224 => InVocab(table, SubSeq(s, q, q + 2))
            /\ s[q] < 128 /\ Class(s[q]) # "space" => InVocab(table, <<Lower(s[q])>>)
            /\ Class(s[q]) \in {"alpha", "digit"} => InVocab(table, Sharps \o <<Lower(s[q])>>)
        BY <2>1, <3>1
      <3> QED BY <3>1, <3>2, <3>3, Zenon
    <2>7. HasPieces(table, u)
      BY <1>3, <1>6, <2>1, <2>5, <2>6 DEF HasPieces
    <2> QED BY <2>7 DEF u
  <1> QED BY <1>4, <1>5, <1>6 DEF TableOK

\* The ids of a segment say the segment.
LEMMA EncodeSays ==
  ASSUME TableOK, NEW s \in Seq(0..255), HasPieces(table, s)
  PROVE  /\ EncodeSegment(s) \in Seq(Int)
         /\ (\A k \in DOMAIN EncodeSegment(s) : EncodeSegment(s)[k] # -1) =>
              EncodeSegment(s) \in Seq(Nat) /\ Says(Back(EncodeSegment(s)), s)
  <1>1. Nat \subseteq Int
    OBVIOUS
  <1>2. CASE table.kind = "huggingface"
    <2>1. EncodeSegment(s) = HfIds(s)
      BY <1>2 DEF EncodeSegment
    <2> QED BY <1>2, <2>1, HfSays
  <1>3. CASE table.kind = "tiktoken"
    <2>1. EncodeSegment(s) = Tiktoken(s)
      BY <1>3 DEF EncodeSegment
    <2>2. Tiktoken(s) \in Seq(Nat) /\ Back(Tiktoken(s)) = s
      <3>1. \A k \in DOMAIN s : InVocab(table, <<s[k]>>)
        BY <1>3 DEF HasPieces
      <3> QED BY <1>3, <3>1, TiktokenSays
    <2>3. Says(s, s)
      <3>1. Ends(s)
        BY <1>3 DEF Ends
      <3> QED BY <3>1, SaysItself
    <2> QED BY <1>1, <2>1, <2>2, <2>3, SeqMonotonic
  <1>4. CASE table.kind = "bert"
    <2>1. EncodeSegment(s) = Bert(s)
      BY <1>4 DEF EncodeSegment
    <2>2. Bert(s) \in Seq(Nat) /\ Says(Back(Bert(s)), s)
      BY <1>4, BertSays
    <2> QED BY <1>1, <2>1, <2>2, SeqMonotonic
  <1> QED BY <1>2, <1>3, <1>4 DEF TableOK

-----------------------------------------------------------------------------
(* The scan.                                                                  *)

\* The file has pieces for the text.
FitFile == TableOK /\ text \in Seq(0..255) /\ HasPieces(table, text)

\* The ids out say the first n bytes of the text, after the prefix.
SaidIn(out, n) ==
  \E said \in Seq(Nat) : out = table.prefix \o said /\ Says(Back(said), SubSeq(text, 1, n))

\* What is out says the text before the open segment, that begins with a character.
TextInv ==
  /\ FitFile
  /\ i \in 1..(Len(text) + 1) /\ start \in 1..i /\ tp \in {"scan", "done", "dead"}
  /\ ids \in Seq(Int)
  /\ NoSpecialPassed
  /\ tp = "scan" => SaidIn(ids, start - 1) /\ (table.kind = "bert" => ~Asked(text, start))
  /\ tp = "done" => SaidIn(ids, Len(text))

LEMMA RestOfConcat ==
  ASSUME NEW S, NEW s \in Seq(S), NEW t \in Seq(S)
  PROVE  SubSeq(s \o t, Len(s) + 1, Len(s \o t)) = t
  <1> DEFINE m == Len(s)
             n == Len(t)
  <1>1. m \in Nat /\ n \in Nat /\ s \o t \in Seq(S) /\ Len(s \o t) = m + n
    BY ConcatProperties
  <1>2. CASE n = 0
    <2>1. t = <<>>
      BY <1>2, EmptySeq
    <2>2. SubSeq(s \o t, m + 1, m + n) = <<>>
      BY <1>1, <1>2
    <2> QED BY <1>1, <2>1, <2>2
  <1>3. CASE n # 0
    <2>1. m + 1 \in (m + 1)..(m + n) /\ m + n \in (m + 1)..(m + n) /\ (m + 1) - m = 1 /\ (m + n) - m = n
      BY <1>1, <1>3
    <2>2. SubSeq(s \o t, m + 1, m + n) = SubSeq(t, (m + 1) - m, (m + n) - m)
      BY <2>1, SubSeqOfConcat2
    <2>3. SubSeq(t, 1, n) = t
      OBVIOUS
    <2> QED BY <1>1, <2>1, <2>2, <2>3
  <1> QED BY <1>2, <1>3

\* Ids that say the next part of the text are added.
LEMMA SaidMore ==
  ASSUME FitFile, NEW out, NEW n \in 0..Len(text), NEW m \in n..Len(text), SaidIn(out, n),
         NEW more \in Seq(Nat), Says(Back(more), SubSeq(text, n + 1, m))
  PROVE  SaidIn(out \o more, m)
  <1>1. PICK said \in Seq(Nat) : out = table.prefix \o said /\ Says(Back(said), SubSeq(text, 1, n))
    BY DEF SaidIn
  <1>2. PICK back : PartByPart(back, Nat, 0..255) /\ \A x \in Seq(Nat) : back[x] = Back(x)
    BY BackIs DEF FitFile
  <1>3. said \o more \in Seq(Nat) /\ out \o more = table.prefix \o (said \o more)
    <2> DEFINE prefix == table.prefix
    <2>1. prefix \in Seq(Nat)
      BY DEF FitFile, TableOK
    <2>2. out = prefix \o said
      BY <1>1
    <2> HIDE DEF prefix
    <2>3. said \o more \in Seq(Nat)
      BY ConcatProperties
    <2>4. (prefix \o said) \o more = prefix \o (said \o more)
      <3>1. said \in Seq(Nat) /\ more \in Seq(Nat)
        OBVIOUS
      <3> QED BY <2>1, <3>1, IdsAssociate, Zenon
    <2> QED BY <2>2, <2>3, <2>4 DEF prefix
  <1>4. Back(said \o more) = Back(said) \o Back(more)
    <2>1. back[said \o more] = back[said] \o back[more]
      BY <1>2 DEF PartByPart
    <2> QED BY <1>2, <1>3, <2>1
  <1>5. SubSeq(text, 1, n) \o SubSeq(text, n + 1, m) = SubSeq(text, 1, m)
    <2>1. text \in Seq(0..255)
      BY DEF FitFile
    <2>2. 1 \in Nat /\ n \in Nat /\ m \in Nat /\ 1 <= 1 /\ 1 <= n + 1 /\ n <= m /\ m <= Len(text)
      <3>1. Len(text) \in Nat
        BY <2>1
      <3> QED BY <3>1
    <2> QED BY <2>1, <2>2, PartsJoin
  <1>6. Says(Back(said) \o Back(more), SubSeq(text, 1, n) \o SubSeq(text, n + 1, m))
    BY <1>1, SaysBoth DEF FitFile, TableOK
  <1> QED BY <1>3, <1>4, <1>5, <1>6 DEF SaidIn

\* What is flushed at p.
Segment(p) == IF p > start THEN EncodeSegment(SubSeq(text, start, p - 1)) ELSE <<>>

\* A flush says the open segment.
LEMMA FlushSays ==
  ASSUME FitFile, ids \in Seq(Int), NEW p \in 1..(Len(text) + 1), start \in 1..p,
         SaidIn(ids, start - 1), table.kind = "bert" => ~Asked(text, start),
         table.kind = "bert" => ~Asked(text, p)
  PROVE  /\ Segment(p) \in Seq(Int)
         /\ (\A k \in DOMAIN Segment(p) : Segment(p)[k] # -1) => SaidIn(ids \o Segment(p), p - 1)
  <1> DEFINE b == p - 1
             a == start - 1
  <1>1. text \in Seq(0..255) /\ Len(text) \in Nat
    BY DEF FitFile
  <1>2. /\ b \in 0..Len(text) /\ a \in 0..Len(text) /\ b \in a..Len(text) /\ a + 1 = start /\ b + 1 = p
        /\ start \in Nat /\ b \in Nat /\ 1 <= start /\ start <= b + 1 /\ b <= Len(text)
        /\ p \in Nat /\ (~(p > start) => b = a)
    BY <1>1
  <1> HIDE DEF a, b
  <1>3. CASE ~(p > start)
    <2>1. Segment(p) = <<>> /\ b = a
      BY <1>2, <1>3 DEF Segment
    <2>2. ids \o <<>> = ids
      BY ConcatEmptySeq
    <2>3. p - 1 = start - 1
      BY <1>2, <1>3
    <2>4. <<>> \in Seq(Int)
      OBVIOUS
    <2> QED BY <2>1, <2>2, <2>3, <2>4
  <1>4. CASE p > start
    <2> DEFINE seg == SubSeq(text, start, b)
               new == EncodeSegment(seg)
    <2>1. Segment(p) = new
      BY <1>4 DEF Segment, b
    <2>2. seg \in Seq(0..255)
      BY <1>1, <1>2, PartFacts
    <2>3. HasPieces(table, seg)
      <3>1. table.kind = "bert" => ~Asked(text, start) /\ ~Asked(text, b + 1)
        BY <1>2
      <3> QED BY <1>1, <1>2, <3>1, PartHasPieces DEF FitFile
    <2> HIDE DEF seg
    <2>4. /\ new \in Seq(Int)
          /\ (\A k \in DOMAIN new : new[k] # -1) => new \in Seq(Nat) /\ Says(Back(new), seg)
      BY <2>2, <2>3, EncodeSays DEF FitFile
    <2> HIDE DEF new
    <2>5. ASSUME \A k \in DOMAIN new : new[k] # -1 PROVE SaidIn(ids \o new, b)
      <3>1. new \in Seq(Nat) /\ Says(Back(new), SubSeq(text, a + 1, b))
        BY <1>2, <2>4, <2>5 DEF seg
      <3>2. SaidIn(ids, a)
        BY DEF a
      <3> QED BY <1>2, <3>1, <3>2, SaidMore
    <2> QED BY <2>1, <2>4, <2>5 DEF b
  <1> QED BY <1>3, <1>4

\* The special token that is taken begins where the scan stands.
LEMMA TakenIs ==
  ASSUME TableOK, NEW p
  PROVE  /\ Taken(p) = 0 => \A k \in DOMAIN table.special : ~SpecialAt(table.special[k], p)
         /\ Taken(p) # 0 => /\ Taken(p) \in DOMAIN table.special
                            /\ SpecialAt(table.special[Taken(p)], p)
                            /\ table.special[Taken(p)] \in Nat
  <1> DEFINE sp == table.special
             at == {k \in DOMAIN sp : SpecialAt(sp[k], p)}
  <1>1. DOMAIN sp = 1..Len(sp) /\ \A k \in DOMAIN sp : sp[k] \in Nat
    <2>1. sp \in Seq(Nat)
      BY DEF TableOK
    <2> HIDE DEF sp
    <2> QED BY <2>1, LenProperties, ElementOfSeq
  <1>2. Taken(p) = IF at = {} THEN 0 ELSE CHOOSE k \in at : \A l \in at : k <= l
    BY Zenon DEF Taken
  <1>3. at # {} => (CHOOSE k \in at : \A l \in at : k <= l) \in at
    <2> SUFFICES ASSUME at # {} PROVE (CHOOSE k \in at : \A l \in at : k <= l) \in at
      OBVIOUS
    <2>1. at \subseteq Nat
      BY <1>1
    <2>2. \E k \in at : \A l \in at : k <= l
      <3> HIDE DEF at
      <3> QED BY <2>1, LeastNat
    <2> HIDE DEF at
    <2> QED BY <2>2, Zenon
  <1>4. \A k \in at : k # 0
    BY <1>1
  <1> HIDE DEF at
  <1>5. Taken(p) = 0 => at = {}
    BY <1>2, <1>3, <1>4, Zenon
  <1>6. Taken(p) # 0 => Taken(p) \in at
    BY <1>2, <1>3, Zenon
  <1> QED BY <1>1, <1>5, <1>6 DEF at

LEMMA Ascii == \A c \in 0..127 : c < 128
  OBVIOUS

\* A special token says itself, and stands between two characters.
LEMMA SpecialSays ==
  ASSUME FitFile, NEW k \in DOMAIN table.special, NEW p \in 1..Len(text),
         SpecialAt(table.special[k], p), table.special[k] \in Nat
  PROVE  /\ Len(Decode(table.special[k])) \in 1..(Len(text) - p + 1)
         /\ Says(Back(<<table.special[k]>>), SubSeq(text, p, p + Len(Decode(table.special[k])) - 1))
         /\ table.kind = "bert" =>
              ~Asked(text, p) /\ ~Asked(text, p + Len(Decode(table.special[k])))
  <1> DEFINE id == table.special[k]
             d == Decode(id)
             n == Len(d)
             l == Len(text)
             rest == SubSeq(text, p, l)
             b == p + n - 1
  <1>1. text \in Seq(0..255) /\ l \in Nat /\ id \in Nat
    BY DEF FitFile
  <1>2. d \in Seq(0..255) /\ n \in Nat
    <2> HIDE DEF id
    <2>1. d \in Seq(0..255)
      <3>1. TableOK
        BY DEF FitFile
      <3> QED BY <1>1, <3>1, DecodeType
    <2> HIDE DEF d
    <2> QED BY <2>1
  <1>3. d # <<>> /\ n <= Len(rest) /\ SubSeq(d, 1, n) = SubSeq(rest, 1, n)
    BY DEF SpecialAt, IsPrefix
  <1>4. n # 0
    BY <1>2, <1>3, EmptySeq
  <1>5. rest \in Seq(0..255) /\ Len(rest) = l - p + 1 /\ \A j \in 1..(l - p + 1) : rest[j] = text[p + j - 1]
    <2>1. p \in Nat /\ l \in Nat /\ 1 <= p /\ p <= l + 1 /\ l <= Len(text)
      BY <1>1
    <2> HIDE DEF l
    <2>2. IsPart(rest, text, p, l)
      BY <1>1, <2>1, BytePart, Zenon
    <2> HIDE DEF rest
    <2> QED BY <2>2 DEF IsPart
  <1>6. n \in 1..(l - p + 1)
    <2> HIDE DEF n, l, rest
    <2> QED BY <1>1, <1>2, <1>3, <1>4, <1>5
  <1> HIDE DEF id
  <1>7. \A j \in 1..n : d[j] = text[p + j - 1]
    <2> HIDE DEF d, rest
    <2> TAKE j \in 1..n
    <2>1. SubSeq(d, 1, n) = d
      BY <1>2
    <2>2. SubSeq(rest, 1, n)[j] = rest[j]
      <3>1. 1 \in Nat /\ n \in Nat /\ 1 <= 1 /\ 1 <= n + 1 /\ n <= Len(rest) /\ n - 1 + 1 = n /\ 1 + j - 1 = j
        BY <1>2, <1>3
      <3> HIDE DEF n
      <3>2. rest \in Seq(0..255)
        BY <1>5
      <3>3. 1 \in Nat /\ n \in Nat /\ 1 <= 1 /\ 1 <= n + 1 /\ n <= Len(rest)
        BY <3>1
      <3>4. \A x \in 1..(n - 1 + 1) : SubSeq(rest, 1, n)[x] = rest[1 + x - 1]
        <4>1. IsPart(SubSeq(rest, 1, n), rest, 1, n)
          BY <3>2, <3>3, BytePart, Zenon
        <4> QED BY <4>1 DEF IsPart
      <3> QED BY <3>1, <3>4
    <2>3. j \in 1..(l - p + 1)
      BY <1>1, <1>6
    <2>4. d[j] = rest[j]
      BY <1>3, <2>1, <2>2
    <2> QED BY <1>5, <2>3, <2>4
  <1> HIDE DEF rest, d, n
  <1>8. /\ p \in Nat /\ b \in Nat /\ 1 <= p /\ p <= b + 1 /\ b <= Len(text) /\ b - p + 1 = n
        /\ b + 1 = p + n /\ b \in 1..l /\ p + n - 1 = b
    BY <1>1, <1>6
  <1> HIDE DEF b
  <1>9. SubSeq(text, p, b) = d
    <2> DEFINE u == SubSeq(text, p, b)
    <2>1. u \in Seq(0..255) /\ Len(u) = b - p + 1 /\ \A j \in 1..(b - p + 1) : u[j] = text[p + j - 1]
      <3>1. p \in Nat /\ b \in Nat /\ 1 <= p /\ p <= b + 1 /\ b <= Len(text)
        BY <1>8
      <3>2. IsPart(u, text, p, b)
        BY <1>1, <3>1, BytePart, Zenon
      <3> HIDE DEF u
      <3> QED BY <3>2 DEF IsPart
    <2> HIDE DEF u
    <2>2. Len(u) = Len(d)
      BY <1>8, <2>1 DEF n
    <2>3. \A j \in 1..Len(u) : u[j] = d[j]
      BY <1>7, <1>8, <2>1
    <2>4. u = d
      BY <1>2, <2>1, <2>2, <2>3, BytesEqual
    <2> QED BY <2>4 DEF u
  <1>10. Back(<<id>>) = Unsharped(d)
    <2>1. PICK back : /\ PartByPart(back, Nat, 0..255)
                      /\ \A x \in Seq(Nat) : back[x] = Back(x)
                      /\ \A e \in Nat : back[<<e>>] = Unsharped(Decode(e))
      BY BackIs DEF FitFile
    <2>2. <<id>> \in Seq(Nat)
      BY <1>1
    <2> QED BY <1>1, <2>1, <2>2 DEF d
  <1>11. CASE table.kind # "bert"
    <2>1. Unsharped(d) = d
      BY <1>11 DEF Unsharped
    <2>2. Says(d, d)
      <3>1. Ends(d)
        BY <1>11 DEF Ends
      <3> QED BY <1>2, <3>1, SaysItself
    <2>3. n \in 1..(l - p + 1) /\ Says(Back(<<id>>), SubSeq(text, p, p + n - 1))
      BY <1>6, <1>8, <1>9, <1>10, <2>1, <2>2
    <2> QED BY <1>11, <2>3 DEF n, d, id, l
  <1>12. CASE table.kind = "bert"
    <2>1. d \in Seq(0..127) /\ ~IsPrefix(Sharps, d)
      <3>1. \A j \in DOMAIN table.special : table.special[j] < Len(table.vocab) =>
              LET piece == table.vocab[table.special[j] + 1]
              IN  piece \in Seq(0..127) /\ ~IsPrefix(Sharps, piece)
        BY <1>12 DEF FitFile, HasPieces
      <3>2. ~(id >= Len(table.vocab))
        BY <1>3, Zenon DEF Decode, d
      <3>3. id < Len(table.vocab) /\ d = table.vocab[id + 1]
        <4>1. Len(table.vocab) \in Nat
          BY DEF FitFile, TableOK
        <4>2. id < Len(table.vocab)
          BY <1>1, <3>2, <4>1
        <4>3. d = table.vocab[id + 1]
          BY <1>12, <3>2 DEF Decode, d
        <4> QED BY <4>2, <4>3
      <3> QED BY <3>1, <3>3 DEF id
    <2>2. Unsharped(d) = d
      BY <2>1 DEF Unsharped
    <2>3. 1 \in 1..n /\ n \in 1..n /\ p + 1 - 1 = p
      BY <1>1, <1>2, <1>6
    <2>4. text[p] = d[1] /\ text[b] = d[n] /\ d[1] \in 0..127 /\ d[n] \in 0..127
      <3>1. d[1] = text[p] /\ d[n] = text[b]
        BY <1>7, <1>8, <2>3
      <3>2. d[1] \in 0..127 /\ d[n] \in 0..127
        BY <2>1, <2>3, ElementOfSeq DEF n
      <3> QED BY <3>1, <3>2
    <2>5. Utf8(text)
      BY <1>12 DEF FitFile, HasPieces
    <2>6. ~Asked(text, p) /\ ~Asked(text, b)
      <3>1. p \in DOMAIN text /\ b \in DOMAIN text
        BY <1>1, <1>8
      <3>2. (text[p] \in 128..191 <=> Asked(text, p)) /\ (text[b] \in 128..191 <=> Asked(text, b))
        BY <2>5, <3>1 DEF Utf8
      <3> DEFINE x == text[p]
                 y == text[b]
      <3>3. x \in 0..127 /\ y \in 0..127
        BY <2>4
      <3> HIDE DEF x, y
      <3>4. x \notin 128..191 /\ y \notin 128..191
        BY <3>3, SMTT(40)
      <3> QED BY <3>2, <3>4 DEF x, y
    <2>7. ~Asked(text, p + n)
      <3>1. b \in 1..Len(text)
        BY <1>8
      <3>2. text[b] < 128 => ~Asked(text, b + 1)
        BY <1>1, <2>5, <2>6, <3>1, NextChar
      <3> DEFINE y == text[b]
      <3>3. y \in 0..127
        BY <2>4
      <3>4. y < 128
        <4> HIDE DEF y
        <4> QED BY <3>3, Ascii, Zenon
      <3> QED BY <1>8, <3>2, <3>4 DEF y
    <2>8. Says(d, d)
      <3>1. Ends(d)
        <4> DEFINE y == d[n]
        <4>1. y \in 0..127
          BY <2>4
        <4> HIDE DEF y
        <4>2. y \notin 192..223
          BY <4>1
        <4> QED BY <4>2 DEF Ends, y, n
      <3> QED BY <1>2, <3>1, SaysItself
    <2>9. n \in 1..(l - p + 1) /\ Says(Back(<<id>>), SubSeq(text, p, p + n - 1))
      BY <1>6, <1>8, <1>9, <1>10, <2>2, <2>8
    <2> QED BY <2>6, <2>7, <2>9 DEF n, d, id, l
  <1> QED BY <1>11, <1>12

\* TextInv is strong enough.
LEMMA TextInvKeeps == TextInv => TextIsKept
  <1> SUFFICES ASSUME TextInv PROVE TextIsKept
    OBVIOUS
  <1>1. TokenTypeOK
    <2>1. \A k \in DOMAIN ids : ids[k] \in Int
      BY LenProperties, ElementOfSeq DEF TextInv
    <2> QED BY <2>1 DEF TextInv, TokenTypeOK, FitFile
  <1>2. NoSpecialPassed
    BY DEF TextInv
  <1>3. NothingLost
    <2> SUFFICES ASSUME tp = "done"
                 PROVE  Core(Back(SubSeq(ids, Len(table.prefix) + 1, Len(ids)))) = Core(text)
      BY DEF NothingLost
    <2>1. SaidIn(ids, Len(text))
      BY DEF TextInv
    <2>2. PICK said \in Seq(Nat) : ids = table.prefix \o said /\ Says(Back(said), SubSeq(text, 1, Len(text)))
      BY <2>1, Zenon DEF SaidIn
    <2>3. SubSeq(text, 1, Len(text)) = text
      BY DEF TextInv, FitFile
    <2>4. SubSeq(ids, Len(table.prefix) + 1, Len(ids)) = said
      <3>1. table.prefix \in Seq(Nat)
        BY DEF TextInv, FitFile, TableOK
      <3> DEFINE pre == table.prefix
      <3> HIDE DEF pre
      <3>2. SubSeq(pre \o said, Len(pre) + 1, Len(pre \o said)) = said
        BY <3>1, RestOfConcat DEF pre
      <3> QED BY <2>2, <3>2 DEF pre
    <2> QED BY <2>2, <2>3, <2>4 DEF Says
  <1> QED BY <1>1, <1>2, <1>3 DEF TextIsKept

\* Encoding keeps the text (tokenizer.cpp:165-207, and the encode of each kind),
\* whatever the vocabulary, the special tokens and the text, with pieces for it.
THEOREM TextIsAlwaysKept == TokenSpec => []TextIsKept
  <1>1. TokenInit => TextInv
    <2> SUFFICES ASSUME TokenInit PROVE TextInv
      OBVIOUS
    <2>1. PICK in \in Inputs : Encode(in)
      BY DEF TokenInit
    <2>2. FitFile
      BY <2>1, TokenAssumption DEF Encode, FitFile, TableOK, RulesOK
    <2>3. i = 1 /\ start = 1 /\ ids = table.prefix /\ tp = "scan"
      BY <2>1 DEF Encode
    <2>4. table.prefix \in Seq(Nat) /\ Len(text) \in Nat
      BY <2>2 DEF FitFile, TableOK
    <2>5. ids \in Seq(Int)
      <3>1. Nat \subseteq Int
        OBVIOUS
      <3> QED BY <2>3, <2>4, <3>1, SeqMonotonic
    <2>6. NoSpecialPassed
      BY <2>3 DEF NoSpecialPassed
    <2>7. SaidIn(ids, start - 1)
      <3>1. SubSeq(text, 1, start - 1) = <<>>
        BY <2>2, <2>3 DEF FitFile
      <3>2. Back(<<>>) = <<>>
        <4>1. PICK back : PartByPart(back, Nat, 0..255) /\ \A x \in Seq(Nat) : back[x] = Back(x)
          BY <2>2, BackIs DEF FitFile
        <4>2. <<>> \in Seq(Nat)
          OBVIOUS
        <4> QED BY <4>1, <4>2 DEF PartByPart
      <3>3. <<>> \in Seq(Nat) /\ ids = table.prefix \o <<>>
        BY <2>3, <2>4, ConcatEmptySeq
      <3> QED BY <3>1, <3>2, <3>3, SaysNothing DEF SaidIn
    <2>8. ~Asked(text, start)
      BY <2>3 DEF Asked
    <2>9. i \in 1..(Len(text) + 1) /\ start \in 1..i /\ tp \in {"scan", "done", "dead"} /\ tp # "done"
      BY <2>3, <2>4
    <2> QED BY <2>2, <2>5, <2>6, <2>7, <2>8, <2>9 DEF TextInv
  <1>2. TextInv /\ [TokenNext]_tokenVars => TextInv'
    <2> SUFFICES ASSUME TextInv, [TokenNext]_tokenVars PROVE TextInv'
      OBVIOUS
    <2>1. UNCHANGED <<table, text>>
      BY DEF TokenNext, Skip, TakeSpecial, Rest, tokenVars
    <2>2. FitFile'
      BY <2>1 DEF TextInv, FitFile, TableOK, RulesOK
    <2>3. \A out, n : SaidIn(out, n)' <=> SaidIn(out, n)
      <3>1. \A b, s : Says(b, s)' <=> Says(b, s)
        BY <2>1 DEF Says, Ends, Core, Kept
      <3>2. \A x : Back(x)' = Back(x)
        BY <2>1 DEF Back, Unsharped, Decode
      <3> QED BY <2>1, <3>1, <3>2 DEF SaidIn
    <2>4. \A id, p : SpecialAt(id, p)' <=> SpecialAt(id, p)
      BY <2>1 DEF SpecialAt, Decode
    <2>5. /\ FitFile /\ text \in Seq(0..255) /\ Len(text) \in Nat
          /\ i \in 1..(Len(text) + 1) /\ start \in 1..i /\ ids \in Seq(Int)
      BY DEF TextInv, FitFile
    <2>6. CASE Skip
      <3>1. tp = "scan" /\ i <= Len(text) /\ Taken(i) = 0 /\ i' = i + 1
            /\ UNCHANGED <<table, text, start, ids, tp>>
        BY <2>6 DEF Skip
      <3>2. NoSpecialPassed'
        <4> SUFFICES ASSUME NEW p \in start..i, NEW k \in DOMAIN table.special
                     PROVE  ~SpecialAt(table.special[k], p)
          BY <2>4, <2>5, <3>1 DEF NoSpecialPassed
        <4>1. CASE p = i
          BY <2>5, <3>1, <4>1, TakenIs DEF FitFile
        <4>2. CASE p # i
          <5>1. p \in start..(i - 1)
            BY <2>5, <4>2
          <5> QED BY <5>1 DEF TextInv, NoSpecialPassed
        <4> QED BY <4>1, <4>2
      <3>3. SaidIn(ids, start - 1)'
        BY <2>3, <3>1 DEF TextInv
      <3>4. (table.kind = "bert" => ~Asked(text, start))'
        BY <3>1 DEF TextInv, Asked
      <3>5. (i \in 1..(Len(text) + 1) /\ start \in 1..i /\ tp = "scan" /\ ids \in Seq(Int))'
        BY <2>5, <3>1
      <3> QED BY <2>2, <3>2, <3>3, <3>4, <3>5 DEF TextInv
    <2>7. CASE TakeSpecial
      <3> DEFINE k == Taken(i)
                 id == table.special[k]
                 n == Len(Decode(id))
                 new == Segment(i)
      <3>1. /\ tp = "scan" /\ i <= Len(text) /\ k # 0
            /\ start' = i + n /\ i' = i + n /\ ids' = ids \o new \o <<id>>
            /\ tp' = IF \E j \in DOMAIN new : new[j] = -1 THEN "dead"
                     ELSE IF i > Len(text) THEN "done" ELSE "scan"
        BY <2>7 DEF TakeSpecial, Flush, Segment
      <3>2. k \in DOMAIN table.special /\ SpecialAt(id, i) /\ id \in Nat
        BY <2>5, <3>1, TakenIs DEF FitFile
      <3>3. i \in 1..Len(text)
        BY <2>5, <3>1
      <3>4. /\ n \in 1..(Len(text) - i + 1) /\ Says(Back(<<id>>), SubSeq(text, i, i + n - 1))
            /\ table.kind = "bert" => ~Asked(text, i) /\ ~Asked(text, i + n)
        <4> HIDE DEF k
        <4> QED BY <2>5, <3>2, <3>3, SpecialSays
      <3>5. /\ new \in Seq(Int)
            /\ (\A j \in DOMAIN new : new[j] # -1) => SaidIn(ids \o new, i - 1)
        BY <2>5, <3>1, <3>4, FlushSays DEF TextInv
      <3> HIDE DEF k, id, n, new
      <3>6. ids' \in Seq(Int)
        <4>1. <<id>> \in Seq(Int)
          BY <3>2
        <4> QED BY <2>5, <3>1, <3>5, <4>1, ConcatProperties
      <3>7. (i \in 1..(Len(text) + 1) /\ start \in 1..i /\ tp \in {"scan", "dead"})'
        <4>1. i + n \in 1..(Len(text) + 1) /\ i + n \in 1..(i + n) /\ ~(i > Len(text))
          BY <2>5, <3>1, <3>3, <3>4
        <4>2. tp' \in {"scan", "dead"}
          BY <3>1, <4>1
        <4> QED BY <2>1, <3>1, <4>1, <4>2
      <3>8. NoSpecialPassed'
        <4>1. start'..(i' - 1) = {}
          BY <3>1, <3>7
        <4> QED BY <4>1 DEF NoSpecialPassed
      <3>9. ASSUME tp' = "scan" PROVE SaidIn(ids, start - 1)'
        <4>1. \A j \in DOMAIN new : new[j] # -1
          BY <3>1, <3>9
        <4>2. SaidIn(ids \o new, i - 1)
          BY <3>5, <4>1
        <4> DEFINE m == i + n - 1
                   a == i - 1
        <4>3. a \in 0..Len(text) /\ m \in a..Len(text) /\ a + 1 = i
          BY <2>5, <3>3, <3>4
        <4>4. <<id>> \in Seq(Nat)
          BY <3>2
        <4>5. Says(Back(<<id>>), SubSeq(text, a + 1, m)) /\ SaidIn(ids \o new, a)
          BY <3>4, <4>2, <4>3
        <4> HIDE DEF a, m
        <4>6. SaidIn(ids \o new \o <<id>>, m)
          BY <2>5, <4>3, <4>4, <4>5, SaidMore
        <4>7. start' - 1 = m
          <5>1. start' = i + n /\ i \in Int /\ n \in Int
            BY <2>5, <3>1, <3>3, <3>4
          <5>2. (i + n) - 1 = i + n - 1
            BY <5>1
          <5> QED BY <5>1, <5>2 DEF m
        <4> QED BY <2>3, <3>1, <4>6, <4>7
      <3>10. (table.kind = "bert" => ~Asked(text, start))'
        BY <2>1, <3>1, <3>4 DEF Asked
      <3> QED BY <2>2, <3>6, <3>7, <3>8, <3>9, <3>10 DEF TextInv
    <2>8. CASE Rest
      <3> DEFINE new == Segment(i)
      <3>1. /\ tp = "scan" /\ i > Len(text) /\ ids' = ids \o new \o <<>>
            /\ tp' = IF \E j \in DOMAIN new : new[j] = -1 THEN "dead"
                     ELSE IF i > Len(text) THEN "done" ELSE "scan"
            /\ UNCHANGED <<table, text, i, start>>
        BY <2>8 DEF Rest, Flush, Segment
      <3>2. i = Len(text) + 1 /\ i - 1 = Len(text)
        BY <2>5, <3>1
      <3>3. table.kind = "bert" => ~Asked(text, i)
        BY <2>5, <3>2 DEF FitFile, HasPieces, Utf8
      <3>4. /\ new \in Seq(Int)
            /\ (\A j \in DOMAIN new : new[j] # -1) => SaidIn(ids \o new, i - 1)
        BY <2>5, <3>1, <3>3, FlushSays DEF TextInv
      <3> HIDE DEF new
      <3>5. ids' = ids \o new /\ ids' \in Seq(Int)
        <4>1. ids \o new \in Seq(Int)
          BY <2>5, <3>4, ConcatProperties
        <4>2. (ids \o new) \o <<>> = ids \o new
          BY <4>1, ConcatEmptySeq
        <4> QED BY <3>1, <4>1, <4>2
      <3>6. tp' \in {"done", "dead"}
        BY <3>1
      <3>7. ASSUME tp' = "done" PROVE SaidIn(ids, Len(text))'
        <4>1. \A j \in DOMAIN new : new[j] # -1
          BY <3>1, <3>7
        <4>2. SaidIn(ids \o new, Len(text))
          BY <3>2, <3>4, <4>1
        <4> QED BY <2>1, <2>3, <3>5, <4>2
      <3>8. NoSpecialPassed'
        BY <2>4, <3>1 DEF NoSpecialPassed, TextInv
      <3>9. (i \in 1..(Len(text) + 1) /\ start \in 1..i)'
        BY <2>5, <3>1
      <3> QED BY <2>2, <3>5, <3>6, <3>7, <3>8, <3>9 DEF TextInv
    <2>9. CASE UNCHANGED tokenVars
      <3>1. UNCHANGED <<table, text, i, start, ids, tp>>
        BY <2>9 DEF tokenVars
      <3>2. NoSpecialPassed'
        BY <2>4, <3>1 DEF NoSpecialPassed, TextInv
      <3>3. (tp = "scan" => SaidIn(ids, start - 1))' /\ (tp = "done" => SaidIn(ids, Len(text)))'
        BY <2>3, <3>1 DEF TextInv
      <3>4. (tp = "scan" /\ table.kind = "bert" => ~Asked(text, start))'
        BY <3>1 DEF TextInv, Asked
      <3>5. (i \in 1..(Len(text) + 1) /\ start \in 1..i /\ tp \in {"scan", "done", "dead"} /\ ids \in Seq(Int))'
        BY <3>1 DEF TextInv
      <3> QED BY <2>2, <3>2, <3>3, <3>4, <3>5 DEF TextInv
    <2> QED BY <2>6, <2>7, <2>8, <2>9 DEF TokenNext
  <1> QED BY <1>1, <1>2, TextInvKeeps, PTL DEF TokenSpec
=============================================================================
