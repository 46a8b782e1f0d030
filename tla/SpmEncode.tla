------------------------------- MODULE SpmEncode -------------------------------
(***************************************************************************)
(* Sentencepiece::bpe_encode and encode (llm/qwen_chat/src/tokenizer.cpp):    *)
(* merging with an agenda that is never searched, so that entries go stale    *)
(* in it, and with symbols that are linked by index.                          *)
(***************************************************************************)
EXTENDS Integers, SequencesExt

CONSTANTS
  SpmInputs  \* pairs of a vocabulary, a sequence of [piece, score, type], and a
             \* text; pieces and texts are sequences of bytes

\* The piece "<0xXX>" that stands for byte b.
BytePiece(b) == <<256 + b>>

\* byte_fall_back_: a vocabulary has a piece for each byte of the text.
ASSUME SpmAssumption ==
  \A in \in SpmInputs :
    /\ in[1] \in Seq([piece : Seq(Nat), score : Int, type : STRING]) /\ in[2] \in Seq(0..255)
    /\ \A k \in DOMAIN in[2] : \E l \in DOMAIN in[1] : in[1][l].piece = BytePiece(in[2][k])

VARIABLES
  sentence_pieces, normalized,
  symbols,  \* [piece, prev, next], 0 for none; a merged one has no piece
  agenda,   \* set of [left, right, score, size]
  encoded,  \* ids
  ap        \* "merge" or "emitted"

spmVars == <<sentence_pieces, normalized, symbols, agenda, encoded, ap>>

\* one_char_len, by the high half of the first byte.
CharLen(b) == IF b < 192 THEN 1 ELSE IF b < 224 THEN 2 ELSE IF b < 240 THEN 3 ELSE 4

Characters(s) ==
  LET from[p \in 1..(Len(s) + 1)] ==
        IF p > Len(s) THEN <<>>
        ELSE LET rest == Len(s) - p + 1
                 n == IF CharLen(s[p]) < rest THEN CharLen(s[p]) ELSE rest
             IN  <<SubSeq(s, p, p + n - 1)>> \o from[p + n]
  IN  from[1]

\* load_vocab: two maps of pieces, in which the first of a piece stays.
Entries(v, piece, normal) ==
  {k \in DOMAIN v : v[k].piece = piece /\ (v[k].type = "NORMAL") = normal}

IsPiece(v, piece) == Entries(v, piece, TRUE) # {}

FirstOf(set) == CHOOSE k \in set : \A l \in set : k <= l

Score(v, piece) == v[FirstOf(Entries(v, piece, TRUE))].score

\* unk_id_: the last piece of that type, 0 if there is none.
UnkId(v) ==
  LET unk == {k \in DOMAIN v : v[k].type = "UNKNOWN"}
  IN  IF unk = {} THEN 0 ELSE (CHOOSE k \in unk : \A l \in unk : l <= k) - 1

PieceToId(v, piece) ==
  IF Entries(v, piece, FALSE) # {} THEN FirstOf(Entries(v, piece, FALSE)) - 1
  ELSE IF IsPiece(v, piece) THEN FirstOf(Entries(v, piece, TRUE)) - 1
  ELSE UnkId(v)

\* MaybeAddNewSymbolPair.
NewPair(v, s, left, right) ==
  LET piece == s[left].piece \o s[right].piece
  IN  IF left = 0 \/ right = 0 \/ ~IsPiece(v, piece) THEN {}
      ELSE {[left |-> left, right |-> right, size |-> Len(piece), score |-> Score(v, piece)]}

BpeEncode(in) ==
  /\ sentence_pieces = in[1] /\ normalized = in[2]
  /\ LET chars == Characters(normalized)
         n == Len(chars)
     IN  symbols = [k \in 1..n |-> [piece |-> chars[k], prev |-> k - 1,
                                    next |-> IF k = n THEN 0 ELSE k + 1]]
  /\ agenda = UNION {NewPair(sentence_pieces, symbols, k, k + 1) : k \in 1..(Len(symbols) - 1)}
  /\ encoded = <<>> /\ ap = "merge"

SpmInit == \E in \in SpmInputs : BpeEncode(in)

\* What may be on top of the heap: the best score, of those the leftmost.
OnTop(h) ==
  \A g \in agenda : g.score < h.score \/ (g.score = h.score /\ h.left <= g.left)

\* Fault: only an entry that lost a symbol is taken for stale.
FaultStale(h) ==
  \/ symbols[h.left].piece = <<>> \/ symbols[h.right].piece = <<>>

Stale(h) ==
  \/ symbols[h.left].piece = <<>> \/ symbols[h.right].piece = <<>>
  \/ Len(symbols[h.left].piece) + Len(symbols[h.right].piece) # h.size

PopStale ==
  /\ ap = "merge"
  /\ \E h \in agenda : OnTop(h) /\ Stale(h) /\ agenda' = agenda \ {h}
  /\ UNCHANGED <<sentence_pieces, normalized, symbols, encoded, ap>>

\* Fault: the links are swapped.
FaultJoined(s, left, right) ==
  LET after == s[right].prev
  IN  [k \in DOMAIN s |->
        [piece |-> IF k = left THEN s[left].piece \o s[right].piece
                   ELSE IF k = right THEN <<>> ELSE s[k].piece,
         prev |-> IF k = after THEN left ELSE s[k].prev,
         next |-> IF k = left THEN after ELSE s[k].next]]

Joined(s, left, right) ==
  LET after == s[right].next
  IN  [k \in DOMAIN s |->
        [piece |-> IF k = left THEN s[left].piece \o s[right].piece
                   ELSE IF k = right THEN <<>> ELSE s[k].piece,
         prev |-> IF k = after THEN left ELSE s[k].prev,
         next |-> IF k = left THEN after ELSE s[k].next]]

\* Fault: the pair with the symbol before is not looked up again.
FaultMerge ==
  /\ ap = "merge"
  /\ \E h \in agenda :
       /\ OnTop(h) /\ ~Stale(h)
       /\ symbols' = Joined(symbols, h.left, h.right)
       /\ agenda' = (agenda \ {h})
                      \cup NewPair(sentence_pieces, symbols', h.left, symbols'[h.left].next)
  /\ UNCHANGED <<sentence_pieces, normalized, encoded, ap>>

Merge ==
  /\ ap = "merge"
  /\ \E h \in agenda :
       /\ OnTop(h) /\ ~Stale(h)
       /\ symbols' = Joined(symbols, h.left, h.right)
       /\ agenda' = (agenda \ {h})
                      \cup NewPair(sentence_pieces, symbols', symbols'[h.left].prev, h.left)
                      \cup NewPair(sentence_pieces, symbols', h.left, symbols'[h.left].next)
  /\ UNCHANGED <<sentence_pieces, normalized, encoded, ap>>

\* The pieces along the list from the first symbol.
Chain(s) ==
  LET from[k \in DOMAIN s] ==
        <<s[k].piece>> \o (IF s[k].next = 0 THEN <<>> ELSE from[s[k].next])
  IN  IF s = <<>> THEN <<>> ELSE from[1]

\* Fault: an unknown piece gives one byte piece, for its first byte.
FaultPieceIds(v, piece) ==
  IF PieceToId(v, piece) # UnkId(v) THEN <<PieceToId(v, piece)>>
  ELSE <<PieceToId(v, BytePiece(piece[1]))>>

\* An unknown piece is given as the bytes it is made of.
PieceIds(v, piece) ==
  IF PieceToId(v, piece) # UnkId(v) THEN <<PieceToId(v, piece)>>
  ELSE [k \in DOMAIN piece |-> PieceToId(v, BytePiece(piece[k]))]

EmitIds ==
  /\ ap = "merge" /\ agenda = {}
  /\ encoded' = LET pieces == Chain(symbols)
                IN  FlattenSeq([k \in DOMAIN pieces |-> PieceIds(sentence_pieces, pieces[k])])
  /\ ap' = "emitted"
  /\ UNCHANGED <<sentence_pieces, normalized, symbols, agenda>>

SpmNext == PopStale \/ Merge \/ EmitIds

SpmSpec == SpmInit /\ [][SpmNext]_spmVars

-----------------------------------------------------------------------------
(* Properties. *)

SpmTypeOK ==
  /\ normalized \in Seq(0..255)
  /\ \A k \in DOMAIN symbols :
       symbols[k].prev \in 0..(k - 1) /\ symbols[k].next \in {0} \cup (k + 1)..Len(symbols)
  /\ \A h \in agenda : h.left \in DOMAIN symbols /\ h.right \in (h.left + 1)..Len(symbols)
  /\ ap \in {"merge", "emitted"}

\* Stale entries or not, every two neighbours that make a piece are on the agenda
\* with the score and size they have now: nothing is searched for again.
AgendaIsComplete ==
  ap = "merge" => \A k \in DOMAIN symbols :
    LET n == symbols[k].next
    IN  symbols[k].piece # <<>> /\ n # 0 =>
          /\ symbols[n].prev = k
          /\ NewPair(sentence_pieces, symbols, k, n) \subseteq {h \in agenda : ~Stale(h)}

\* The neighbours that make a piece; the best of them, the leftmost of those with one
\* score; and what is left when those are merged.
Able(v, w) == {k \in 1..(Len(w) - 1) : IsPiece(v, w[k] \o w[k + 1])}

BestOf(v, w) ==
  LET score(k) == Score(v, w[k] \o w[k + 1])
  IN  FirstOf({k \in Able(v, w) : \A l \in Able(v, w) : score(l) <= score(k)})

BestMerged(v, w) ==
  LET k == BestOf(v, w)
  IN  IF Able(v, w) = {} THEN w
      ELSE SubSeq(w, 1, k - 1) \o <<w[k] \o w[k + 1]>> \o SubSeq(w, k + 2, Len(w))

\* The pieces are those of merging the best of all neighbours, again and again.
Textbook(v, text) ==
  LET round[n \in 0..Len(text)] ==
        IF n = 0 THEN Characters(text) ELSE BestMerged(v, round[n - 1])
  IN  round[Len(text)]

MergedAsTextbook == ap = "emitted" => Chain(symbols) = Textbook(sentence_pieces, normalized)

\* What a piece spells, with "<0xXX>" read as its byte.
Spelt(p) == IF Len(p) = 1 /\ p[1] >= 256 THEN <<p[1] - 256>> ELSE p

\* The ids spell the text: no byte of a piece that is not in the vocabulary is lost
\* (byte_fall_back_).
TextIsSpelt ==
  ap = "emitted" =>
    FlattenSeq([k \in DOMAIN encoded |-> Spelt(sentence_pieces[encoded[k] + 1].piece)])
      = normalized

\* The agenda with its stale entries does what searching all pairs again would do.
SpmIsTextbook == SpmTypeOK /\ AgendaIsComplete /\ MergedAsTextbook /\ TextIsSpelt
=============================================================================
