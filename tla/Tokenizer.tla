------------------------------- MODULE Tokenizer -------------------------------
(***************************************************************************)
(* The tokenizers of llm/qwen_chat/src/tokenizer.cpp: the scan for special   *)
(* tokens that all of them share, and how the text between two of those is   *)
(* encoded by the Huggingface, the Tiktoken and the BERT tokenizer (for      *)
(* Sentencepiece see SpmEncode).  Texts and pieces are sequences of bytes;   *)
(* the pieces of a Huggingface vocabulary are sequences of wide characters.  *)
(***************************************************************************)
EXTENDS Integers, SequencesExt

CONSTANTS
  Inputs  \* pairs of a tokenizer file and a text of characters it has pieces for;
          \* a file is [kind, vocab, rules, special, prefix], ids are places of
          \* vocab, from 0, and rules are pairs of pieces, by rank

\* Character classes of the C locale.
Class(c) ==
  CASE c \in 65..90 \cup 97..122 -> "alpha"
    [] c \in 48..57 -> "digit"
    [] c \in 9..13 \cup {32} -> "space"
    [] c = 95 -> "under"
    [] OTHER -> "other"

Lower(c) == IF c \in 65..90 THEN c + 32 ELSE c

\* What a piece of BERT that continues a word begins with.
Sharps == <<35, 35>>

\* Rules are learnt one after the other, so that a piece a rule makes is part of
\* later rules only.
InOrder(rules) ==
  \A k, l \in DOMAIN rules :
    rules[l][1] \o rules[l][2] \in {rules[k][1], rules[k][2]} => l < k

\* A byte before p asks for a byte 10xxxxxx at p.
Asked(s, p) == (p > 1 /\ s[p - 1] >= 192) \/ (p > 2 /\ s[p - 2] >= 224)

\* Characters of one to three bytes.
Utf8(s) ==
  /\ \A p \in DOMAIN s : s[p] < 240 /\ (s[p] \in 128..191 <=> Asked(s, p))
  /\ ~Asked(s, Len(s) + 1)

InVocab(file, piece) == \E k \in DOMAIN file.vocab : file.vocab[k] = piece

\* The file has pieces for the text, for BERT also within a word, and the special
\* tokens of BERT are ASCII and continue no word.
HasPieces(file, s) ==
  CASE file.kind = "huggingface" -> TRUE
    [] file.kind = "tiktoken" -> \A p \in DOMAIN s : InVocab(file, <<s[p]>>)
    [] file.kind = "bert" ->
         /\ Utf8(s)
         /\ \A p \in DOMAIN s :
              /\ s[p] >= 224 => InVocab(file, SubSeq(s, p, p + 2))
              /\ s[p] < 128 /\ Class(s[p]) # "space" => InVocab(file, <<Lower(s[p])>>)
              /\ Class(s[p]) \in {"alpha", "digit"} => InVocab(file, Sharps \o <<Lower(s[p])>>)
         /\ \A k \in DOMAIN file.special : file.special[k] < Len(file.vocab) =>
              LET piece == file.vocab[file.special[k] + 1]
              IN  piece \in Seq(0..127) /\ ~IsPrefix(Sharps, piece)

ASSUME TokenAssumption ==
  \A in \in Inputs :
    /\ in[2] \in Seq(0..255)
    /\ in[1].kind \in {"huggingface", "tiktoken", "bert"}
    /\ in[1].vocab \in Seq(Seq(IF in[1].kind = "huggingface" THEN Nat ELSE 0..255))
    /\ in[1].special \in Seq(Nat) /\ in[1].prefix \in Seq(Nat)
    /\ in[1].rules \in Seq(Seq(Nat) \X Seq(Nat)) /\ InOrder(in[1].rules)
    /\ HasPieces(in[1], in[2])

VARIABLES
  table, text,
  i, start,  \* of encode, from 1: next place to look at, start of the segment
  ids,
  tp         \* "scan", "done", or "dead" after a throw

tokenVars == <<table, text, i, start, ids, tp>>

-----------------------------------------------------------------------------
(* Runs and pieces. *)

\* Length of the longest run of bytes of a class at the head of s.
RunOf(s, class) ==
  CHOOSE n \in 0..Len(s) :
    /\ \A k \in 1..n : Class(s[k]) = class
    /\ n < Len(s) => Class(s[n + 1]) # class

Id(piece) ==
  LET v == table.vocab
      at == {k \in 1..Len(v) : v[k] = piece}
  IN  IF at = {} THEN -1 ELSE (CHOOSE k \in at : \A l \in at : k <= l) - 1

-----------------------------------------------------------------------------
(* Huggingface *)

\* bytes_to_unicode: printable bytes stand for themselves, the others follow
\* each other from 256 on.
Printable == 33..126 \cup 161..172 \cup 174..255

B2U ==
  [b \in 0..255 |->
     IF b \in Printable THEN b ELSE 256 + Cardinality((0..(b - 1)) \ Printable)]

U2B == Inverse(B2U, 0..255, {B2U[b] : b \in 0..255})

Contractions ==   \* 's 't 're 've 'm 'll 'd
  {<<39, 115>>, <<39, 116>>, <<39, 114, 101>>, <<39, 118, 101>>, <<39, 109>>,
   <<39, 108, 108>>, <<39, 100>>}

\* Length of the match of the regular expression at the head of s, 0 if none.
WordLength(s) ==
  LET short == {c \in Contractions : IsPrefix(c, s)}
      gap == IF s[1] = 32 THEN 1 ELSE 0
      rest == SubSeq(s, gap + 1, Len(s))
  IN  IF short # {} THEN Len(CHOOSE c \in short : TRUE)
      ELSE IF rest # <<>> /\ Class(rest[1]) \in {"alpha", "digit", "other"}
           THEN gap + RunOf(rest, Class(rest[1]))
      ELSE RunOf(s, "space")

\* What regex_search finds one after the other; what lies between is dropped.
Words(s) ==
  LET from[p \in 1..(Len(s) + 1)] ==
        IF p > Len(s) THEN <<>>
        ELSE LET n == WordLength(SubSeq(s, p, Len(s)))
             IN  IF n = 0 THEN from[p + 1]
                 ELSE <<SubSeq(s, p, p + n - 1)>> \o from[p + n]
  IN  from[1]

Rank(pair) ==
  LET r == table.rules
      at == {k \in 1..Len(r) : r[k] = pair}
  IN  IF at = {} THEN Len(r) + 1 ELSE CHOOSE k \in at : \A l \in at : k <= l

\* Fault: the pair to the left is not told what it now ends with.
FaultMergeOne(st) ==
  LET live == DOMAIN st.pairs \ st.merged
      at(k) == Rank(st.pairs[k])
      ranked == {k \in live : at(k) <= Len(table.rules)}
  IN  IF ranked = {} THEN st
      ELSE LET k == CHOOSE k \in ranked : \A l \in ranked :
                      at(k) < at(l) \/ (at(k) = at(l) /\ k <= l)
               into == st.pairs[k][1] \o st.pairs[k][2]
           IN  [merged |-> st.merged \cup {k},
                pairs |-> [l \in DOMAIN st.pairs |->
                  IF l > k /\ (k + 1)..(l - 1) \subseteq st.merged
                  THEN <<into, st.pairs[l][2]>> ELSE st.pairs[l]]]

\* One round of bpe: the first live pair of the least rank is merged, and the
\* live pairs next to it are told.
MergeOne(st) ==
  LET live == DOMAIN st.pairs \ st.merged
      at(k) == Rank(st.pairs[k])
      ranked == {k \in live : at(k) <= Len(table.rules)}
  IN  IF ranked = {} THEN st
      ELSE LET k == CHOOSE k \in ranked : \A l \in ranked :
                      at(k) < at(l) \/ (at(k) = at(l) /\ k <= l)
               into == st.pairs[k][1] \o st.pairs[k][2]
               right == {l \in live : l > k /\ (k + 1)..(l - 1) \subseteq st.merged}
               left == {l \in live : l < k /\ (l + 1)..(k - 1) \subseteq st.merged}
           IN  [merged |-> st.merged \cup {k},
                pairs |-> [l \in DOMAIN st.pairs |->
                  <<IF l \in right THEN into ELSE st.pairs[l][1],
                    IF l \in left THEN into ELSE st.pairs[l][2]>>]]

\* The pieces of a word, from the boundaries that are left: what is right of each,
\* and what is left of the first.
Bpe(word) ==
  LET n == Len(word) - 1
      round[k \in 0..n] ==
        IF k = 0
        THEN [merged |-> {}, pairs |-> [l \in 1..n |-> <<<<word[l]>>, <<word[l + 1]>>>>]]
        ELSE MergeOne(round[k - 1])
      last == round[n]
  IN  IF last.merged = 1..n THEN <<word>>
      ELSE FlattenSeq([k \in 1..n |->
             IF k \in last.merged THEN <<>>
             ELSE IF 1..(k - 1) \subseteq last.merged THEN last.pairs[k]
             ELSE <<last.pairs[k][2]>>])

HfPieces(s) ==
  LET words == Words(s)
  IN  FlattenSeq([k \in DOMAIN words |->
                    Bpe([l \in DOMAIN words[k] |-> B2U[words[k][l]]])])

-----------------------------------------------------------------------------
(* Tiktoken and BERT *)

\* Greedy: the longest piece at the head, until none fits.
Tiktoken(s) ==
  LET from[p \in 1..(Len(s) + 1)] ==
        LET fits == {n \in 1..(Len(s) - p + 1) : Id(SubSeq(s, p, p + n - 1)) >= 0}
        IN  IF fits = {} THEN <<>>
            ELSE LET n == CHOOSE n \in fits : \A k \in fits : k <= n
                 IN  <<Id(SubSeq(s, p, p + n - 1))>> \o from[p + n]
  IN  from[1]

UNK == 100

WordPiece(w) ==
  LET from[p \in 1..(Len(w) + 1)] ==
        LET cand(n) == (IF p = 1 THEN <<>> ELSE Sharps) \o SubSeq(w, p, p + n - 1)
            fits == {n \in 1..(Len(w) - p + 1) : Id(cand(n)) >= 0}
        IN  IF p > Len(w) THEN <<>>
            ELSE IF fits = {} THEN <<UNK>>
            ELSE LET n == CHOOSE n \in fits : \A k \in fits : k <= n
                 IN  <<Id(cand(n))>> \o from[p + n]
  IN  from[1]

\* Words of BERT: three bytes from a byte 111xxxxx on, runs of letters and
\* digits in lower case, other bytes alone; spaces and other high bytes go.
BertWords(s) ==
  LET alnum(n, p) == \A k \in p..n : Class(s[k]) \in {"alpha", "digit"}
      from[p \in 1..(Len(s) + 3)] ==
        IF p > Len(s) THEN <<>>
        ELSE IF s[p] >= 224
             THEN <<SubSeq(s, p, IF p + 2 > Len(s) THEN Len(s) ELSE p + 2)>> \o from[p + 3]
        ELSE IF s[p] >= 128 \/ Class(s[p]) = "space" THEN from[p + 1]
        ELSE IF alnum(p, p)
             THEN LET n == CHOOSE n \in p..Len(s) :
                             alnum(n, p) /\ (n < Len(s) => ~alnum(n + 1, n + 1))
                  IN  <<[k \in 1..(n - p + 1) |-> Lower(s[p + k - 1])]>> \o from[n + 1]
        ELSE <<<<s[p]>>>> \o from[p + 1]
  IN  from[1]

Bert(s) ==
  LET words == BertWords(s)
  IN  FlattenSeq([k \in DOMAIN words |-> WordPiece(words[k])])

-----------------------------------------------------------------------------
(* The scan *)

HfIds(s) ==
  LET pieces == HfPieces(s)
  IN  [k \in DOMAIN pieces |-> Id(pieces[k])]

EncodeSegment(s) ==
  CASE table.kind = "huggingface" -> HfIds(s)
    [] table.kind = "tiktoken" -> Tiktoken(s)
    [] table.kind = "bert" -> Bert(s)

Decode(id) ==
  IF id >= Len(table.vocab) THEN <<>>
  ELSE IF table.kind # "huggingface" THEN table.vocab[id + 1]
  ELSE LET wide == table.vocab[id + 1]
       IN  FlattenSeq([k \in DOMAIN wide |->
                         IF wide[k] \in DOMAIN U2B THEN <<U2B[wide[k]]>> ELSE <<>>])

SpecialAt(special, p) ==
  /\ Decode(special) # <<>>
  /\ IsPrefix(Decode(special), SubSeq(text, p, Len(text)))

\* Place in the list of the special token that is taken at p, 0 if none is.
Taken(p) ==
  LET at == {k \in DOMAIN table.special : SpecialAt(table.special[k], p)}
  IN  IF at = {} THEN 0 ELSE CHOOSE k \in at : \A l \in at : k <= l

\* The ids of the segment before p go out; encoder_.at throws at an unknown piece.
Flush(p, more) ==
  LET new == IF p > start THEN EncodeSegment(SubSeq(text, start, p - 1)) ELSE <<>>
  IN  /\ ids' = ids \o new \o more
      /\ tp' = IF \E k \in DOMAIN new : new[k] = -1 THEN "dead"
               ELSE IF p > Len(text) THEN "done" ELSE "scan"

Encode(in) ==
  /\ table = in[1] /\ text = in[2]
  /\ i = 1 /\ start = 1
  /\ ids = table.prefix
  /\ tp = "scan"

TokenInit == \E in \in Inputs : Encode(in)

Skip ==
  /\ tp = "scan" /\ i <= Len(text) /\ Taken(i) = 0
  /\ i' = i + 1
  /\ UNCHANGED <<table, text, start, ids, tp>>

\* Fault: the loop's own ++i moves past the byte after the special token.
FaultTake ==
  /\ tp = "scan" /\ i <= Len(text) /\ Taken(i) # 0
  /\ LET special == table.special[Taken(i)]
     IN  /\ start' = i + Len(Decode(special)) /\ i' = start' + 1
         /\ Flush(i, <<special>>)
  /\ UNCHANGED <<table, text>>

TakeSpecial ==
  /\ tp = "scan" /\ i <= Len(text) /\ Taken(i) # 0
  /\ LET special == table.special[Taken(i)]
     IN  /\ start' = i + Len(Decode(special)) /\ i' = start'
         /\ Flush(i, <<special>>)
  /\ UNCHANGED <<table, text>>

\* Fault: what follows the last special token is forgotten.
FaultRest ==
  /\ tp = "scan" /\ i > Len(text) /\ tp' = "done"
  /\ ids' = IF start = 1 THEN ids \o EncodeSegment(text) ELSE ids
  /\ UNCHANGED <<table, text, i, start>>

Rest ==
  /\ tp = "scan" /\ i > Len(text)
  /\ Flush(i, <<>>)
  /\ UNCHANGED <<table, text, i, start>>

TokenNext == Skip \/ TakeSpecial \/ Rest

TokenSpec == TokenInit /\ [][TokenNext]_tokenVars

-----------------------------------------------------------------------------
(* Properties. *)

TokenTypeOK ==
  /\ text \in Seq(0..255)
  /\ i \in 1..(Len(text) + 1) /\ start \in 1..i
  /\ \A k \in DOMAIN ids : ids[k] \in Int
  /\ tp \in {"scan", "done", "dead"}

BestPair(w) ==
  LET b == {<<w[k], w[k + 1]>> : k \in 1..(Len(w) - 1)}
  IN  CHOOSE p \in b : \A q \in b : Rank(p) <= Rank(q)

Replaced(w, p) ==
  LET from[k \in 1..(Len(w) + 1)] ==
        IF k > Len(w) THEN <<>>
        ELSE IF k < Len(w) /\ <<w[k], w[k + 1]>> = p
             THEN <<p[1] \o p[2]>> \o from[k + 2]
             ELSE <<w[k]>> \o from[k + 1]
  IN  from[1]

\* Byte pair encoding as GPT-2 gives it: of the bigrams of the word the one of
\* the least rank is replaced wherever it stands, from the left, and again.
TextbookBpe(word) ==
  LET round[k \in 0..Len(word)] ==
        IF k = 0 THEN [l \in DOMAIN word |-> <<word[l]>>]
        ELSE LET w == round[k - 1]
             IN  IF Len(w) < 2 \/ Rank(BestPair(w)) > Len(table.rules) THEN w
                 ELSE Replaced(w, BestPair(w))
  IN  round[Len(word)]

\* The list of boundaries with its merged ones (tokenizer.cpp:654-709) merges
\* what the textbook merges, for rules in the order they are learnt.
BpeIsTextbook ==
  table.kind = "huggingface" /\ tp = "done" =>
    LET words == Words(text)
    IN  \A k \in DOMAIN words :
          LET word == [l \in DOMAIN words[k] |-> B2U[words[k][l]]]
          IN  Bpe(word) = TextbookBpe(word)

\* Nothing that was passed over begins a special token, also when two of them
\* stand back to back (tokenizer.cpp:171-185).
NoSpecialPassed ==
  \A p \in start..(i - 1) : \A k \in DOMAIN table.special :
    ~SpecialAt(table.special[k], p)

\* The text of a piece, and of ids.
Unsharped(piece) ==
  IF table.kind = "bert" /\ IsPrefix(Sharps, piece) /\ Len(piece) > 2
  THEN SubSeq(piece, 3, Len(piece)) ELSE piece

Back(said) == FlattenSeq([k \in DOMAIN said |-> Unsharped(Decode(said[k]))])

\* What of a text an encoding keeps: Huggingface all but "_", which no alternative
\* of its regular expression matches; Tiktoken all, with a piece for every byte;
\* BERT all but the spaces, the case and the characters of two bytes.
Kept(s, k) ==
  LET short(c) == c \in 192..223
  IN  CASE table.kind = "huggingface" -> s[k] # 95
        [] table.kind = "tiktoken" -> TRUE
        [] table.kind = "bert" ->
             Class(s[k]) # "space" /\ ~short(s[k]) /\ (k > 1 => ~short(s[k - 1]))

Core(s) ==
  FlattenSeq([k \in DOMAIN s |->
    IF ~Kept(s, k) THEN <<>> ELSE <<IF table.kind = "bert" THEN Lower(s[k]) ELSE s[k]>>])

\* Decoding gives back the text.
NothingLost ==
  tp = "done" => Core(Back(SubSeq(ids, Len(table.prefix) + 1, Len(ids)))) = Core(text)

\* Encoding keeps the text: no special token is missed, no piece of text is lost.
TextIsKept == TokenTypeOK /\ NoSpecialPassed /\ NothingLost
=============================================================================
