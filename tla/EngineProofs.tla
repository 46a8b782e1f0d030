------------------------------ MODULE EngineProofs ------------------------------
(***************************************************************************)
(* The engines under the chat.                                               *)
(*                                                                          *)
(* The session of qwen_chat: for every vocabulary, every pruning of it, every *)
(* prompt and all scores the sampler picks the best id, and the history, the  *)
(* counters and the past agree.                                               *)
(*                                                                          *)
(* The synthesis of a line: for every lexicon, every line and all durations   *)
(* each token is said, and each frame is made from its token and heard once   *)
(* in its place.                                                              *)
(*                                                                          *)
(* The Sentencepiece agenda: for every vocabulary that has the bytes of the  *)
(* text, merging from a priority queue gives the pieces of the textbook's    *)
(* best-pair-first rounds.                                                   *)
(***************************************************************************)
EXTENDS LlmSession, Synthesis, SpmEncode, SequenceTheorems, FiniteSetTheorems, SetInductions

-----------------------------------------------------------------------------
(* The loop of sample: BestUpTo is the function its recursion describes. *)

\* f is the loop over the first k scores.
Follows(f, s, k) ==
  f = [n \in 0..k |-> IF n = 0 THEN [max |-> 0, row |-> 1] ELSE Better(s, n, f[n - 1])]

LEMMA BestExists == ASSUME NEW s, NEW k \in Nat PROVE \E f : Follows(f, s, k)
  <1> DEFINE T == {m \in Nat : \E f : Follows(f, s, m)}
  <1>1. 0 \in T
    <2> DEFINE f == [n \in 0..0 |-> [max |-> 0, row |-> 1]]
    <2>1. Follows(f, s, 0)
      BY DEF Follows
    <2> QED BY <2>1
  <1>2. ASSUME NEW m \in Nat, m \in T PROVE m + 1 \in T
    <2>1. PICK f : Follows(f, s, m)
      BY <1>2
    <2> DEFINE g == [n \in 0..(m + 1) |-> IF n = m + 1 THEN Better(s, n, f[m]) ELSE f[n]]
    <2>2. \A n \in 0..m :
            f[n] = IF n = 0 THEN [max |-> 0, row |-> 1] ELSE Better(s, n, f[n - 1])
      BY <2>1 DEF Follows
    <2>3. \A n \in 0..(m + 1) :
            g[n] = IF n = 0 THEN [max |-> 0, row |-> 1] ELSE Better(s, n, g[n - 1])
      BY <2>2
    <2>4. Follows(g, s, m + 1)
      BY <2>3, Zenon DEF Follows
    <2> QED BY <2>4
  <1>3. Nat \subseteq T
    <2> HIDE DEF T
    <2> QED BY <1>1, <1>2, SetInduction
  <1> QED BY <1>3

LEMMA BestFollows == ASSUME NEW s, Len(s) \in Nat PROVE Follows(BestUpTo(s), s, Len(s))
  <1>1. BestUpTo(s) = CHOOSE f : Follows(f, s, Len(s))
    BY Zenon DEF BestUpTo, Follows
  <1>2. \E f : Follows(f, s, Len(s))
    BY BestExists
  <1> QED BY <1>1, <1>2, Zenon

\* What the loop knows after k scores: b is the greatest of them and 0, and the
\* first place of the greatest if that is positive.
BestSoFar(s, k, b) ==
  /\ b.max \in Nat
  /\ \A j \in 1..k : s[j] <= b.max
  /\ IF b.max = 0 THEN b.row = 1
     ELSE /\ b.row \in 1..k /\ s[b.row] = b.max
          /\ \A j \in 1..(b.row - 1) : s[j] < b.max

LEMMA StepFollows ==
  ASSUME NEW f, NEW s, NEW l \in Nat, Follows(f, s, l)
  PROVE  /\ f[0] = [max |-> 0, row |-> 1]
         /\ \A n \in 1..l : f[n] = Better(s, n, f[n - 1])
  <1>1. \A n \in 0..l :
          f[n] = IF n = 0 THEN [max |-> 0, row |-> 1] ELSE Better(s, n, f[n - 1])
    BY Zenon DEF Follows
  <1> QED BY <1>1

LEMMA BestHolds ==
  ASSUME NEW s \in Seq(Int), NEW k \in 0..Len(s) PROVE BestSoFar(s, k, BestUpTo(s)[k])
  <1> DEFINE f == BestUpTo(s)
             T == {m \in Nat : m <= Len(s) => BestSoFar(s, m, f[m])}
  <1>0. Len(s) \in Nat
    OBVIOUS
  <1>1. Follows(f, s, Len(s))
    BY <1>0, BestFollows
  <1> HIDE DEF f
  <1>2. f[0] = [max |-> 0, row |-> 1]
    BY <1>0, <1>1, StepFollows
  <1>3. \A n \in 1..Len(s) : f[n] = Better(s, n, f[n - 1])
    BY <1>0, <1>1, StepFollows, Zenon
  <1>4. 0 \in T
    BY <1>2 DEF BestSoFar
  <1>5. ASSUME NEW m \in Nat, m \in T PROVE m + 1 \in T
    <2> SUFFICES ASSUME m + 1 <= Len(s) PROVE BestSoFar(s, m + 1, f[m + 1])
      OBVIOUS
    <2> DEFINE b == f[m]
    <2>1. BestSoFar(s, m, b)
      BY <1>5
    <2>2. f[m + 1] = Better(s, m + 1, b)
      BY <1>3, <1>0
    <2>3. s[m + 1] \in Int
      BY ElementOfSeq
    <2> HIDE DEF b
    <2>4. CASE s[m + 1] > b.max
      <3>1. f[m + 1] = [max |-> s[m + 1], row |-> m + 1]
        BY <2>2, <2>4 DEF Better
      <3> QED BY <2>1, <2>3, <2>4, <3>1 DEF BestSoFar
    <2>5. CASE ~(s[m + 1] > b.max)
      <3>1. f[m + 1] = b
        BY <2>2, <2>5 DEF Better
      <3> QED BY <2>1, <2>3, <2>5, <3>1, SMTT(40) DEF BestSoFar
    <2> QED BY <2>4, <2>5 DEF b
  <1>6. Nat \subseteq T
    <2> HIDE DEF T
    <2> QED BY <1>4, <1>5, SetInduction
  <1> QED BY <1>6, <1>0 DEF f

\* A row comes out, and if any score is positive the first of the best.
LEMMA ArgmaxIsBest ==
  ASSUME NEW s \in Seq(Int), s # <<>>
  PROVE  /\ Argmax(s) \in 1..Len(s)
         /\ (\E i \in 1..Len(s) : s[i] > 0) =>
              \A j \in 1..Len(s) :
                s[j] < s[Argmax(s)] \/ (s[j] = s[Argmax(s)] /\ Argmax(s) <= j)
  <1> DEFINE b == BestUpTo(s)[Len(s)]
  <1>1. BestSoFar(s, Len(s), b)
    BY BestHolds
  <1>2. Argmax(s) = b.row
    BY DEF Argmax
  <1>3. Len(s) \in Nat \ {0} /\ \A j \in 1..Len(s) : s[j] \in Int
    BY EmptySeq, ElementOfSeq
  <1> HIDE DEF b
  <1> QED BY <1>1, <1>2, <1>3 DEF BestSoFar

\* The id that is picked is one of the rows', and the best.
LEMMA PickIsBest ==
  ASSUME NEW r \in Seq(Tokens), r # <<>>, NEW ids,
         NEW scores \in [1..Len(r) -> Scores]
  PROVE  LET s == Penalised(scores, Repeated(r, ids))
         IN  \E i \in 1..Len(r) :
               /\ Pick(scores, r, ids) = r[i] /\ r[i] \in Tokens
               /\ (\E j \in 1..Len(r) : s[j] > 0) =>
                    \A j \in 1..Len(r) : s[j] < s[i] \/ (s[j] = s[i] /\ i <= j)
  <1> DEFINE s == Penalised(scores, Repeated(r, ids))
             i == Argmax(s)
  <1>1. Len(r) \in Nat \ {0}
    BY EmptySeq
  <1>2. s \in [1..Len(r) -> Int]
    <2>1. \A n \in 1..Len(r) : scores[n] \in Int
      BY SessionAssumption
    <2> QED BY <2>1 DEF Penalised
  <1>3. s \in Seq(Int) /\ Len(s) = Len(r)
    <2> HIDE DEF s
    <2>1. s \in Seq(Int)
      BY <1>1, <1>2
    <2> QED BY <1>1, <1>2, <2>1, LenProperties
  <1>4. Pick(scores, r, ids) = r[i]
    BY Zenon DEF Pick
  <1> HIDE DEF s
  <1>5. s # <<>>
    BY <1>1, <1>3
  <1>6. i \in 1..Len(r)
    BY <1>3, <1>5, ArgmaxIsBest
  <1>7. (\E j \in 1..Len(r) : s[j] > 0) =>
          \A j \in 1..Len(r) : s[j] < s[i] \/ (s[j] = s[i] /\ i <= j)
    BY <1>3, <1>5, ArgmaxIsBest
  <1>8. r[i] \in Tokens
    BY <1>6, ElementOfSeq
  <1> HIDE DEF i
  <1> QED BY <1>4, <1>6, <1>7, <1>8 DEF s

\* With the right types the sampler is right.
LEMMA SamplerIsRight == ASSUME SessionTypeOK PROVE BestIsPicked
  <1> SUFFICES ASSUME NEW scores \in [1..Len(remap) -> Scores]
               PROVE
    LET said(i) == \E k \in 1..Len(history_ids) : history_ids[k] = remap[i]
        s(i) == IF ~said(i) THEN 110 * scores[i]
                ELSE IF scores[i] < 0 THEN 121 * scores[i] ELSE 100 * scores[i]
        rows == 1..Len(remap)
    IN  (\E i \in rows : s(i) > 0) =>
          \E i \in rows : /\ remap[i] = Pick(scores, remap, Ids(history_ids))
                         /\ \A j \in rows : s(j) < s(i) \/ (s(j) = s(i) /\ i <= j)
    BY DEF BestIsPicked
  <1> DEFINE said(i) == \E k \in 1..Len(history_ids) : history_ids[k] = remap[i]
             s(i) == IF ~said(i) THEN 110 * scores[i]
                     ELSE IF scores[i] < 0 THEN 121 * scores[i] ELSE 100 * scores[i]
             p == Penalised(scores, Repeated(remap, Ids(history_ids)))
  <1>1. \A i \in 1..Len(remap) : p[i] = s(i)
    <2> SUFFICES ASSUME NEW i \in 1..Len(remap) PROVE p[i] = s(i)
      OBVIOUS
    <2>1. i \in Repeated(remap, Ids(history_ids)) <=> said(i)
      BY DEF Repeated, Ids
    <2>2. DOMAIN scores = 1..Len(remap)
      OBVIOUS
    <2> QED BY <2>1, <2>2 DEF Penalised
  <1>2. remap \in Seq(Tokens) /\ remap # <<>>
    BY SessionAssumption DEF SessionTypeOK
  <1>3. PICK i \in 1..Len(remap) :
          /\ Pick(scores, remap, Ids(history_ids)) = remap[i]
          /\ (\E j \in 1..Len(remap) : p[j] > 0) =>
               \A j \in 1..Len(remap) : p[j] < p[i] \/ (p[j] = p[i] /\ i <= j)
    BY <1>2, PickIsBest
  <1> HIDE DEF s, p
  <1> QED BY <1>1, <1>3, SMTT(40) DEF s

-----------------------------------------------------------------------------
(* The inductive invariant. *)

PastTokens == [tok : Tokens, pos : Int, sees : SUBSET Int]

\* What reset leaves for the next turn of chat().
ChatForgets == driver = "chat" /\ sp = "idle" => history_ids = <<>> /\ all_seq_len = 0

\* The answer of the turn: gen_seq_len is one ahead of it after a forward, and
\* nothing is fed that the budget has no room for.
AnswerIsCounted ==
  /\ sp = "forward" => gen_seq_len = Len(output)
  /\ sp = "sample" => gen_seq_len = Len(output) + 1
  /\ sp \in {"forward", "sample"} /\ output # <<>> => prompt_len + Len(output) < MaxNew
  /\ driver = "evaluate" => output = <<>> /\ sp # "sample"

SessionInv ==
  /\ SessionTypeOK /\ past \in Seq(PastTokens)
  /\ ChatForgets /\ AnswerIsCounted
  /\ PastIsCounted /\ HistoryIsPast /\ PastIsCausal
  /\ BudgetIsUsed /\ NoStopInside

LEMMA SessionInitInv == SessionInit => SessionInv
  <1> SUFFICES ASSUME SessionInit PROVE SessionInv
    OBVIOUS
  <1>1. <<>> \in Seq(Tokens) /\ <<>> \in Seq(PastTokens) /\ Len(<<>>) = 0
    BY EmptySeq
  <1>2. SessionTypeOK /\ past \in Seq(PastTokens)
    BY <1>1 DEF SessionInit, SessionTypeOK
  <1>3. ChatForgets /\ AnswerIsCounted /\ BudgetIsUsed /\ NoStopInside
    BY <1>1 DEF SessionInit, ChatForgets, AnswerIsCounted, BudgetIsUsed, NoStopInside
  <1>4. sp = "idle" /\ Pending = <<>> /\ Len(past) = 0 /\ Len(history_ids) = 0 /\ Carried = 0
    <2>1. /\ sp = "idle" /\ Pending = <<>> /\ past = <<>> /\ history_ids = <<>>
          /\ all_seq_len = 0
      BY DEF SessionInit, Pending
    <2>2. Len(past) = 0 /\ Len(history_ids) = 0
      BY <1>1, <2>1
    <2>3. Carried = all_seq_len - Len(past)
      BY DEF Carried
    <2> QED BY <2>1, <2>2, <2>3
  <1>5. PastIsCounted
    <2>1. Len(Pending) = 0 /\ all_seq_len = 0
      BY <1>1, <1>4 DEF SessionInit
    <2> QED BY <1>4, <2>1 DEF PastIsCounted
  <1>6. HistoryIsPast /\ PastIsCausal
    BY <1>1, <1>4 DEF HistoryIsPast, PastIsCausal
  <1> QED BY <1>2, <1>3, <1>5, <1>6 DEF SessionInv

\* What is fed to the model, and where: the position counts on from all_seq_len.
LEMMA FedType ==
  ASSUME SessionTypeOK, past \in Seq(PastTokens)
  PROVE  /\ Fed(input) \in Seq(PastTokens) /\ Len(Fed(input)) = Len(input)
         /\ \A i \in 1..Len(input) :
              /\ Fed(input)[i].tok = input[i]
              /\ Fed(input)[i].pos = all_seq_len + i - 1
              /\ Fed(input)[i].sees \in {0..(Len(past) + i - 1), 0..(all_seq_len + i - 1)}
  <1> DEFINE n == Len(input)
  <1>1. n \in Nat /\ Len(past) \in Nat /\ all_seq_len \in Nat
    BY DEF SessionTypeOK
  <1>2. \A i \in 1..n : input[i] \in Tokens
    BY ElementOfSeq DEF SessionTypeOK
  <1>3. Fed(input) = [i \in 1..n |->
          [tok |-> input[i],
           pos |-> Position(all_seq_len, gen_seq_len, n, i),
           sees |-> Sees(all_seq_len, Len(past), n, i)]]
    BY Zenon DEF Fed
  <1> HIDE DEF n
  <1>4. \A i \in 1..n :
          /\ Position(all_seq_len, gen_seq_len, n, i) \in Int
          /\ Sees(all_seq_len, Len(past), n, i) \subseteq Int
    BY <1>1 DEF Position, Sees
  <1>5. Fed(input) \in [1..n -> PastTokens]
    BY <1>2, <1>3, <1>4 DEF PastTokens
  <1>6. Fed(input) \in Seq(PastTokens) /\ Len(Fed(input)) = n
    <2>1. Fed(input) \in Seq(PastTokens)
      BY <1>1, <1>5
    <2> QED BY <1>1, <1>5, <2>1, LenProperties
  <1>7. ASSUME NEW i \in 1..n
        PROVE  /\ Position(all_seq_len, gen_seq_len, n, i) = all_seq_len + i - 1
               /\ Sees(all_seq_len, Len(past), n, i)
                    \in {0..(Len(past) + i - 1), 0..(all_seq_len + i - 1)}
    <2>1. Position(all_seq_len, gen_seq_len, n, i) = all_seq_len + i - 1
      BY <1>1 DEF Position
    <2>2. CASE n = 1
      <3>1. Sees(all_seq_len, Len(past), n, i) = 0..Len(past)
        BY <2>2 DEF Sees
      <3>2. Len(past) + i - 1 = Len(past)
        BY <1>1, <2>2
      <3> QED BY <2>1, <3>1, <3>2
    <2>3. CASE n # 1
      <3> DEFINE P == {j \in 0..(all_seq_len + n - 1) : j <= i - 1 + all_seq_len}
      <3>1. Sees(all_seq_len, Len(past), n, i) = P
        BY <2>3 DEF Sees
      <3>2. \A j : j \in P <=> j \in 0..(all_seq_len + i - 1)
        BY <1>1
      <3>3. P = 0..(all_seq_len + i - 1)
        BY <3>2
      <3> QED BY <2>1, <3>1, <3>3
    <2> QED BY <2>2, <2>3
  <1> QED BY <1>3, <1>6, <1>7 DEF n

\* c is a, and then b.
Extends(c, a, b) ==
  /\ Len(c) = Len(a) + Len(b)
  /\ \A i \in 1..Len(a) : c[i] = a[i]
  /\ \A i \in (Len(a) + 1)..(Len(a) + Len(b)) : c[i] = b[i - Len(a)]
  /\ \A i \in 1..Len(c) :
       \/ i \in 1..Len(a)
       \/ i \in (Len(a) + 1)..(Len(a) + Len(b)) /\ i - Len(a) \in 1..Len(b)

LEMMA Grown ==
  ASSUME NEW S, NEW a \in Seq(S), NEW b \in Seq(S)
  PROVE  a \o b \in Seq(S) /\ Extends(a \o b, a, b)
  <1>1. Len(a) \in Nat /\ Len(b) \in Nat
    OBVIOUS
  <1>2. /\ a \o b \in Seq(S) /\ Len(a \o b) = Len(a) + Len(b)
        /\ \A i \in 1..(Len(a) + Len(b)) :
             (a \o b)[i] = IF i <= Len(a) THEN a[i] ELSE b[i - Len(a)]
    BY ConcatProperties
  <1> QED BY <1>1, <1>2 DEF Extends

-----------------------------------------------------------------------------
(* One lemma per action. *)

\* A turn begins: with nothing in the past, whatever the turn before left.
LEMMA RespondInv ==
  ASSUME SessionInv, NEW prompt \in Prompts, Respond(prompt)
  PROVE  SessionInv'
  <1> DEFINE goesOn == driver # "evaluate" /\ reuse /\ all_seq_len > 0
             ids == IF goesOn THEN <<ImEnd>> \o prompt ELSE prompt
  <1>1. ids \in Seq(Tokens) /\ ids # <<>> /\ Len(ids) \in Nat
    <2>1. prompt \in Seq(Tokens) /\ prompt # <<>> /\ <<ImEnd>> \in Seq(Tokens) /\ Len(<<ImEnd>>) = 1
      BY SessionAssumption
    <2>2. <<ImEnd>> \o prompt \in Seq(Tokens) /\ Len(<<ImEnd>> \o prompt) = 1 + Len(prompt)
      BY <2>1, ConcatProperties
    <2>3. <<ImEnd>> \o prompt # <<>>
      BY <2>1, <2>2, EmptySeq
    <2> QED BY <2>1, <2>2, <2>3
  <1>2. /\ sp = "idle"
        /\ past' = <<>> /\ gen_seq_len' = 0
        /\ all_seq_len' = IF reuse THEN all_seq_len ELSE 0
        /\ prompt_len' = Len(ids)
        /\ history_ids' = (IF reuse THEN history_ids ELSE <<>>) \o ids
        /\ input' = ids /\ output' = <<>> /\ sp' = "forward"
        /\ UNCHANGED <<driver, reuse, remap, token>>
    BY Zenon DEF Respond, GenerateInit
  <1> HIDE DEF ids
  <1>3. <<>> \in Seq(PastTokens) /\ <<>> \in Seq(Tokens) /\ Len(<<>>) = 0
    BY EmptySeq
  <1>4. history_ids' \in Seq(Tokens)
    <2>1. (IF reuse THEN history_ids ELSE <<>>) \in Seq(Tokens)
      BY <1>3 DEF SessionInv, SessionTypeOK
    <2> QED BY <1>1, <1>2, <2>1, ConcatProperties
  <1>5. SessionTypeOK' /\ (past \in Seq(PastTokens))'
    BY <1>1, <1>2, <1>3, <1>4 DEF SessionInv, SessionTypeOK
  <1>6. ChatForgets' /\ AnswerIsCounted' /\ BudgetIsUsed' /\ NoStopInside'
    BY <1>2, <1>3 DEF ChatForgets, AnswerIsCounted, BudgetIsUsed, NoStopInside, SessionInv
  <1>7. \E h \in Seq(Tokens) :
          Len(h) = all_seq_len' /\ history_ids' = h \o ids /\ (~OneTalk => all_seq_len' = 0)
    <2>1. CASE reuse
      <3>1. Len(history_ids) = all_seq_len
        <4>1. CASE driver = "chat"
          BY <1>2, <1>3, <4>1 DEF SessionInv, ChatForgets
        <4>2. CASE driver # "chat"
          <5>1. InTurn /\ Len(Pending) = 0 /\ all_seq_len \in Nat
            BY <1>2, <1>3, <4>2 DEF InTurn, Pending, SessionInv, SessionTypeOK
          <5>2. Len(history_ids) = all_seq_len + Len(Pending)
            BY <5>1 DEF SessionInv, PastIsCounted
          <5> QED BY <5>1, <5>2
        <4> QED BY <4>1, <4>2
      <3>2. ~OneTalk => all_seq_len = 0
        BY <1>2, <2>1 DEF OneTalk, SessionInv, ChatForgets
      <3> QED BY <1>2, <2>1, <3>1, <3>2 DEF SessionInv, SessionTypeOK
    <2>2. CASE ~reuse
      <3>1. all_seq_len' = 0 /\ history_ids' = <<>> \o ids
        BY <1>2, <2>2
      <3> QED BY <1>3, <3>1
    <2> QED BY <2>1, <2>2
  <1>8. OneTalk' = OneTalk /\ Pending' = ids /\ Len(past') = 0 /\ all_seq_len' \in Nat
    BY <1>2, <1>3 DEF OneTalk, Pending, SessionInv, SessionTypeOK
  <1>9. Carried' = all_seq_len'
    <2>1. \A n \in Nat : n - 0 = n
      OBVIOUS
    <2> QED BY <1>8, <2>1, Zenon DEF Carried
  <1>10. PICK h \in Seq(Tokens) :
          Len(h) = all_seq_len' /\ history_ids' = h \o ids /\ (~OneTalk => all_seq_len' = 0)
    BY <1>7
  <1>11. Extends(history_ids', h, ids) /\ Len(h) \in Nat
    BY <1>1, <1>10, Grown
  <1>12. PastIsCounted'
    BY <1>1, <1>2, <1>3, <1>8, <1>9, <1>10, <1>11 DEF PastIsCounted, Extends
  <1>13. HistoryIsPast' /\ PastIsCausal'
    <2>1. \A i \in 1..Len(ids) : history_ids'[Len(h) + i] = ids[i]
      BY <1>1, <1>11 DEF Extends
    <2> QED BY <1>8, <1>10, <2>1 DEF HistoryIsPast, PastIsCausal
  <1> QED BY <1>5, <1>6, <1>12, <1>13 DEF SessionInv

\* The model is fed: the past grows by the input, at its place.
LEMMA ForwardInv == ASSUME SessionInv, Forward PROVE SessionInv'
  <1> USE DEF SessionInv
  <1>1. /\ sp = "forward"
        /\ past' = past \o Fed(input)
        /\ all_seq_len' = all_seq_len + Len(input)
        /\ gen_seq_len' = gen_seq_len + 1
        /\ sp' = IF driver = "evaluate" THEN "idle" ELSE "sample"
        /\ UNCHANGED <<driver, reuse, remap, history_ids, prompt_len, input, token, output>>
    BY Zenon DEF Forward
  <1>2. /\ input \in Seq(Tokens) /\ Len(input) \in Nat /\ Len(past) \in Nat
        /\ all_seq_len \in Nat /\ gen_seq_len \in Nat
    BY DEF SessionTypeOK
  <1>3. /\ Fed(input) \in Seq(PastTokens) /\ Len(Fed(input)) = Len(input)
        /\ \A i \in 1..Len(input) :
             /\ Fed(input)[i].tok = input[i]
             /\ Fed(input)[i].pos = all_seq_len + i - 1
             /\ Fed(input)[i].sees \in {0..(Len(past) + i - 1), 0..(all_seq_len + i - 1)}
    BY FedType
  <1>4. /\ past' \in Seq(PastTokens) /\ Len(past') = Len(past) + Len(input)
        /\ \A i \in 1..Len(past) : past'[i] = past[i]
        /\ \A i \in (Len(past) + 1)..(Len(past) + Len(input)) :
             past'[i] = Fed(input)[i - Len(past)]
        /\ \A i \in 1..Len(past') :
             \/ i \in 1..Len(past)
             \/ /\ i \in (Len(past) + 1)..(Len(past) + Len(input))
                /\ i - Len(past) \in 1..Len(input)
    <2>1. past' \in Seq(PastTokens) /\ Extends(past', past, Fed(input))
      <3>1. past \in Seq(PastTokens)
        OBVIOUS
      <3> QED BY <1>1, <1>3, <3>1, Grown, Zenon
    <2> QED BY <1>3, <2>1 DEF Extends
  <1>5. SessionTypeOK'
    BY <1>1, <1>2 DEF SessionTypeOK, Drivers
  <1>6. ChatForgets' /\ AnswerIsCounted' /\ BudgetIsUsed' /\ NoStopInside'
    BY <1>1, <1>2 DEF ChatForgets, AnswerIsCounted, BudgetIsUsed, NoStopInside
  <1>7. /\ OneTalk' = OneTalk /\ Carried' = Carried /\ Pending' = <<>> /\ Len(Pending') = 0
        /\ Pending = input /\ InTurn
        /\ all_seq_len = Carried + Len(past) /\ Carried \in Int
    BY <1>1, <1>2, <1>4, EmptySeq DEF OneTalk, Carried, Pending, InTurn
  <1>8. PastIsCounted'
    BY <1>1, <1>2, <1>4, <1>7 DEF PastIsCounted
  <1>9. HistoryIsPast'
    <2> SUFFICES ASSUME NEW i \in 1..Len(past') PROVE history_ids[Carried + i] = past'[i].tok
      BY <1>1, <1>7 DEF HistoryIsPast
    <2>1. CASE i \in 1..Len(past)
      BY <1>4, <1>7, <2>1 DEF HistoryIsPast
    <2>2. CASE /\ i \in (Len(past) + 1)..(Len(past) + Len(input))
               /\ i - Len(past) \in 1..Len(input)
      <3>1. past'[i].tok = input[i - Len(past)]
        BY <1>3, <1>4, <2>2
      <3>2. history_ids[all_seq_len + (i - Len(past))] = input[i - Len(past)]
        BY <1>7, <2>2 DEF HistoryIsPast
      <3>3. all_seq_len + (i - Len(past)) = Carried + i
        BY <1>2, <1>7, <2>2
      <3> QED BY <3>1, <3>2, <3>3
    <2> QED BY <1>4, <2>1, <2>2
  <1>10. PastIsCausal'
    <2> SUFFICES ASSUME NEW i \in 1..Len(past')
                 PROVE  /\ past'[i].pos = Carried + i - 1
                        /\ past'[i].sees \in {0..(i - 1), 0..past'[i].pos}
      BY <1>7 DEF PastIsCausal
    <2>1. CASE i \in 1..Len(past)
      BY <1>4, <1>7, <2>1 DEF PastIsCausal
    <2>2. CASE /\ i \in (Len(past) + 1)..(Len(past) + Len(input))
               /\ i - Len(past) \in 1..Len(input)
      <3> DEFINE j == i - Len(past)
      <3>1. j \in 1..Len(input) /\ Len(past) + j - 1 = i - 1 /\ all_seq_len + j - 1 = Carried + i - 1
        BY <1>2, <1>7, <2>2
      <3>2. past'[i] = Fed(input)[j]
        BY <1>4, <2>2
      <3> HIDE DEF j
      <3>3. /\ Fed(input)[j].pos = all_seq_len + j - 1
            /\ Fed(input)[j].sees \in {0..(Len(past) + j - 1), 0..(all_seq_len + j - 1)}
        BY <1>3, <3>1
      <3> QED BY <3>1, <3>2, <3>3
    <2> QED BY <1>4, <2>1, <2>2
  <1> QED BY <1>4, <1>5, <1>6, <1>8, <1>9, <1>10

\* The past is lost with the process.
LEMMA ThrowInv == ASSUME SessionInv, Throw PROVE SessionInv'
  <1>1. <<>> \in Seq(PastTokens) /\ Len(<<>>) = 0
    BY EmptySeq
  <1> QED BY <1>1 DEF Throw, SessionInv, SessionTypeOK, ChatForgets, AnswerIsCounted, PastIsCounted,
                      HistoryIsPast, PastIsCausal, BudgetIsUsed, NoStopInside,
                      InTurn, Pending, Carried

\* A new process starts where the first one did.
LEMMA ReloadInv == ASSUME SessionInv, Reload PROVE SessionInv'
  <1>1. <<>> \in Seq(Tokens) /\ <<>> \in Seq(PastTokens) /\ Len(<<>>) = 0
    BY EmptySeq
  <1>2. SessionTypeOK' /\ (past \in Seq(PastTokens))'
    BY <1>1 DEF Reload, SessionInv, SessionTypeOK
  <1>3. ChatForgets' /\ AnswerIsCounted' /\ BudgetIsUsed' /\ NoStopInside'
    BY <1>1 DEF Reload, ChatForgets, AnswerIsCounted, BudgetIsUsed, NoStopInside
  <1>4. /\ sp' = "idle" /\ Pending' = <<>> /\ Len(past') = 0 /\ Len(history_ids') = 0
        /\ all_seq_len' = 0
    BY <1>1 DEF Reload, Pending
  <1>5. Carried' = 0
    <2>1. Carried' = all_seq_len' - Len(past')
      BY DEF Carried
    <2> QED BY <1>4, <2>1
  <1>6. PastIsCounted' /\ HistoryIsPast' /\ PastIsCausal'
    BY <1>1, <1>4, <1>5 DEF PastIsCounted, HistoryIsPast, PastIsCausal
  <1> QED BY <1>2, <1>3, <1>6 DEF SessionInv

\* The answer ends: nothing is left for the next turn of chat().
LEMMA FinishInv ==
  ASSUME SessionInv, sp = "sample", Finish, NEW id \in Tokens, token' = id,
         UNCHANGED <<driver, reuse, remap, past, gen_seq_len, prompt_len, input>>,
         output' \in Seq(Tokens), BudgetIsUsed', NoStopInside',
         driver = "evaluate" => output' = <<>>
  PROVE  SessionInv'
  <1>1. <<>> \in Seq(Tokens)
    BY EmptySeq
  <1>2. SessionTypeOK'
    <2>1. history_ids' \in Seq(Tokens) /\ all_seq_len' \in Nat /\ sp' = "idle"
      <3>1. CASE driver = "chat"
        BY <1>1, <3>1 DEF Finish
      <3>2. CASE driver # "chat"
        BY <3>2 DEF Finish, SessionInv, SessionTypeOK
      <3> QED BY <3>1, <3>2
    <2> QED BY <2>1 DEF SessionInv, SessionTypeOK
  <1>3. ChatForgets' /\ AnswerIsCounted'
    BY DEF SessionInv, Finish, ChatForgets, AnswerIsCounted
  <1>4. PastIsCounted' /\ HistoryIsPast' /\ PastIsCausal'
    <2>1. CASE driver = "chat"
      BY <2>1 DEF Finish, InTurn, PastIsCounted, HistoryIsPast, PastIsCausal
    <2>2. CASE driver # "chat"
      <3>1. /\ sp' = "idle" /\ UNCHANGED <<history_ids, all_seq_len, past, driver, reuse>>
        BY <2>2 DEF Finish
      <3>2. Carried' = Carried /\ OneTalk' = OneTalk /\ Pending' = <<>> /\ Pending = <<>> /\ InTurn
        BY <3>1 DEF Carried, OneTalk, Pending, InTurn
      <3> QED BY <3>1, <3>2 DEF SessionInv, PastIsCounted, HistoryIsPast, PastIsCausal
    <2> QED BY <2>1, <2>2
  <1> QED BY <1>2, <1>3, <1>4 DEF SessionInv

\* An id is sampled: it ends the answer, or is printed and fed while there is
\* room, or is the last.
LEMMA SampleInv == ASSUME SessionInv, Sample PROVE SessionInv'
  <1>1. PICK scores \in [1..Len(remap) -> Scores] :
          LET id == Pick(scores, remap, Ids(history_ids))
          IN  /\ token' = id
              /\ IF output # <<>> /\ id \in Stops
                 THEN Finish /\ UNCHANGED <<output, input>>
                 ELSE output' = Append(output, id) /\ DecodeStep(id)
    BY DEF Sample
  <1> DEFINE id == Pick(scores, remap, Ids(history_ids))
  <1>2. /\ sp = "sample" /\ token' = id
        /\ UNCHANGED <<driver, reuse, remap, past, gen_seq_len, prompt_len>>
        /\ \/ output # <<>> /\ id \in Stops /\ Finish /\ UNCHANGED <<output, input>>
           \/ (output = <<>> \/ id \notin Stops) /\ output' = Append(output, id) /\ DecodeStep(id)
    BY <1>1 DEF Sample
  <1>3. id \in Tokens
    <2>1. remap \in Seq(Tokens) /\ remap # <<>>
      BY SessionAssumption DEF SessionInv, SessionTypeOK
    <2> QED BY <2>1, PickIsBest
  <1> HIDE DEF id
  <1>4. /\ driver # "evaluate"
        /\ output \in Seq(Tokens) /\ Len(output) \in Nat /\ prompt_len \in Nat /\ MaxNew \in Nat
        /\ gen_seq_len = Len(output) + 1
        /\ output # <<>> => prompt_len + Len(output) < MaxNew
    BY <1>2, SessionAssumption DEF SessionInv, SessionTypeOK, AnswerIsCounted
  <1>5. CASE output # <<>> /\ id \in Stops /\ Finish /\ UNCHANGED <<output, input>>
    <2>1. BudgetIsUsed' /\ NoStopInside'
      BY <1>2, <1>4, <1>5 DEF SessionInv, BudgetIsUsed, NoStopInside, Larger
    <2> QED BY <1>2, <1>3, <1>4, <1>5, <2>1, FinishInv
  <1>6. CASE (output = <<>> \/ id \notin Stops) /\ output' = Append(output, id) /\ DecodeStep(id)
    <2>1. /\ output' \in Seq(Tokens) /\ output' # <<>> /\ Len(output') = Len(output) + 1
          /\ \A i \in 1..Len(output) : output'[i] = output[i]
          /\ output'[Len(output) + 1] = id
      BY <1>3, <1>4, <1>6, AppendProperties
    <2>2. NoStopInside'
      <3> SUFFICES ASSUME NEW i \in 2..Len(output') PROVE output'[i] \notin Stops
        BY DEF NoStopInside
      <3>1. CASE i \in 2..Len(output)
        BY <1>4, <2>1, <3>1 DEF SessionInv, NoStopInside
      <3>2. CASE i = Len(output) + 1
        <4>1. output # <<>>
          BY <3>2, EmptySeq
        <4> QED BY <1>6, <2>1, <3>2, <4>1
      <3> QED BY <1>4, <2>1, <3>1, <3>2
    <2>3. CASE prompt_len + gen_seq_len < MaxNew
      <3>1. /\ history_ids' = Append(history_ids, id)
            /\ input' = <<id>> /\ sp' = "forward" /\ UNCHANGED all_seq_len
        BY <1>6, <2>3 DEF DecodeStep
      <3>2. history_ids \in Seq(Tokens)
        BY DEF SessionInv, SessionTypeOK
      <3>3. <<id>> \in Seq(Tokens) /\ Len(<<id>>) = 1 /\ <<id>> # <<>>
        BY <1>3
      <3>4. history_ids' \in Seq(Tokens) /\ history_ids' = history_ids \o <<id>>
        BY <1>3, <3>1, <3>2, AppendProperties, AppendIsConcat
      <3>5. SessionTypeOK' /\ (past \in Seq(PastTokens))'
        BY <1>2, <1>3, <2>1, <3>1, <3>3, <3>4 DEF SessionInv, SessionTypeOK
      <3>6. ChatForgets' /\ AnswerIsCounted' /\ BudgetIsUsed'
        BY <1>2, <1>4, <2>1, <2>3, <3>1 DEF ChatForgets, AnswerIsCounted, BudgetIsUsed
      <3>7. /\ OneTalk' = OneTalk /\ past' = past /\ Carried' = Carried
            /\ Pending' = <<id>> /\ Pending = <<>> /\ InTurn
            /\ Len(history_ids) = all_seq_len /\ Len(past) \in Nat
        BY <1>2, <3>1, EmptySeq DEF OneTalk, Carried, Pending, InTurn, SessionInv, PastIsCounted,
                                    SessionTypeOK
      <3>8. PastIsCounted' /\ PastIsCausal'
        <4>1. PastIsCausal'
          BY <3>7 DEF SessionInv, PastIsCausal
        <4>2. Len(past) = prompt_len + Len(output)
          BY <1>2, <1>4, <3>7, EmptySeq DEF SessionInv, PastIsCounted
        <4>3. Len(history_ids') = all_seq_len + 1
          BY <1>3, <3>1, <3>2, <3>7, AppendProperties
        <4> QED BY <1>2, <1>4, <2>1, <3>1, <3>3, <3>7, <4>1, <4>2, <4>3 DEF SessionInv, PastIsCounted
      <3>9. HistoryIsPast'
        <4>1. /\ \A i \in 1..Len(history_ids) : history_ids'[i] = history_ids[i]
              /\ history_ids'[all_seq_len + 1] = id
          BY <1>3, <3>1, <3>2, <3>7, AppendProperties
        <4>2. \A i \in 1..Len(past) : Carried + i \in 1..Len(history_ids)
          BY <1>2, <3>7 DEF SessionInv, SessionTypeOK, PastIsCounted, Carried
        <4>3. \A i \in 1..Len(past) : history_ids'[Carried + i] = past[i].tok
          BY <3>7, <4>1, <4>2 DEF SessionInv, HistoryIsPast
        <4>4. \A i \in 1..Len(<<id>>) : history_ids'[all_seq_len + i] = <<id>>[i]
          BY <3>3, <4>1
        <4> QED BY <3>1, <3>7, <4>3, <4>4 DEF HistoryIsPast
      <3> QED BY <2>2, <3>5, <3>6, <3>8, <3>9 DEF SessionInv
    <2>4. CASE ~(prompt_len + gen_seq_len < MaxNew)
      <3>1. Finish /\ UNCHANGED input
        BY <1>6, <2>4 DEF DecodeStep
      <3>2. BudgetIsUsed'
        BY <1>2, <1>4, <2>1, <2>4 DEF BudgetIsUsed, Larger
      <3> QED BY <1>2, <1>3, <1>4, <2>1, <2>2, <3>1, <3>2, FinishInv
    <2> QED BY <2>3, <2>4
  <1> QED BY <1>2, <1>5, <1>6

LEMMA SessionNextInv == ASSUME SessionInv, [SessionNext]_sessionVars PROVE SessionInv'
  <1>1. CASE UNCHANGED sessionVars
    BY <1>1 DEF sessionVars, talk, SessionInv, SessionTypeOK, ChatForgets, AnswerIsCounted,
                PastIsCounted, HistoryIsPast, PastIsCausal, BudgetIsUsed, NoStopInside, OneTalk,
                InTurn, Pending, Carried
  <1>2. CASE SessionNext
    BY <1>2, RespondInv, ForwardInv, ThrowInv, SampleInv, ReloadInv DEF SessionNext
  <1> QED BY <1>1, <1>2

-----------------------------------------------------------------------------
\* Everything the invariant says holds in every state of the session.
THEOREM SessionInvHolds == SessionSpec => []SessionInv
  <1>1. SessionInit => SessionInv
    BY SessionInitInv
  <1>2. SessionInv /\ [SessionNext]_sessionVars => SessionInv'
    BY SessionNextInv
  <1> QED BY <1>1, <1>2, PTL DEF SessionSpec

\* History, counters, past, mask and positions tell one story in every turn
\* (generate_init and forward, llm.cpp).
THEOREM SessionAlwaysAgrees == SessionSpec => []SessionAgrees
  <1>1. SessionInv => SessionAgrees
    BY DEF SessionInv, SessionAgrees
  <1> QED BY <1>1, SessionInvHolds, PTL

\* The best id is picked, and the answer is as long as budget or stop say
\* (sample and generate, llm.cpp).
THEOREM AnswerIsAlwaysRight == SessionSpec => []AnswerIsRight
  <1>1. SessionInv => AnswerIsRight
    BY SamplerIsRight DEF SessionInv, AnswerIsRight
  <1> QED BY <1>1, SessionInvHolds, PTL

-----------------------------------------------------------------------------
(* Known, word by word.                                                       *)

Knowns(f, d, l) ==
  f = [j \in 0..l |-> IF j = 0 THEN <<>> ELSE IF d[j] \in DOMAIN TokenId THEN Append(f[j - 1], d[j]) ELSE f[j - 1]]

LEMMA KnownsExist == ASSUME NEW d PROVE \A l \in Nat : \E f : Knowns(f, d, l)
  <1> DEFINE T == {l \in Nat : \E f : Knowns(f, d, l)}
  <1>1. 0 \in T
    <2> DEFINE f == [j \in 0..0 |-> <<>>]
    <2>1. f = [j \in 0..0 |-> IF j = 0 THEN <<>> ELSE IF d[j] \in DOMAIN TokenId THEN Append(f[j - 1], d[j]) ELSE f[j - 1]]
      OBVIOUS
    <2> QED BY <2>1 DEF Knowns
  <1>2. ASSUME NEW l \in Nat, l \in T PROVE l + 1 \in T
    <2>1. PICK f : Knowns(f, d, l)
      BY <1>2
    <2>2. \A j \in 0..l : f[j] = IF j = 0 THEN <<>> ELSE IF d[j] \in DOMAIN TokenId THEN Append(f[j - 1], d[j]) ELSE f[j - 1]
      BY <2>1, Zenon DEF Knowns
    <2> DEFINE g == [j \in 0..(l + 1) |->
                       IF j \in 0..l THEN f[j] ELSE IF d[j] \in DOMAIN TokenId THEN Append(f[j - 1], d[j]) ELSE f[j - 1]]
    <2>3. ASSUME NEW j \in 0..(l + 1)
          PROVE  g[j] = IF j = 0 THEN <<>> ELSE IF d[j] \in DOMAIN TokenId THEN Append(g[j - 1], d[j]) ELSE g[j - 1]
      <3>1. CASE j = 0
        BY <2>2, <3>1
      <3>2. CASE j # 0
        <4>1. j - 1 \in 0..l /\ j - 1 \in 0..(l + 1)
          BY <3>2
        <4>2. g[j - 1] = f[j - 1]
          BY <4>1
        <4>3. g[j] = IF d[j] \in DOMAIN TokenId THEN Append(f[j - 1], d[j]) ELSE f[j - 1]
          BY <2>2, <3>2
        <4> QED BY <3>2, <4>2, <4>3
      <3> QED BY <3>1, <3>2
    <2>4. g = [j \in 0..(l + 1) |-> IF j = 0 THEN <<>> ELSE IF d[j] \in DOMAIN TokenId THEN Append(g[j - 1], d[j]) ELSE g[j - 1]]
      <3>1. g = [j \in 0..(l + 1) |-> g[j]]
        OBVIOUS
      <3> HIDE DEF g
      <3> QED BY <2>3, <3>1
    <2>5. Knowns(g, d, l + 1)
      <3> HIDE DEF g
      <3> QED BY <2>4, Zenon DEF Knowns
    <2> QED BY <2>5
  <1>3. Nat \subseteq T
    <2> HIDE DEF T
    <2> QED BY <1>1, <1>2, SetInduction
  <1> QED BY <1>3

LEMMA KnownFollows ==
  ASSUME NEW d, NEW z \in Nat, Len(d) = z
  PROVE  \E f : Known(d) = f[z] /\ Knowns(f, d, z)
  <1> DEFINE F == CHOOSE f : Knowns(f, d, z)
  <1>1. Known(d) = F[z]
    BY Zenon DEF Known, Knowns
  <1>2. Knowns(F, d, z)
    BY KnownsExist, Zenon
  <1> HIDE DEF F
  <1> QED BY <1>1, <1>2

LEMMA KnownType == ASSUME NEW d, NEW z \in Nat, Len(d) = z PROVE Known(d) \in Seq(DOMAIN TokenId)
  <1>1. PICK f : Known(d) = f[z] /\ Knowns(f, d, z)
    BY KnownFollows
  <1>2. \A j \in 0..z : f[j] = IF j = 0 THEN <<>> ELSE IF d[j] \in DOMAIN TokenId THEN Append(f[j - 1], d[j]) ELSE f[j - 1]
    BY <1>1, Zenon DEF Knowns
  <1> DEFINE T == {l \in Nat : l <= z => f[l] \in Seq(DOMAIN TokenId)}
  <1>3. 0 \in T
    <2>1. f[0] = <<>>
      BY <1>2
    <2> QED BY <2>1, EmptySeq
  <1>4. ASSUME NEW l \in Nat, l \in T PROVE l + 1 \in T
    <2> SUFFICES ASSUME l + 1 <= z PROVE f[l + 1] \in Seq(DOMAIN TokenId)
      OBVIOUS
    <2>1. l + 1 \in 0..z /\ l + 1 # 0 /\ (l + 1) - 1 = l /\ f[l] \in Seq(DOMAIN TokenId)
      BY <1>4
    <2>2. f[l + 1] = IF d[l + 1] \in DOMAIN TokenId THEN Append(f[l], d[l + 1]) ELSE f[l]
      BY <1>2, <2>1
    <2>3. d[l + 1] \in DOMAIN TokenId => Append(f[l], d[l + 1]) \in Seq(DOMAIN TokenId)
      BY <2>1, AppendProperties
    <2> QED BY <2>1, <2>2, <2>3
  <1>5. Nat \subseteq T
    <2> HIDE DEF T
    <2> QED BY <1>3, <1>4, SetInduction
  <1> QED BY <1>1, <1>5

LEMMA KnownOfOne == \A c : Known(<<c>>) = IF c \in DOMAIN TokenId THEN <<c>> ELSE <<>>
  <1> SUFFICES ASSUME NEW c PROVE Known(<<c>>) = IF c \in DOMAIN TokenId THEN <<c>> ELSE <<>>
    OBVIOUS
  <1> DEFINE d == <<c>>
  <1>1. Len(d) = 1 /\ d[1] = c
    OBVIOUS
  <1> HIDE DEF d
  <1>2. PICK f : Known(d) = f[1] /\ Knowns(f, d, 1)
    BY <1>1, KnownFollows
  <1>3. \A j \in 0..1 : f[j] = IF j = 0 THEN <<>> ELSE IF d[j] \in DOMAIN TokenId THEN Append(f[j - 1], d[j]) ELSE f[j - 1]
    BY <1>2, Zenon DEF Knowns
  <1>4. f[0] = <<>> /\ f[1] = IF d[1] \in DOMAIN TokenId THEN Append(f[0], d[1]) ELSE f[0]
    BY <1>3
  <1> QED BY <1>1, <1>2, <1>4 DEF d

LEMMA WordIdsType == ASSUME NEW w \in LexWords PROVE WordIds(w) \in Seq(Int) /\ w \in Seq(STRING) /\ Len(w) > 0
  <1>1. WordLines(w) # {} /\ WordLines(w) \subseteq Nat
    BY SynthAssumption, SMTT(40) DEF LexWords, WordLines
  <1> DEFINE k == CHOOSE k \in WordLines(w) : \A l \in WordLines(w) : k <= l
  <1>2. k \in WordLines(w)
    BY <1>1, LeastNat
  <1> HIDE DEF k
  <1>3. k \in DOMAIN Lexicon /\ Lexicon[k].word = w
    BY <1>2 DEF WordLines
  <1>4. Lexicon[k] \in [word : Seq(STRING) \ {<<>>}, syls : Seq(STRING)]
    <2> DEFINE E == [word : Seq(STRING) \ {<<>>}, syls : Seq(STRING)]
    <2>1. Lexicon \in Seq(E)
      BY SynthAssumption
    <2> HIDE DEF E
    <2>2. Lexicon[k] \in E
      BY <1>3, <2>1
    <2> QED BY <2>2 DEF E
  <1>5. Known(Lexicon[k].syls) \in Seq(DOMAIN TokenId)
    <2>1. Len(Lexicon[k].syls) \in Nat
      BY <1>4
    <2> QED BY <2>1, KnownType
  <1>6. WordIds(w) = [j \in DOMAIN Known(Lexicon[k].syls) |-> TokenId[Known(Lexicon[k].syls)[j]]]
    BY Zenon DEF WordIds, k
  <1>7. WordIds(w) \in Seq(Int)
    <2> DEFINE y == Known(Lexicon[k].syls)
    <2>1. Len(y) \in Nat /\ DOMAIN y = 1..Len(y) /\ \A j \in 1..Len(y) : TokenId[y[j]] \in Int
      BY <1>5, SynthAssumption
    <2> HIDE DEF y
    <2>2. WordIds(w) = [j \in 1..Len(y) |-> TokenId[y[j]]]
      BY <1>6, <2>1 DEF y
    <2> QED BY <2>1, <2>2
  <1>8. w \in Seq(STRING) /\ w # <<>>
    BY <1>3, <1>4
  <1> QED BY <1>7, <1>8

-----------------------------------------------------------------------------
(* Sum, duration by duration.                                                 *)

Sums(f, d, l) == f = [j \in 0..l |-> IF j = 0 THEN 0 ELSE f[j - 1] + d[j]]

LEMMA SumsExist == ASSUME NEW d PROVE \A l \in Nat : \E f : Sums(f, d, l)
  <1> DEFINE T == {l \in Nat : \E f : Sums(f, d, l)}
  <1>1. 0 \in T
    <2> DEFINE f == [j \in 0..0 |-> 0]
    <2>1. f = [j \in 0..0 |-> IF j = 0 THEN 0 ELSE f[j - 1] + d[j]]
      OBVIOUS
    <2> QED BY <2>1 DEF Sums
  <1>2. ASSUME NEW l \in Nat, l \in T PROVE l + 1 \in T
    <2>1. PICK f : Sums(f, d, l)
      BY <1>2
    <2>2. \A j \in 0..l : f[j] = IF j = 0 THEN 0 ELSE f[j - 1] + d[j]
      BY <2>1, Zenon DEF Sums
    <2> DEFINE g == [j \in 0..(l + 1) |->
                       IF j \in 0..l THEN f[j] ELSE f[j - 1] + d[j]]
    <2>3. ASSUME NEW j \in 0..(l + 1)
          PROVE  g[j] = IF j = 0 THEN 0 ELSE g[j - 1] + d[j]
      <3>1. CASE j = 0
        BY <2>2, <3>1
      <3>2. CASE j # 0
        <4>1. j - 1 \in 0..l /\ j - 1 \in 0..(l + 1)
          BY <3>2
        <4>2. g[j - 1] = f[j - 1]
          BY <4>1
        <4>3. g[j] = f[j - 1] + d[j]
          BY <2>2, <3>2
        <4> QED BY <3>2, <4>2, <4>3
      <3> QED BY <3>1, <3>2
    <2>4. g = [j \in 0..(l + 1) |-> IF j = 0 THEN 0 ELSE g[j - 1] + d[j]]
      <3>1. g = [j \in 0..(l + 1) |-> g[j]]
        OBVIOUS
      <3> HIDE DEF g
      <3> QED BY <2>3, <3>1
    <2>5. Sums(g, d, l + 1)
      <3> HIDE DEF g
      <3> QED BY <2>4, Zenon DEF Sums
    <2> QED BY <2>5
  <1>3. Nat \subseteq T
    <2> HIDE DEF T
    <2> QED BY <1>1, <1>2, SetInduction
  <1> QED BY <1>3

LEMMA SumsAgree ==
  ASSUME NEW d, NEW f, NEW g, NEW l \in Nat, NEW m \in Nat, Sums(f, d, l), Sums(g, d, m), l <= m
  PROVE  \A j \in 0..l : f[j] = g[j]
  <1> DEFINE T == {j \in Nat : j <= l => f[j] = g[j]}
  <1>0. /\ \A j \in 0..l : f[j] = IF j = 0 THEN 0 ELSE f[j - 1] + d[j]
        /\ \A j \in 0..m : g[j] = IF j = 0 THEN 0 ELSE g[j - 1] + d[j]
    BY Zenon DEF Sums
  <1>1. 0 \in T
    BY <1>0
  <1>2. ASSUME NEW j \in Nat, j \in T PROVE j + 1 \in T
    <2> SUFFICES ASSUME j + 1 <= l PROVE f[j + 1] = g[j + 1]
      OBVIOUS
    <2>1. j + 1 \in 0..l /\ j + 1 \in 0..m /\ j + 1 # 0 /\ (j + 1) - 1 = j /\ f[j] = g[j]
      BY <1>2
    <2>2. f[j + 1] = f[j] + d[j + 1] /\ g[j + 1] = g[j] + d[j + 1]
      BY <1>0, <2>1
    <2> QED BY <2>1, <2>2
  <1>3. Nat \subseteq T
    <2> HIDE DEF T
    <2> QED BY <1>1, <1>2, SetInduction
  <1> QED BY <1>3

LEMMA SumFollows ==
  ASSUME NEW d
  PROVE  Sum(d, 0) = 0 /\ \A l \in Nat : Sum(d, l + 1) = Sum(d, l) + d[l + 1]
  <1> DEFINE F(l) == CHOOSE f : Sums(f, d, l)
  <1>1. \A l \in Nat : Sums(F(l), d, l)
    BY SumsExist, Zenon
  <1>2. \A l : Sum(d, l) = F(l)[l]
    BY Zenon DEF Sum, Sums
  <1> HIDE DEF F
  <1>3. \A l \in Nat : \A j \in 0..l : F(l)[j] = IF j = 0 THEN 0 ELSE F(l)[j - 1] + d[j]
    BY <1>1, Zenon DEF Sums
  <1>4. Sum(d, 0) = 0
    BY <1>2, <1>3
  <1>5. ASSUME NEW l \in Nat PROVE Sum(d, l + 1) = Sum(d, l) + d[l + 1]
    <2> DEFINE f == F(l)
               g == F(l + 1)
    <2>1. Sums(f, d, l) /\ Sums(g, d, l + 1)
      BY <1>1
    <2>2. Sum(d, l + 1) = g[l + 1] /\ Sum(d, l) = f[l] /\ g[l + 1] = g[(l + 1) - 1] + d[l + 1]
      BY <1>2, <1>3
    <2> HIDE DEF f, g
    <2>3. f[l] = g[l]
      BY <2>1, SumsAgree
    <2>4. (l + 1) - 1 = l
      OBVIOUS
    <2> QED BY <2>2, <2>3, <2>4
  <1> QED BY <1>4, <1>5

-----------------------------------------------------------------------------
(* A line, read from left to right.                                           *)

Chars == Seq(STRING)

LEMMA WordEndFacts ==
  ASSUME NEW t \in Chars, NEW p \in 1..Len(t)
  PROVE  /\ WordEnd(t, p) \in (p - 1)..Len(t)
         /\ WordEnd(t, p) >= p => SubSeq(t, p, WordEnd(t, p)) \in LexWords
         /\ \A q \in p..Len(t) : SubSeq(t, p, q) \in LexWords => q <= WordEnd(t, p)
  <1> DEFINE ends == {q \in p..Len(t) : SubSeq(t, p, q) \in LexWords}
  <1>0. Len(t) \in Nat
    BY DEF Chars
  <1>1. CASE ends = {}
    <2>1. WordEnd(t, p) = p - 1
      BY <1>1 DEF WordEnd
    <2> QED BY <1>0, <1>1, <2>1
  <1>2. CASE ends # {}
    <2>1. ends \subseteq 0..Len(t)
      BY <1>0
    <2>2. \E q \in ends : \A r \in ends : r <= q
      <3> HIDE DEF ends
      <3> QED BY <1>0, <1>2, <2>1, GreatestNat
    <2>3. WordEnd(t, p) = CHOOSE q \in ends : \A r \in ends : r <= q
      BY <1>2 DEF WordEnd
    <2>4. WordEnd(t, p) \in ends /\ \A r \in ends : r <= WordEnd(t, p)
      BY <2>2, <2>3, Zenon
    <2> QED BY <1>0, <2>4
  <1> QED BY <1>1, <1>2

NextAt(t, p) == IF WordEnd(t, p) >= p THEN WordEnd(t, p) + 1 ELSE p + 1

LEMMA TokensAtType ==
  ASSUME NEW t \in Chars, NEW p \in 1..Len(t)
  PROVE  TokensAt(t, p) \in Seq(Int) /\ NextAt(t, p) \in (p + 1)..(Len(t) + 1)
  <1>0. Len(t) \in Nat
    BY DEF Chars
  <1>1. NextAt(t, p) \in (p + 1)..(Len(t) + 1)
    BY <1>0, WordEndFacts DEF NextAt
  <1>2. CASE WordEnd(t, p) >= p
    <2>1. TokensAt(t, p) = WordIds(SubSeq(t, p, WordEnd(t, p)))
      BY <1>2 DEF TokensAt
    <2>2. SubSeq(t, p, WordEnd(t, p)) \in LexWords
      BY <1>2, WordEndFacts
    <2> QED BY <1>1, <2>1, <2>2, WordIdsType
  <1>3. CASE ~(WordEnd(t, p) >= p)
    <2>1. \A x \in DOMAIN TokenId : <<TokenId[x]>> \in Seq(Int)
      BY SynthAssumption
    <2>2. <<>> \in Seq(Int)
      OBVIOUS
    <2>3. TokensAt(t, p) = IF t[p] \in DOMAIN Puncts /\ Puncts[t[p]] \in DOMAIN TokenId
                           THEN <<TokenId[Puncts[t[p]]]>> ELSE <<>>
      BY <1>3, Zenon DEF TokensAt
    <2> QED BY <1>1, <2>1, <2>2, <2>3, Zenon
  <1> QED BY <1>2, <1>3

ReadFrom(f, t) ==
  f = [p \in 1..(Len(t) + 1) |->
         IF p > Len(t) THEN <<>>
         ELSE TokensAt(t, p) \o f[IF WordEnd(t, p) >= p THEN WordEnd(t, p) + 1 ELSE p + 1]]

\* What is to be said from each place on.
SaidFrom(t) == CHOOSE f : ReadFrom(f, t)

LEMMA SaidFromFollows ==
  ASSUME NEW t \in Chars
  PROVE  /\ ReadFrom(SaidFrom(t), t)
         /\ SaidFrom(t)[Len(t) + 1] = <<>>
         /\ \A p \in 1..Len(t) : SaidFrom(t)[p] = TokensAt(t, p) \o SaidFrom(t)[NextAt(t, p)]
  <1> DEFINE val == [p \in 1..Len(t) |-> TokensAt(t, p)]
             next == [p \in 1..Len(t) |-> NextAt(t, p)]
             l == Len(t)
  <1>0. l \in Nat
    BY DEF Chars
  <1>1. \A p \in 1..l : next[p] \in (p + 1)..(l + 1)
    BY TokensAtType
  <1>2. \A p \in 1..l : val[p] = TokensAt(t, p) /\ next[p] = NextAt(t, p)
    OBVIOUS
  <1> HIDE DEF val, next
  <1>3. PICK f : FromPlace(f, val, next, l, 1)
    BY <1>0, <1>1, DownRecursion
  <1>4. f = [p \in 1..(l + 1) |-> IF p > l THEN <<>> ELSE val[p] \o f[next[p]]]
    BY <1>3, Zenon DEF FromPlace
  <1>5. \A p \in 1..(l + 1) : p > l \/ p \in 1..l
    BY <1>0
  <1>6. ReadFrom(f, t)
    <2>1. \A p \in 1..(l + 1) :
            (IF p > l THEN <<>> ELSE val[p] \o f[next[p]])
              = IF p > l THEN <<>>
                ELSE TokensAt(t, p) \o f[IF WordEnd(t, p) >= p THEN WordEnd(t, p) + 1 ELSE p + 1]
      BY <1>2, <1>5, Zenon DEF NextAt
    <2>2. f = [p \in 1..(l + 1) |->
                 IF p > l THEN <<>>
                 ELSE TokensAt(t, p) \o f[IF WordEnd(t, p) >= p THEN WordEnd(t, p) + 1 ELSE p + 1]]
      BY <1>4, <2>1, Zenon
    <2> QED BY <2>2, Zenon DEF ReadFrom, l
  <1> DEFINE g == SaidFrom(t)
  <1>7. ReadFrom(g, t)
    BY <1>6, Zenon DEF SaidFrom
  <1> HIDE DEF g
  <1>8. \A p \in 1..(l + 1) :
          g[p] = IF p > l THEN <<>>
                 ELSE TokensAt(t, p) \o g[IF WordEnd(t, p) >= p THEN WordEnd(t, p) + 1 ELSE p + 1]
    BY <1>7, Zenon DEF ReadFrom, l
  <1> HIDE DEF l
  <1>9. g[l + 1] = <<>>
    <2>1. l + 1 \in 1..(l + 1) /\ l + 1 > l
      BY <1>0
    <2> QED BY <1>8, <2>1, Zenon
  <1>10. ASSUME NEW p \in 1..l PROVE g[p] = TokensAt(t, p) \o g[NextAt(t, p)]
    <2>1. p \in 1..(l + 1) /\ ~(p > l)
      BY <1>0
    <2> QED BY <1>8, <2>1, Zenon DEF NextAt
  <1> QED BY <1>7, <1>9, <1>10 DEF g, l

LEMMA SaidFromType ==
  ASSUME NEW t \in Chars
  PROVE  \A p \in 1..(Len(t) + 1) : SaidFrom(t)[p] \in Seq(Int)
  <1> DEFINE f == SaidFrom(t)
             T == {p \in 1..(Len(t) + 1) : f[p] \in Seq(Int)}
  <1>0. Len(t) \in Nat
    BY DEF Chars
  <1> HIDE DEF f
  <1>1. ASSUME NEW p \in 1..(Len(t) + 1), \A q \in (p + 1)..(Len(t) + 1) : q \in T PROVE p \in T
    <2>1. CASE p > Len(t)
      <3>1. p = Len(t) + 1
        BY <1>0, <2>1
      <3>2. f[p] = <<>>
        BY <3>1, SaidFromFollows DEF f
      <3>3. f[p] \in Seq(Int)
        BY <3>2, EmptySeq
      <3> QED BY <3>3
    <2>2. CASE ~(p > Len(t))
      <3>1. p \in 1..Len(t)
        BY <1>0, <2>2
      <3>2. TokensAt(t, p) \in Seq(Int) /\ NextAt(t, p) \in (p + 1)..(Len(t) + 1)
        BY <3>1, TokensAtType
      <3>3. f[NextAt(t, p)] \in Seq(Int)
        BY <1>1, <3>2
      <3>4. f[p] = TokensAt(t, p) \o f[NextAt(t, p)]
        BY <3>1, SaidFromFollows DEF f
      <3>5. f[p] \in Seq(Int)
        BY <3>2, <3>3, <3>4, ConcatProperties
      <3> QED BY <3>5
    <2> QED BY <2>1, <2>2
  <1>2. 1..(Len(t) + 1) \subseteq T
    <2> HIDE DEF T
    <2> QED BY <1>0, <1>1, DownInduction
  <1> QED BY <1>2 DEF f

Fits(t, p) == {w \in LexWords : IsPrefix(w, SubSeq(t, p, Len(t)))}
Longest(t, p) == CHOOSE w \in Fits(t, p) : \A v \in Fits(t, p) : Len(v) <= Len(w)

\* The longest word that fits at a place is the one that ends at WordEnd.
LEMMA LongestFits ==
  ASSUME NEW t \in Chars, NEW p \in 1..Len(t)
  PROVE  /\ Fits(t, p) # {} <=> WordEnd(t, p) >= p
         /\ Fits(t, p) # {} => /\ Longest(t, p) = SubSeq(t, p, WordEnd(t, p))
                               /\ Longest(t, p) \in LexWords
                               /\ Len(Longest(t, p)) = WordEnd(t, p) + 1 - p
  <1> DEFINE z == Len(t)
             fits == Fits(t, p)
             longest == Longest(t, p)
             at == SubSeq(t, p, Len(t))
             e == WordEnd(t, p)
  <1>0. z \in Nat /\ p \in Nat /\ p <= z /\ p >= 1 /\ t \in Seq(STRING)
    BY DEF Chars
  <1>1. at \in Seq(STRING) /\ Len(at) = z - p + 1
    BY <1>0
  <1>2. e \in (p - 1)..z /\ (e >= p => SubSeq(t, p, e) \in LexWords)
        /\ \A q \in p..z : SubSeq(t, p, q) \in LexWords => q <= e
    BY WordEndFacts
  <1>3. \A n \in 1..(z - p + 1) : SubSeq(at, 1, n) = SubSeq(t, p, p + n - 1)
    <2> TAKE n \in 1..(z - p + 1)
    <2>1. SubSeq(SubSeq(t, p, z), 1, n) = SubSeq(t, p + 1 - 1, p + n - 1)
      BY <1>0, SubSeqOfSubSeq, 1 \in 1..(z - p + 1), p \in 1..Len(t), z \in 1..Len(t)
    <2>2. p + 1 - 1 = p
      BY <1>0
    <2> QED BY <2>1, <2>2
  <1> HIDE DEF e, at, z
  <1>4. ASSUME NEW w \in LexWords
        PROVE  /\ Len(w) \in Nat \ {0}
               /\ IsPrefix(w, at) <=> Len(w) <= z - p + 1 /\ w = SubSeq(t, p, p + Len(w) - 1)
    <2>1. w \in Seq(STRING) /\ Len(w) > 0
      BY WordIdsType
    <2>2. SubSeq(w, 1, Len(w)) = w
      BY <2>1, SubSeqFull
    <2>3. Len(w) \in Nat \ {0}
      BY <2>1
    <2>4. IsPrefix(w, at) <=> Len(w) <= z - p + 1 /\ w = SubSeq(at, 1, Len(w))
      BY <1>1, <2>2 DEF IsPrefix
    <2>5. Len(w) <= z - p + 1 => SubSeq(at, 1, Len(w)) = SubSeq(t, p, p + Len(w) - 1)
      <3> SUFFICES ASSUME Len(w) <= z - p + 1 PROVE SubSeq(at, 1, Len(w)) = SubSeq(t, p, p + Len(w) - 1)
        OBVIOUS
      <3>1. Len(w) \in 1..(z - p + 1)
        BY <2>3, <1>0
      <3> QED BY <1>3, <3>1, Zenon
    <2> QED BY <2>3, <2>4, <2>5
  <1>5. /\ fits = {w \in LexWords : IsPrefix(w, at)}
        /\ longest = CHOOSE w \in fits : \A v \in fits : Len(v) <= Len(w)
    BY DEF at, Fits, Longest
  <1> HIDE DEF fits, longest
  <1>6. ASSUME NEW w \in fits PROVE p + Len(w) - 1 <= e /\ w = SubSeq(t, p, p + Len(w) - 1) /\ Len(w) \in Nat \ {0} /\ w \in LexWords
    <2>1. w \in LexWords /\ Len(w) \in Nat \ {0} /\ Len(w) <= z - p + 1 /\ w = SubSeq(t, p, p + Len(w) - 1)
      BY <1>4, <1>5
    <2>2. p + Len(w) - 1 \in p..z
      BY <2>1, <1>0
    <2>3. SubSeq(t, p, p + Len(w) - 1) \in LexWords
      BY <2>1
    <2> QED BY <1>2, <2>1, <2>2, <2>3
  <1>7. ASSUME e >= p PROVE SubSeq(t, p, e) \in fits /\ Len(SubSeq(t, p, e)) = e + 1 - p
    <2> DEFINE w == SubSeq(t, p, e)
    <2>1. w \in LexWords
      BY <1>2, <1>7
    <2>2. Len(w) = e + 1 - p
      BY <1>0, <1>2, <1>7 DEF z
    <2> HIDE DEF w
    <2>3. Len(w) <= z - p + 1 /\ p + Len(w) - 1 = e
      BY <1>0, <1>2, <2>2
    <2>4. w = SubSeq(t, p, p + Len(w) - 1)
      BY <2>3 DEF w
    <2> QED BY <1>4, <1>5, <2>1, <2>2, <2>3, <2>4 DEF w
  <1>8. fits # {} <=> e >= p
    <2>1. ASSUME NEW w \in fits PROVE e >= p
      BY <1>6, <1>2, <1>0
    <2> QED BY <2>1, <1>7
  <1>9. ASSUME fits # {} PROVE longest = SubSeq(t, p, e)
    <2>1. e >= p
      BY <1>8, <1>9
    <2>2. SubSeq(t, p, e) \in fits /\ \A v \in fits : Len(v) <= Len(SubSeq(t, p, e))
      <3>1. \A v \in fits : Len(v) <= e + 1 - p
        BY <1>6, <1>0, <1>2
      <3> QED BY <1>7, <2>1, <3>1
    <2>3. longest \in fits /\ \A v \in fits : Len(v) <= Len(longest)
      BY <1>5, <2>2, Zenon
    <2>4. Len(longest) = e + 1 - p
      <3>1. Len(longest) \in Nat /\ p + Len(longest) - 1 <= e
        BY <1>6, <2>3
      <3>2. Len(SubSeq(t, p, e)) <= Len(longest)
        BY <2>2, <2>3
      <3> QED BY <1>0, <1>2, <1>7, <2>1, <3>1, <3>2
    <2>5. longest = SubSeq(t, p, p + Len(longest) - 1)
      BY <1>6, <2>3
    <2>6. p + Len(longest) - 1 = e
      BY <2>4, <1>0, <1>2
    <2> QED BY <2>5, <2>6
  <1> QED BY <1>2, <1>7, <1>8, <1>9 DEF e, fits, longest

-----------------------------------------------------------------------------
(* The rounds.                                                                *)

Texts == Seq(Int) \ {<<>>}

\* The rounds so far say what the line says up to where they are.
Following(t, st) ==
  /\ DOMAIN st = {"i", "cur", "sents"}
  /\ st.i \in 1..(Len(t) + 1) /\ st.cur \in Seq(Int) /\ st.sents \in Seq(Texts)
  /\ (FlattenSeq(st.sents) \o st.cur) \o SaidFrom(t)[st.i] = SaidFrom(t)[1]

LEMMA AdvanceFollows ==
  ASSUME NEW t \in Chars, NEW st, Following(t, st), st.i <= Len(t)
  PROVE  Following(t, Advance(t, st)) /\ Advance(t, st).i > st.i
  <1> DEFINE p == st.i
             at == SubSeq(t, p, Len(t))
             fits == {w \in LexWords : IsPrefix(w, at)}
             longest == CHOOSE w \in fits : \A v \in fits : Len(v) <= Len(w)
             mark == IF t[p] \in DOMAIN Puncts THEN Known(<<Puncts[t[p]]>>) ELSE <<>>
             c == st.cur
             cur == c \o [j \in DOMAIN mark |-> TokenId[mark[j]]]
             hard == t[p] # "comma" \/ split
             e == WordEnd(t, p)
             to == Advance(t, st)
             s == SaidFrom(t)
             f == FlattenSeq(st.sents)
  <1>0. /\ Len(t) \in Nat /\ p \in 1..Len(t) /\ c \in Seq(Int) /\ st.sents \in Seq(Texts)
        /\ (f \o c) \o s[p] = s[1]
        /\ e \in (p - 1)..Len(t)
    BY WordEndFacts DEF Following, Chars
  <1>1. to = IF fits # {}
             THEN [st EXCEPT !.i = @ + Len(longest), !.cur = @ \o WordIds(longest)]
             ELSE IF t[p] \notin DOMAIN Puncts THEN [st EXCEPT !.i = @ + 1]
             ELSE IF cur # <<>> /\ hard
             THEN [i |-> p + 1, cur |-> <<>>, sents |-> Append(st.sents, cur)]
             ELSE [st EXCEPT !.i = @ + 1, !.cur = cur]
    BY Zenon DEF Advance
  <1>2. /\ fits # {} <=> e >= p
        /\ fits # {} => /\ longest = SubSeq(t, p, e) /\ longest \in LexWords
                        /\ Len(longest) = e + 1 - p
    <2>1. fits = Fits(t, p) /\ longest = Longest(t, p)
      BY Zenon DEF Fits, Longest
    <2>2. p \in 1..Len(t)
      BY <1>0
    <2> HIDE DEF p, fits, longest
    <2> QED BY <2>1, <2>2, LongestFits DEF e
  <1>3. f \in Seq(Int)
    <2>1. st.sents \in Seq(Seq(Int))
      BY <1>0 DEF Texts
    <2> QED BY <2>1, FlattenType
  <1>4. \A q \in 1..(Len(t) + 1) : s[q] \in Seq(Int)
    BY SaidFromType
  <1>p. p \in Nat /\ Len(t) \in Nat /\ p <= Len(t) /\ p + 1 \in 1..(Len(t) + 1)
    BY <1>0
  <1>5. s[p] = TokensAt(t, p) \o s[NextAt(t, p)] /\ TokensAt(t, p) \in Seq(Int)
        /\ NextAt(t, p) \in (p + 1)..(Len(t) + 1)
    BY <1>0, SaidFromFollows, TokensAtType
  <1>6. DOMAIN st = {"i", "cur", "sents"}
    BY DEF Following
  <1> HIDE DEF fits, longest, e, s, f, to
  <1> SUFFICES Following(t, to) /\ to.i > p
    BY DEF to
  <1>7. CASE fits # {}
    <2>1. e >= p /\ longest = SubSeq(t, p, e) /\ longest \in LexWords /\ Len(longest) = e + 1 - p
      BY <1>2, <1>7
    <2>2. to = [st EXCEPT !.i = @ + Len(longest), !.cur = @ \o WordIds(longest)]
      BY <1>1, <1>7
    <2>3. TokensAt(t, p) = WordIds(longest)
      BY <2>1 DEF TokensAt, e
    <2>4. NextAt(t, p) = e + 1
      BY <2>1 DEF NextAt, e
    <2>5. p + Len(longest) = e + 1
      BY <1>0, <2>1
    <2>6. to.i = e + 1 /\ to.cur = c \o TokensAt(t, p) /\ to.sents = st.sents /\ DOMAIN to = {"i", "cur", "sents"}
      BY <1>6, <2>2, <2>3, <2>5
    <2>7. e + 1 \in 1..(Len(t) + 1) /\ e + 1 > p
      BY <1>0, <2>1
    <2>8. to.cur \in Seq(Int) /\ (FlattenSeq(to.sents) \o to.cur) \o s[to.i] = s[1]
      <3> DEFINE a == TokensAt(t, p)
                 b == s[NextAt(t, p)]
      <3>1. s[p] = a \o b /\ a \in Seq(Int) /\ b \in Seq(Int)
        <4>1. NextAt(t, p) \in 1..(Len(t) + 1)
          BY <1>p, <1>5
        <4> QED BY <1>4, <1>5, <4>1, Zenon
      <3>2. FlattenSeq(to.sents) = f /\ to.cur = c \o a /\ s[to.i] = b
        BY <2>4, <2>6 DEF f
      <3>3. c \in Seq(Int) /\ (f \o c) \o s[p] = s[1]
        BY <1>0
      <3> HIDE DEF a, b, c, p
      <3>4. (f \o c) \o (a \o b) = (f \o (c \o a)) \o b /\ c \o a \in Seq(Int) /\ f \o (c \o a) \in Seq(Int)
        <4>1. f \in Seq(Int) /\ c \in Seq(Int) /\ a \in Seq(Int) /\ b \in Seq(Int)
          BY <1>3, <3>1, <3>3
        <4>2. \A k, l, m, n \in Seq(Int) :
                (k \o l) \o (m \o n) = (k \o (l \o m)) \o n /\ l \o m \in Seq(Int) /\ k \o (l \o m) \in Seq(Int)
          BY SMTT(60)
        <4> QED BY <4>1, <4>2, Zenon
      <3> QED BY <3>1, <3>2, <3>3, <3>4
    <2> QED BY <1>0, <2>6, <2>7, <2>8 DEF Following, s
  <1>8. CASE fits = {} /\ t[p] \notin DOMAIN Puncts
    <2>1. to = [st EXCEPT !.i = @ + 1]
      BY <1>1, <1>8
    <2>2. to.i = p + 1 /\ to.cur = c /\ to.sents = st.sents /\ DOMAIN to = {"i", "cur", "sents"}
      BY <1>6, <2>1
    <2>3. TokensAt(t, p) = <<>> /\ NextAt(t, p) = p + 1
      BY <1>2, <1>8 DEF TokensAt, NextAt, e
    <2>4. s[p] = s[p + 1]
      <3>1. s[p + 1] \in Seq(Int)
        BY <1>4, <1>p
      <3>2. s[p] = <<>> \o s[p + 1]
        BY <1>5, <2>3
      <3> HIDE DEF p
      <3> QED BY <3>1, <3>2, ConcatEmptySeq
    <2>5. (FlattenSeq(to.sents) \o to.cur) \o s[to.i] = s[1]
      BY <1>0, <2>2, <2>4 DEF f
    <2>6. p + 1 \in 1..(Len(t) + 1) /\ p + 1 > p
      BY <1>0
    <2> QED BY <1>0, <2>2, <2>5, <2>6 DEF Following, s
  <1>9. CASE fits = {} /\ t[p] \in DOMAIN Puncts
    <2> DEFINE a == TokensAt(t, p)
               b == s[p + 1]
    <2>1. NextAt(t, p) = p + 1 /\ ~(e >= p)
      BY <1>2, <1>9 DEF NextAt, e
    <2>2. cur = c \o a
      <3> DEFINE y == Puncts[t[p]]
      <3>1. a = IF y \in DOMAIN TokenId THEN <<TokenId[y]>> ELSE <<>>
        BY <1>9, <2>1, Zenon DEF TokensAt, e
      <3>2. mark = IF y \in DOMAIN TokenId THEN <<y>> ELSE <<>>
        BY <1>9, KnownOfOne, Zenon
      <3> HIDE DEF mark, a, y
      <3>3. [j \in DOMAIN mark |-> TokenId[mark[j]]] = a
        BY <3>1, <3>2
      <3> QED BY <3>3
    <2>3. s[p] = a \o b /\ a \in Seq(Int) /\ b \in Seq(Int)
      BY <1>4, <1>5, <1>p, <2>1
    <2>4. c \in Seq(Int) /\ (f \o c) \o s[p] = s[1] /\ st.sents \in Seq(Texts)
      BY <1>0
    <2>5. p + 1 \in 1..(Len(t) + 1) /\ p + 1 > p
      BY <1>0
    <2>6. cur \in Seq(Int) /\ f \o cur \in Seq(Int) /\ (f \o cur) \o b = s[1]
      <3> HIDE DEF cur, a, b, c, p
      <3>1. (f \o c) \o (a \o b) = (f \o (c \o a)) \o b /\ c \o a \in Seq(Int)
            /\ f \o (c \o a) \in Seq(Int)
        <4>1. f \in Seq(Int) /\ c \in Seq(Int) /\ a \in Seq(Int) /\ b \in Seq(Int)
          BY <1>3, <2>3, <2>4
        <4>2. \A k, l, m, n \in Seq(Int) :
                (k \o l) \o (m \o n) = (k \o (l \o m)) \o n /\ l \o m \in Seq(Int) /\ k \o (l \o m) \in Seq(Int)
          BY SMTT(60)
        <4> QED BY <4>1, <4>2, Zenon
      <3> QED BY <2>2, <2>3, <2>4, <3>1
    <2>7. CASE cur # <<>> /\ hard
      <3>1. to = [i |-> p + 1, cur |-> <<>>, sents |-> Append(st.sents, cur)]
        BY <1>1, <1>9, <2>7, Zenon
      <3>2. to.i = p + 1 /\ to.cur = <<>> /\ to.sents = Append(st.sents, cur) /\ DOMAIN to = {"i", "cur", "sents"}
        BY <3>1
      <3>3. cur \in Texts
        BY <2>6, <2>7 DEF Texts
      <3> HIDE DEF cur, a, b, p
      <3>4. to.sents \in Seq(Texts)
        BY <2>4, <3>2, <3>3, AppendProperties
      <3>5. FlattenSeq(to.sents) = f \o cur
        <4>1. st.sents \in Seq(Seq(Int))
          BY <2>4 DEF Texts
        <4> QED BY <2>6, <3>2, <4>1, FlattenOfMore DEF f
      <3>6. (FlattenSeq(to.sents) \o to.cur) \o s[to.i] = s[1]
        <4>1. (f \o cur) \o <<>> = f \o cur
          BY <2>6, ConcatEmptySeq
        <4> QED BY <2>6, <3>2, <3>5, <4>1 DEF b
      <3>7. to.cur \in Seq(Int)
        BY <3>2, EmptySeq
      <3> QED BY <2>5, <3>2, <3>4, <3>6, <3>7 DEF Following, s, p
    <2>8. CASE ~(cur # <<>> /\ hard)
      <3>1. to = [st EXCEPT !.i = @ + 1, !.cur = cur]
        BY <1>1, <1>9, <2>8, Zenon
      <3> HIDE DEF cur, a
      <3>2. to.i = p + 1 /\ to.cur = cur /\ to.sents = st.sents /\ DOMAIN to = {"i", "cur", "sents"}
        BY <1>6, <3>1
      <3>3. (FlattenSeq(to.sents) \o to.cur) \o s[to.i] = s[1]
        BY <2>6, <3>2 DEF f, b
      <3> HIDE DEF p
      <3> QED BY <2>4, <2>5, <2>6, <3>2, <3>3 DEF Following, s, p
    <2> QED BY <2>7, <2>8
  <1> QED BY <1>7, <1>8, <1>9

Rounds(f, t, l) ==
  f = [j \in 0..l |-> IF j = 0 THEN [i |-> 1, cur |-> <<>>, sents |-> <<>>] ELSE IF f[j - 1].i > Len(t) THEN f[j - 1] ELSE Advance(t, f[j - 1])]

LEMMA RoundsExist == ASSUME NEW t PROVE \A l \in Nat : \E f : Rounds(f, t, l)
  <1> DEFINE T == {l \in Nat : \E f : Rounds(f, t, l)}
  <1>1. 0 \in T
    <2> DEFINE f == [j \in 0..0 |-> [i |-> 1, cur |-> <<>>, sents |-> <<>>]]
    <2>1. f = [j \in 0..0 |-> IF j = 0 THEN [i |-> 1, cur |-> <<>>, sents |-> <<>>] ELSE IF f[j - 1].i > Len(t) THEN f[j - 1] ELSE Advance(t, f[j - 1])]
      OBVIOUS
    <2> QED BY <2>1 DEF Rounds
  <1>2. ASSUME NEW l \in Nat, l \in T PROVE l + 1 \in T
    <2>1. PICK f : Rounds(f, t, l)
      BY <1>2
    <2>2. \A j \in 0..l : f[j] = IF j = 0 THEN [i |-> 1, cur |-> <<>>, sents |-> <<>>] ELSE IF f[j - 1].i > Len(t) THEN f[j - 1] ELSE Advance(t, f[j - 1])
      BY <2>1, Zenon DEF Rounds
    <2> DEFINE g == [j \in 0..(l + 1) |->
                       IF j \in 0..l THEN f[j] ELSE IF f[j - 1].i > Len(t) THEN f[j - 1] ELSE Advance(t, f[j - 1])]
    <2>3. ASSUME NEW j \in 0..(l + 1)
          PROVE  g[j] = IF j = 0 THEN [i |-> 1, cur |-> <<>>, sents |-> <<>>] ELSE IF g[j - 1].i > Len(t) THEN g[j - 1] ELSE Advance(t, g[j - 1])
      <3>1. CASE j = 0
        BY <2>2, <3>1
      <3>2. CASE j # 0
        <4>1. j - 1 \in 0..l /\ j - 1 \in 0..(l + 1)
          BY <3>2
        <4>2. g[j - 1] = f[j - 1]
          BY <4>1
        <4>3. g[j] = IF f[j - 1].i > Len(t) THEN f[j - 1] ELSE Advance(t, f[j - 1])
          BY <2>2, <3>2
        <4> QED BY <3>2, <4>2, <4>3
      <3> QED BY <3>1, <3>2
    <2>4. g = [j \in 0..(l + 1) |-> IF j = 0 THEN [i |-> 1, cur |-> <<>>, sents |-> <<>>] ELSE IF g[j - 1].i > Len(t) THEN g[j - 1] ELSE Advance(t, g[j - 1])]
      <3>1. g = [j \in 0..(l + 1) |-> g[j]]
        OBVIOUS
      <3> HIDE DEF g
      <3> QED BY <2>3, <3>1
    <2>5. Rounds(g, t, l + 1)
      <3> HIDE DEF g
      <3> QED BY <2>4, Zenon DEF Rounds
    <2> QED BY <2>5
  <1>3. Nat \subseteq T
    <2> HIDE DEF T
    <2> QED BY <1>1, <1>2, SetInduction
  <1> QED BY <1>3


LEMMA SegmentedFollows ==
  ASSUME NEW t \in Chars
  PROVE  Segmented(t) \in Seq(Texts) /\ FlattenSeq(Segmented(t)) = SaidFrom(t)[1]
  <1> DEFINE z == Len(t)
             F == CHOOSE f : Rounds(f, t, z)
             s == SaidFrom(t)
  <1>0. z \in Nat
    BY DEF Chars
  <1>1. Segmented(t) = IF F[z].cur = <<>> THEN F[z].sents ELSE Append(F[z].sents, F[z].cur)
    BY Zenon DEF Segmented, Rounds
  <1>2. Rounds(F, t, z)
    BY <1>0, RoundsExist, Zenon
  <1> HIDE DEF F
  <1>3. \A j \in 0..z : F[j] = IF j = 0 THEN [i |-> 1, cur |-> <<>>, sents |-> <<>>]
                              ELSE IF F[j - 1].i > z THEN F[j - 1] ELSE Advance(t, F[j - 1])
    BY <1>2, Zenon DEF Rounds
  <1> HIDE DEF z
  <1>4. s[z + 1] = <<>> /\ s[1] \in Seq(Int)
    <2>1. 1 \in 1..(z + 1)
      BY <1>0
    <2> QED BY <2>1, SaidFromFollows, SaidFromType DEF z
  <1> HIDE DEF s
  <1> DEFINE T == {j \in Nat : j <= z => Following(t, F[j]) /\ F[j].i > j}
  <1>5. 0 \in T
    <2>1. F[0] = [i |-> 1, cur |-> <<>>, sents |-> <<>>]
      BY <1>0, <1>3
    <2>2. F[0].i = 1 /\ F[0].cur = <<>> /\ F[0].sents = <<>> /\ DOMAIN F[0] = {"i", "cur", "sents"}
      BY <2>1
    <2>3. FlattenSeq(<<>>) = <<>>
      BY DEF FlattenSeq
    <2>4. (FlattenSeq(F[0].sents) \o F[0].cur) \o s[F[0].i] = s[1]
      <3>1. (<<>> \o <<>>) \o s[1] = s[1]
        <4>1. <<>> \o <<>> = <<>>
          OBVIOUS
        <4>2. <<>> \o s[1] = s[1]
          BY <1>4, ConcatEmptySeq
        <4> QED BY <4>1, <4>2, Zenon
      <3> QED BY <2>2, <2>3, <3>1, Zenon
    <2>5. F[0].cur \in Seq(Int) /\ F[0].sents \in Seq(Texts)
      BY <2>2, EmptySeq
    <2>6. F[0].i \in 1..(z + 1) /\ F[0].i > 0
      BY <1>0, <2>2
    <2> QED BY <2>2, <2>4, <2>5, <2>6 DEF Following, s, z
  <1>6. ASSUME NEW j \in Nat, j \in T PROVE j + 1 \in T
    <2> SUFFICES ASSUME j + 1 <= z PROVE Following(t, F[j + 1]) /\ F[j + 1].i > j + 1
      OBVIOUS
    <2>1. j + 1 \in 0..z /\ j + 1 # 0 /\ (j + 1) - 1 = j /\ j <= z
      BY <1>0
    <2>2. Following(t, F[j]) /\ F[j].i > j
      BY <1>6, <2>1
    <2>3. F[j + 1] = IF F[j].i > z THEN F[j] ELSE Advance(t, F[j])
      BY <1>3, <2>1
    <2>4. F[j].i \in 1..(z + 1)
      BY <2>2 DEF Following, z
    <2>5. CASE F[j].i > z
      <3>1. F[j].i > j + 1
        BY <1>0, <2>1, <2>4, <2>5
      <3> QED BY <2>2, <2>3, <2>5, <3>1
    <2>6. CASE ~(F[j].i > z)
      <3>1. F[j].i <= Len(t)
        BY <1>0, <2>4, <2>6 DEF z
      <3>2. Following(t, Advance(t, F[j])) /\ Advance(t, F[j]).i > F[j].i
        BY <2>2, <3>1, AdvanceFollows
      <3>3. Advance(t, F[j]).i \in 1..(z + 1)
        BY <3>2 DEF Following, z
      <3>4. Advance(t, F[j]).i > j + 1
        BY <1>0, <2>2, <2>4, <3>2, <3>3
      <3> QED BY <2>3, <2>6, <3>2, <3>4
    <2> QED BY <2>5, <2>6
  <1>7. Nat \subseteq T
    <2> HIDE DEF T
    <2> QED BY <1>5, <1>6, SetInduction
  <1> DEFINE end == F[z]
  <1>8. Following(t, end) /\ end.i > z
    BY <1>0, <1>7
  <1> HIDE DEF end
  <1>9. end.cur \in Seq(Int) /\ end.sents \in Seq(Texts) /\ end.i = z + 1
        /\ (FlattenSeq(end.sents) \o end.cur) \o s[end.i] = s[1]
    BY <1>0, <1>8 DEF Following, s, z
  <1>10. end.sents \in Seq(Seq(Int)) /\ FlattenSeq(end.sents) \in Seq(Int)
    <2>1. end.sents \in Seq(Seq(Int))
      BY <1>9 DEF Texts
    <2> QED BY <2>1, FlattenType
  <1>11. FlattenSeq(end.sents) \o end.cur = s[1]
    <2> DEFINE g == FlattenSeq(end.sents) \o end.cur
    <2>1. g \in Seq(Int)
      BY <1>9, <1>10, ConcatProperties
    <2>2. g \o <<>> = s[1]
      BY <1>4, <1>9
    <2> HIDE DEF g
    <2>3. g = s[1]
      BY <2>1, <2>2, ConcatEmptySeq
    <2> QED BY <2>3 DEF g
  <1>12. CASE end.cur = <<>>
    <2>1. Segmented(t) = end.sents
      BY <1>1, <1>12 DEF end
    <2>2. FlattenSeq(end.sents) = s[1]
      BY <1>10, <1>11, <1>12, ConcatEmptySeq
    <2> QED BY <1>9, <2>1, <2>2 DEF s
  <1>13. CASE end.cur # <<>>
    <2>1. Segmented(t) = Append(end.sents, end.cur)
      BY <1>1, <1>13 DEF end
    <2>2. end.cur \in Texts
      BY <1>9, <1>13 DEF Texts
    <2>3. Append(end.sents, end.cur) \in Seq(Texts)
      BY <1>9, <2>2, AppendProperties
    <2>4. FlattenSeq(Append(end.sents, end.cur)) = FlattenSeq(end.sents) \o end.cur
      BY <1>9, <1>10, FlattenOfMore
    <2> QED BY <1>11, <2>1, <2>3, <2>4 DEF s
  <1> QED BY <1>12, <1>13

-----------------------------------------------------------------------------
(* Pads, put in and taken out.                                                *)

LEMMA BareOfPadded ==
  ASSUME NEW s \in Seq(Int), s # <<>>
  PROVE  /\ AddBlank(s) \in Seq(Int) /\ Len(AddBlank(s)) = 2 * Len(s) + 1
         /\ Len(AddBlank(s)) >= 3 /\ Bare(AddBlank(s)) = s
  <1> DEFINE n == Len(s)
             a == AddBlank(s)
  <1>1. n \in Nat /\ n > 0 /\ \A j \in 1..n : s[j] \in Int
    OBVIOUS
  <1>2. s = [j \in 1..n |-> s[j]]
    OBVIOUS
  <1> HIDE DEF n
  <1>3. Pad \in Int
    <2>1. \A x \in DOMAIN TokenId : TokenId[x] \in Int
      BY SynthAssumption
    <2> QED BY <2>1, 1 \in Int, Zenon DEF Pad
  <1>4. a = [j \in 1..(2 * n + 1) |-> IF j % 2 = 0 THEN s[j \div 2] ELSE Pad]
    BY DEF AddBlank, n
  <1>5. \A j \in 1..(2 * n + 1) : j % 2 = 0 => j \div 2 \in 1..n
    BY <1>1
  <1>6. a \in Seq(Int) /\ Len(a) = 2 * n + 1
    <2>1. \A j \in 1..(2 * n + 1) : (IF j % 2 = 0 THEN s[j \div 2] ELSE Pad) \in Int
      BY <1>1, <1>3, <1>5
    <2>2. 2 * n + 1 \in Nat
      BY <1>1
    <2> HIDE DEF a
    <2> QED BY <1>4, <2>1, <2>2
  <1>7. \A j \in 1..n : a[2 * j] = s[j]
    <2> TAKE j \in 1..n
    <2>1. 2 * j \in 1..(2 * n + 1) /\ (2 * j) % 2 = 0 /\ (2 * j) \div 2 = j
      BY <1>1
    <2> HIDE DEF a
    <2> QED BY <1>4, <2>1
  <1>8. Bare(a) = s
    <2>1. Len(a) \div 2 = n
      BY <1>1, <1>6
    <2> HIDE DEF a
    <2>2. Bare(a) = [j \in 1..n |-> a[2 * j]]
      BY <2>1 DEF Bare
    <2> QED BY <1>2, <1>7, <2>2
  <1> HIDE DEF a
  <1>9. Len(a) >= 3
    BY <1>1, <1>6
  <1> QED BY <1>6, <1>8, <1>9 DEF a, n

Sentences(t) == [k \in DOMAIN Segmented(t) |-> AddBlank(Segmented(t)[k])]

\* What is made of a line says what is there to be said.
LEMMA SentencesSay ==
  ASSUME NEW t \in Chars
  PROVE  /\ Sentences(t) \in Seq(Seq(Int)) /\ Len(Sentences(t)) = Len(Segmented(t))
         /\ FlattenSeq([k \in DOMAIN Sentences(t) |-> Bare(Sentences(t)[k])]) = SaidFrom(t)[1]
         /\ \A k \in DOMAIN Sentences(t) : Len(Sentences(t)[k]) >= 3
  <1> DEFINE g == Segmented(t)
             n == Len(g)
             ss == Sentences(t)
  <1>1. g \in Seq(Texts) /\ FlattenSeq(g) = SaidFrom(t)[1]
    BY SegmentedFollows
  <1>2. ss = [k \in DOMAIN g |-> AddBlank(g[k])]
    BY DEF Sentences
  <1> HIDE DEF g, ss
  <1>3. n \in Nat /\ DOMAIN g = 1..n /\ g = [k \in 1..n |-> g[k]]
    BY <1>1
  <1>4. \A k \in 1..n : g[k] \in Seq(Int) /\ g[k] # <<>>
    BY <1>1, <1>3 DEF Texts
  <1> HIDE DEF n
  <1>5. \A k \in 1..n : ss[k] = AddBlank(g[k]) /\ ss[k] \in Seq(Int) /\ Len(ss[k]) >= 3 /\ Bare(ss[k]) = g[k]
    BY <1>2, <1>3, <1>4, BareOfPadded
  <1>6. DOMAIN ss = 1..n
    BY <1>2, <1>3
  <1>7. ss \in Seq(Seq(Int)) /\ Len(ss) = n
    <2>1. ss = [k \in 1..n |-> ss[k]]
      BY <1>2, <1>3
    <2> QED BY <1>3, <1>5, <2>1, SMTT(40)
  <1>8. [k \in DOMAIN ss |-> Bare(ss[k])] = g
    BY <1>3, <1>5, <1>6
  <1> QED BY <1>1, <1>5, <1>6, <1>7, <1>8 DEF ss, g, n

-----------------------------------------------------------------------------
(* Frames.                                                                    *)

LEMMA BoundFacts ==
  ASSUME NEW n \in Nat, NEW d \in [1..n -> Nat]
  PROVE  /\ \A k \in 0..n : Sum(d, k) \in Nat /\ Bound(d, k) \in Nat
                            /\ 2 * Bound(d, k) <= Sum(d, k) /\ Sum(d, k) < 2 * Bound(d, k) + 2
         /\ Bound(d, 0) = 0
         /\ \A k \in 0..n : \A l \in 0..k : Bound(d, l) <= Bound(d, k)
  <1>0. Sum(d, 0) = 0 /\ \A l \in Nat : Sum(d, l + 1) = Sum(d, l) + d[l + 1]
    BY SumFollows
  <1>1. \A k : Bound(d, k) = Sum(d, k) \div 2
    BY DEF Bound
  <1> DEFINE T == {k \in Nat : k <= n => Sum(d, k) \in Nat /\ \A l \in 0..k : Sum(d, l) <= Sum(d, k)}
  <1>2. 0 \in T
    <2>1. \A l \in 0..0 : l = 0
      OBVIOUS
    <2> QED BY <1>0, <2>1
  <1>3. ASSUME NEW k \in Nat, k \in T PROVE k + 1 \in T
    <2> SUFFICES ASSUME k + 1 <= n
                 PROVE  Sum(d, k + 1) \in Nat /\ \A l \in 0..(k + 1) : Sum(d, l) <= Sum(d, k + 1)
      OBVIOUS
    <2>1. d[k + 1] \in Nat /\ Sum(d, k) \in Nat /\ \A l \in 0..k : Sum(d, l) <= Sum(d, k)
      BY <1>3
    <2>2. Sum(d, k + 1) = Sum(d, k) + d[k + 1]
      BY <1>0
    <2>3. Sum(d, k + 1) \in Nat /\ Sum(d, k) <= Sum(d, k + 1)
      BY <2>1, <2>2
    <2>4. ASSUME NEW l \in 0..(k + 1) PROVE Sum(d, l) <= Sum(d, k + 1)
      <3>1. CASE l = k + 1
        BY <2>3, <3>1
      <3>2. CASE l # k + 1
        <4>1. l \in 0..k
          BY <3>2
        <4>2. Sum(d, l) <= Sum(d, k) /\ l <= n /\ l \in Nat
          BY <2>1, <4>1
        <4>3. Sum(d, l) \in Int
          <5> DEFINE U == {m \in Nat : m <= n => Sum(d, m) \in Nat}
          <5>1. 0 \in U
            BY <1>0
          <5>2. ASSUME NEW m \in Nat, m \in U PROVE m + 1 \in U
            <6> SUFFICES ASSUME m + 1 <= n PROVE Sum(d, m + 1) \in Nat
              OBVIOUS
            <6>1. Sum(d, m) \in Nat /\ d[m + 1] \in Nat /\ Sum(d, m + 1) = Sum(d, m) + d[m + 1]
              BY <1>0, <5>2
            <6> QED BY <6>1
          <5>3. Nat \subseteq U
            <6> HIDE DEF U
            <6> QED BY <5>1, <5>2, SetInduction
          <5> QED BY <4>2, <5>3
        <4> QED BY <2>1, <2>3, <4>2, <4>3
      <3> QED BY <3>1, <3>2
    <2> QED BY <2>3, <2>4
  <1>4. Nat \subseteq T
    <2> HIDE DEF T
    <2> QED BY <1>2, <1>3, SetInduction
  <1>5. \A k \in 0..n : Sum(d, k) \in Nat /\ \A l \in 0..k : Sum(d, l) <= Sum(d, k)
    BY <1>4
  <1>6. \A a \in Nat : a \div 2 \in Nat /\ 2 * (a \div 2) <= a /\ a < 2 * (a \div 2) + 2
    OBVIOUS
  <1>7. \A a, b \in Nat : a <= b => a \div 2 <= b \div 2
    OBVIOUS
  <1>8. ASSUME NEW k \in 0..n, NEW l \in 0..k PROVE Bound(d, l) <= Bound(d, k)
    <2>1. Sum(d, k) \in Nat /\ Sum(d, l) \in Nat /\ Sum(d, l) <= Sum(d, k)
      BY <1>5
    <2> QED BY <1>1, <1>7, <2>1
  <1>9. Bound(d, 0) = 0
    BY <1>0, <1>1
  <1>10. ASSUME NEW k \in 0..n
         PROVE  Sum(d, k) \in Nat /\ Bound(d, k) \in Nat
                /\ 2 * Bound(d, k) <= Sum(d, k) /\ Sum(d, k) < 2 * Bound(d, k) + 2
    <2>1. Sum(d, k) \in Nat
      BY <1>5
    <2>2. Bound(d, k) = Sum(d, k) \div 2
      BY <1>1
    <2> QED BY <1>6, <2>1, <2>2
  <1> QED BY <1>8, <1>9, <1>10

\* A frame is of token k or one before it, or begins after k ends.
LEMMA FrameFacts ==
  ASSUME NEW n \in Nat, NEW d \in [1..n -> Nat]
  PROVE  /\ Bound(d, n) \in Nat
         /\ DOMAIN FrameTokens(d) = 1..Bound(d, n) /\ Len(FrameTokens(d)) = Bound(d, n)
         /\ \A t \in 1..Bound(d, n) : FrameTokens(d)[t] \in 1..n
         /\ \A k \in 1..n : \A t \in 1..Bound(d, n) : FrameTokens(d)[t] <= k <=> t <= Bound(d, k)
  <1> DEFINE B(k) == Bound(d, k)
             m == FrameTokens(d)
  <1>0. DOMAIN d = 1..n /\ Len(d) = n
    OBVIOUS
  <1>1. (\A k \in 0..n : B(k) \in Nat) /\ B(0) = 0 /\ \A k \in 0..n : \A l \in 0..k : B(l) <= B(k)
    BY BoundFacts
  <1>2. m = [t \in 1..B(n) |-> CHOOSE k \in 1..n : B(k - 1) < t /\ t <= B(k)]
    BY <1>0 DEF FrameTokens
  <1> HIDE DEF B, m
  <1>3. ASSUME NEW t \in 1..B(n) PROVE \E k \in 1..n : B(k - 1) < t /\ t <= B(k)
    <2> DEFINE U == {k \in 0..n : t <= B(k)}
    <2>0. n \in 0..n /\ B(n) \in Nat
      BY <1>1
    <2>1. n \in U /\ U \subseteq Nat
      BY <2>0
    <2>2. PICK k \in U : \A l \in U : k <= l
      <3> HIDE DEF U
      <3> QED BY <2>1, LeastNat
    <2>3. k \in 0..n /\ t <= B(k)
      BY <2>2
    <2>4. k # 0
      BY <1>1, <2>0, <2>3
    <2>5. k - 1 \in 0..n /\ k - 1 < k /\ k \in 1..n
      BY <2>3, <2>4
    <2>6. ~(t <= B(k - 1))
      BY <2>2, <2>5
    <2>7. B(k - 1) < t
      <3>1. B(k - 1) \in Nat
        BY <1>1, <2>5
      <3> QED BY <2>0, <2>6, <3>1
    <2> QED BY <2>3, <2>5, <2>7
  <1>4. ASSUME NEW t \in 1..B(n) PROVE m[t] \in 1..n /\ B(m[t] - 1) < t /\ t <= B(m[t])
    BY <1>2, <1>3, Zenon
  <1>5. ASSUME NEW k \in 1..n, NEW t \in 1..B(n) PROVE m[t] <= k <=> t <= B(k)
    <2>0. B(n) \in Nat /\ n \in 0..n
      BY <1>1
    <2>1. m[t] \in 1..n /\ B(m[t] - 1) < t /\ t <= B(m[t])
      BY <1>4
    <2>2. k \in 0..n /\ m[t] \in 0..n /\ m[t] - 1 \in 0..n
      BY <2>1
    <2>3. B(k) \in Nat /\ B(m[t]) \in Nat /\ B(m[t] - 1) \in Nat
      BY <1>1, <2>2
    <2>4. ASSUME m[t] <= k PROVE t <= B(k)
      <3>1. m[t] \in 0..k
        BY <2>2, <2>4
      <3>2. B(m[t]) <= B(k)
        BY <1>1, <2>2, <3>1
      <3> QED BY <2>0, <2>1, <2>3, <3>2
    <2>5. ASSUME ~(m[t] <= k) PROVE ~(t <= B(k))
      <3>1. k \in 0..(m[t] - 1)
        BY <2>2, <2>5
      <3>2. B(k) <= B(m[t] - 1)
        BY <1>1, <2>2, <3>1
      <3> QED BY <2>0, <2>1, <2>3, <3>2
    <2> QED BY <2>4, <2>5
  <1>6. B(n) \in Nat /\ DOMAIN m = 1..B(n) /\ Len(m) = B(n)
    <2>1. B(n) \in Nat
      BY <1>1, n \in 0..n
    <2>2. DOMAIN m = 1..B(n)
      BY <1>2
    <2>3. Len(m) = B(n)
      BY <1>2, <2>1
    <2> QED BY <2>1, <2>2, <2>3
  <1> QED BY <1>4, <1>5, <1>6 DEF m, B

\* The frames of the first k tokens are as many as the durations say.
LEMMA FramesDoNotDrift ==
  ASSUME NEW n \in Nat, NEW d \in [1..n -> Nat], NEW k \in 1..n
  PROVE  LET frames == Cardinality({t \in DOMAIN FrameTokens(d) : FrameTokens(d)[t] <= k})
         IN  2 * frames <= Sum(d, k) /\ Sum(d, k) < 2 * frames + 2
  <1> DEFINE m == FrameTokens(d)
             F == {t \in DOMAIN m : m[t] <= k}
             b == Bound(d, k)
  <1>1. /\ Bound(d, n) \in Nat /\ DOMAIN m = 1..Bound(d, n)
        /\ \A t \in 1..Bound(d, n) : m[t] <= k <=> t <= b
    BY FrameFacts
  <1>2. b \in Nat /\ b <= Bound(d, n) /\ 2 * b <= Sum(d, k) /\ Sum(d, k) < 2 * b + 2
    <2>1. k \in 0..n /\ n \in 0..n /\ k \in 0..n
      OBVIOUS
    <2> QED BY <2>1, BoundFacts
  <1> HIDE DEF m, b
  <1>3. F = 1..b
    BY <1>1, <1>2
  <1>4. Cardinality(1..b) = b
    <2>1. 1 \in Int /\ b \in Int
      BY <1>2
    <2>2. Cardinality(1..b) = IF 1 <= b THEN b - 1 + 1 ELSE 0
      BY <2>1, FS_Interval
    <2> QED BY <1>2, <2>2
  <1>5. Cardinality(F) = b
    BY <1>3, <1>4
  <1> HIDE DEF F
  <1>6. 2 * Cardinality(F) <= Sum(d, k) /\ Sum(d, k) < 2 * Cardinality(F) + 2
    BY <1>2, <1>5
  <1> QED BY <1>6 DEF F, m

-----------------------------------------------------------------------------
(* Windows.                                                                   *)

\* The windows up to k: where they end, and that each is full of frames.
LEMMA StartsFacts ==
  ASSUME NEW Lp \in Nat
  PROVE  LET S == Starts(Lp)
             n == Len(S)
             real == Less(WB, Lp)
         IN  /\ n \in Nat \ {0} /\ real \in Nat
             /\ \A k \in 1..n : S[k] \in Nat /\ Less(WB, Lp - S[k]) = real
             /\ \A k \in 1..n : \A t \in 1..Lp :
                  /\ k < n => (t <= k * WB <=> t <= (k - 1) * WB \/ (S[k] < t /\ t <= S[k] + real))
                  /\ k = n => t <= (k - 1) * WB \/ (S[k] < t /\ t <= S[k] + real)
  <1> DEFINE w == IF Lp = 0 THEN 0 ELSE (Lp - 1) \div WB
             front == [k \in 1..w |-> (k - 1) * WB]
             last == IF Lp > WB THEN Lp - WB ELSE 0
             S == Starts(Lp)
             n == Len(S)
             real == Less(WB, Lp)
  <1>0. WB \in Nat /\ WB > 0
    BY SynthAssumption
  <1>1. w \in Nat /\ (Lp > 0 => w * WB <= Lp - 1 /\ Lp - 1 < w * WB + WB) /\ (Lp = 0 => w = 0)
    <2>1. ASSUME Lp > 0 PROVE w \in Nat /\ w * WB <= Lp - 1 /\ Lp - 1 < w * WB + WB
      <3>1. \A a, b \in Nat : b > 0 => a \div b \in Nat /\ (a \div b) * b <= a /\ a < (a \div b) * b + b
        OBVIOUS
      <3>2. Lp - 1 \in Nat /\ w = (Lp - 1) \div WB
        BY <2>1
      <3> HIDE DEF w
      <3> QED BY <1>0, <3>1, <3>2
    <2> QED BY <2>1
  <1>2. S = Append(front, last)
    BY DEF Starts
  <1> HIDE DEF w
  <1>3. last \in Nat /\ last = IF Lp > WB THEN Lp - WB ELSE 0
    BY <1>0
  <1>4. \A k \in 1..w : (k - 1) * WB \in Nat /\ front[k] = (k - 1) * WB
    <2>1. \A a, b \in Nat : a * b \in Nat
      OBVIOUS
    <2>2. \A k \in 1..w : k - 1 \in Nat
      OBVIOUS
    <2> QED BY <1>0, <2>1, <2>2
  <1>5. front \in Seq(Nat) /\ Len(front) = w
    <2>1. front = [k \in 1..w |-> (k - 1) * WB]
      OBVIOUS
    <2> HIDE DEF front
    <2> QED BY <1>1, <1>4, <2>1
  <1> HIDE DEF front, last, S
  <1>6. n = w + 1 /\ S[w + 1] = last /\ \A k \in 1..w : S[k] = (k - 1) * WB
    BY <1>1, <1>2, <1>3, <1>4, <1>5, AppendProperties
  <1>7. real \in Nat /\ real = IF WB < Lp THEN WB ELSE Lp
    BY <1>0 DEF Less
  <1> HIDE DEF real, n
  <1>8. ASSUME NEW k \in 1..w
        PROVE  /\ S[k] \in Nat /\ Less(WB, Lp - S[k]) = real
               /\ \A t \in 1..Lp : t <= k * WB <=> t <= (k - 1) * WB \/ (S[k] < t /\ t <= S[k] + real)
    <2>1. Lp > 0
      BY <1>1
    <2> DEFINE a == (k - 1) * WB
               b == k * WB
    <2>2. a \in Nat /\ b \in Nat /\ b = a + WB /\ b <= w * WB
      <3>1. \A x, y, z \in Nat : x <= y => x * z <= y * z
        OBVIOUS
      <3>2. k * WB <= w * WB
        BY <1>0, <1>1, <3>1
      <3>3. k * WB = (k - 1) * WB + WB /\ k * WB \in Nat /\ (k - 1) * WB \in Nat
        BY <1>0, <1>1
      <3> QED BY <3>2, <3>3
    <2>3. S[k] = a
      BY <1>6
    <2> HIDE DEF a, b
    <2>4. w * WB \in Nat
      BY <1>0, <1>1
    <2>5. b <= Lp - 1 /\ WB < Lp /\ WB < Lp - a
      BY <1>0, <1>1, <2>1, <2>2, <2>4
    <2>6. real = WB /\ Less(WB, Lp - a) = WB
      BY <1>7, <2>5 DEF Less
    <2>7. \A t \in 1..Lp : t <= b <=> t <= a \/ (a < t /\ t <= a + WB)
      BY <1>0, <2>2
    <2> QED BY <2>2, <2>3, <2>6, <2>7 DEF a, b
  <1>9. S[n] \in Nat /\ Less(WB, Lp - S[n]) = real
        /\ \A t \in 1..Lp : t <= (n - 1) * WB \/ (S[n] < t /\ t <= S[n] + real)
    <2>1. S[n] = last /\ n - 1 = w
      BY <1>1, <1>6
    <2>2. CASE Lp > WB
      <3>1. last = Lp - WB /\ real = WB /\ Lp - last = WB
        BY <1>0, <1>3, <1>7, <2>2
      <3>2. Less(WB, WB) = WB
        BY DEF Less
      <3>3. w * WB \in Nat /\ Lp - WB <= w * WB
        BY <1>0, <1>1, <2>2
      <3>4. \A t \in 1..Lp : t <= w * WB \/ (last < t /\ t <= last + real)
        BY <1>0, <3>1, <3>3
      <3> QED BY <1>3, <2>1, <3>1, <3>2, <3>4
    <2>3. CASE ~(Lp > WB)
      <3>1. last = 0 /\ real = Lp /\ Less(WB, Lp - 0) = Lp
        BY <1>0, <1>3, <1>7, <2>3 DEF Less
      <3> QED BY <2>1, <3>1
    <2> QED BY <2>2, <2>3
  <1>10. \A k \in 1..n : k \in 1..w \/ k = n
    BY <1>1, <1>6
  <1>11. n \in Nat \ {0} /\ \A k \in 1..n : k < n => k \in 1..w
    BY <1>1, <1>6
  <1>12. ASSUME NEW k \in 1..n
         PROVE  /\ S[k] \in Nat /\ Less(WB, Lp - S[k]) = real
                /\ \A t \in 1..Lp :
                     /\ k < n => (t <= k * WB <=> t <= (k - 1) * WB \/ (S[k] < t /\ t <= S[k] + real))
                     /\ k = n => t <= (k - 1) * WB \/ (S[k] < t /\ t <= S[k] + real)
    <2>1. CASE k = n
      BY <1>9, <1>11, <2>1
    <2>2. CASE k # n
      BY <1>8, <1>10, <2>2
    <2> QED BY <2>1, <2>2
  <1> QED BY <1>7, <1>11, <1>12, Zenon DEF S, n, real

-----------------------------------------------------------------------------
(* Chunks.                                                                    *)

\* The sound of the first h frames of L, of which c were given to the vocoder.
Heard(w, c, h, L) ==
  /\ w \in Seq(SUBSET Nat) /\ (c = 0 <=> w = <<>>)
  /\ \A t \in 1..h : \E k \in DOMAIN w : t \in w[k]
  /\ \A k \in DOMAIN w : \E t \in 1..h :
       w[k] = {t} \/ (w[k] = {t, t + 1} /\ t % CH = 0 /\ t + 1 <= h)
  /\ \A k, l \in DOMAIN w : k < l => \A t \in w[k], u \in w[l] : t < u
  /\ 0 < c /\ c < L => w[Len(w)] = {c}

LEMMA SlotsJoined ==
  \A x, y \in Seq(SUBSET Nat) :
    /\ x \o y \in Seq(SUBSET Nat) /\ Len(x \o y) = Len(x) + Len(y)
    /\ \A k \in 1..(Len(x) + Len(y)) : (x \o y)[k] = IF k <= Len(x) THEN x[k] ELSE y[k - Len(x)]
  BY ConcatProperties

LEMMA ChunkIsHeard ==
  ASSUME NEW L \in Nat, NEW c \in Nat, c % CH = 0, c < L,
         NEW w, Heard(w, c, Less(c, L), L)
  PROVE  LET f == Less(CH, L - c)
         IN  Heard(Crossfaded(w, [k \in 1..f |-> {c + k}]), c + CH, Less(c + CH, L), L)
  <1> DEFINE f == Less(CH, L - c)
             new == [k \in 1..f |-> {c + k}]
             v == Crossfaded(w, new)
             n == Len(w)
  <1>0. CH \in Nat /\ CH > 1
    BY SynthAssumption
  <1>1. /\ f \in Nat /\ f > 0 /\ Less(c, L) = c /\ Less(c + CH, L) = c + f /\ c + f \in Nat
        /\ (c + CH < L => f = CH)
    BY <1>0 DEF Less
  <1> HIDE DEF f
  <1>2. new \in Seq(SUBSET Nat) /\ Len(new) = f /\ \A k \in 1..f : new[k] = {c + k}
    <2>1. \A k \in 1..f : {c + k} \in SUBSET Nat
      BY <1>1
    <2>2. new = [k \in 1..f |-> {c + k}]
      OBVIOUS
    <2> HIDE DEF new
    <2> QED BY <1>1, <2>1, <2>2
  <1> HIDE DEF new
  <1>n. Len(w) = n
    OBVIOUS
  <1> HIDE DEF v, n
  <1>3. CASE w = <<>>
    <2>1. v = new /\ c = 0
      BY <1>3 DEF Crossfaded, Heard, v
    <2>2. c + CH # 0 /\ new # <<>> /\ DOMAIN new = 1..f
      BY <1>0, <1>1, <1>2
    <2>3. \A t \in 1..f : t \in new[t]
      BY <1>2, <2>1
    <2>4. \A k \in 1..f : new[k] = {k}
      BY <1>2, <2>1
    <2>5. \A k, l \in 1..f : k < l => \A t \in new[k], u \in new[l] : t < u
      BY <2>4
    <2>6. c + CH < L => new[Len(new)] = {c + CH}
      BY <1>1, <1>2
    <2>7. \A t \in 1..f : \E k \in 1..f : t \in new[k]
      BY <2>3
    <2>8. \A k \in 1..f : \E t \in 1..f :
            new[k] = {t} \/ (new[k] = {t, t + 1} /\ t % CH = 0 /\ t + 1 <= f)
      BY <2>4
    <2>9. c + f = f
      BY <1>1, <2>1
    <2>10. Heard(new, c + CH, c + f, L)
      <3>1. Heard(new, c + CH, f, L)
        <4>1. new \in Seq(SUBSET Nat) /\ (c + CH = 0 <=> new = <<>>)
          BY <1>2, <2>2
        <4>2. \A k, l \in DOMAIN new : k < l => \A t \in new[k], u \in new[l] : t < u
          BY <2>2, <2>5, Zenon
        <4>3. 0 < c + CH /\ c + CH < L => new[Len(new)] = {c + CH}
          BY <2>6
        <4>4. \A t \in 1..f : \E k \in DOMAIN new : t \in new[k]
          BY <2>2, <2>7, Zenon
        <4>5. \A k \in DOMAIN new : \E t \in 1..f :
                new[k] = {t} \/ (new[k] = {t, t + 1} /\ t % CH = 0 /\ t + 1 <= f)
          BY <2>2, <2>8, Zenon
        <4> QED BY <4>1, <4>2, <4>3, <4>4, <4>5, Zenon DEF Heard
      <3> QED BY <2>9, <3>1
    <2>11. Heard(v, c + CH, Less(c + CH, L), L)
      BY <1>1, <2>1, <2>10
    <2> QED BY <2>11 DEF f, new, v
  <1>4. CASE w # <<>>
    <2>1. n \in Nat /\ n > 0 /\ c > 0 /\ w \in Seq(SUBSET Nat) /\ DOMAIN w = 1..n /\ w[n] = {c}
      BY <1>4, <1>n, EmptySeq, LenProperties DEF Heard
    <2>2. /\ \A t \in 1..c : \E k \in 1..n : t \in w[k]
          /\ \A k \in 1..n : \E t \in 1..c : w[k] = {t} \/ (w[k] = {t, t + 1} /\ t % CH = 0 /\ t + 1 <= c)
          /\ \A k, l \in 1..n : k < l => \A t \in w[k], u \in w[l] : t < u
      <3>1. Heard(w, c, c, L)
        BY <1>1
      <3> QED BY <2>1, <3>1, Zenon DEF Heard
    <2> DEFINE front == SubSeq(w, 1, n - 1)
               joint == <<w[n] \cup new[1]>>
               rest == SubSeq(new, 2, f)
    <2>3. v = (front \o joint) \o rest
      BY <1>2, <1>4, <1>n DEF Crossfaded, Front, Last, v
    <2>4. front \in Seq(SUBSET Nat) /\ Len(front) = n - 1 /\ \A k \in 1..(n - 1) : front[k] = w[k]
      BY <2>1, <1>n
    <2>5. joint \in Seq(SUBSET Nat) /\ Len(joint) = 1 /\ joint[1] = {c, c + 1}
      <3>1. new[1] = {c + 1} /\ w[n] = {c}
        BY <1>1, <1>2, <2>1
      <3>2. w[n] \cup new[1] = {c, c + 1}
        BY <3>1
      <3>3. {c, c + 1} \in SUBSET Nat
        OBVIOUS
      <3> QED BY <3>2, <3>3
    <2>6. rest \in Seq(SUBSET Nat) /\ Len(rest) = f - 1 /\ \A k \in 1..(f - 1) : rest[k] = {c + (k + 1)}
      <3>1. Len(rest) = f - 1
        BY <1>1, <1>2
      <3>2. \A k \in 1..(f - 1) : rest[k] = new[k + 1] /\ k + 1 \in 1..f
        BY <1>1, <1>2
      <3>3. rest \in Seq(SUBSET Nat)
        <4>1. \A i \in 2..f : new[i] \in SUBSET Nat
          BY <1>1, <1>2
        <4>2. 2 \in Int /\ f \in Int
          BY <1>1
        <4> QED BY <4>1, <4>2, SubSeqProperties
      <3> QED BY <1>2, <3>1, <3>2, <3>3
    <2> HIDE DEF front, joint, rest
    <2>7. front \o joint \in Seq(SUBSET Nat) /\ Len(front \o joint) = n
          /\ \A k \in 1..n : (front \o joint)[k] = IF k < n THEN w[k] ELSE {c, c + 1}
      <3> DEFINE fj == front \o joint
      <3>1. fj \in Seq(SUBSET Nat) /\ Len(fj) = Len(front) + Len(joint)
            /\ \A k \in 1..(Len(front) + Len(joint)) :
                 fj[k] = IF k <= Len(front) THEN front[k] ELSE joint[k - Len(front)]
        BY <2>4, <2>5, SlotsJoined, Zenon
      <3> HIDE DEF fj
      <3>2. Len(fj) = n
        BY <2>1, <2>4, <2>5, <3>1
      <3>3. ASSUME NEW k \in 1..n PROVE fj[k] = IF k < n THEN w[k] ELSE {c, c + 1}
        <4>1. fj[k] = IF k <= n - 1 THEN front[k] ELSE joint[k - (n - 1)]
          BY <2>1, <2>4, <2>5, <3>1
        <4>2. CASE k < n
          <5>1. k <= n - 1 /\ k \in 1..(n - 1)
            BY <2>1, <4>2
          <5> QED BY <2>4, <4>1, <4>2, <5>1
        <4>3. CASE ~(k < n)
          <5>1. k - (n - 1) = 1 /\ ~(k <= n - 1)
            BY <2>1, <4>3
          <5> QED BY <2>5, <4>1, <4>3, <5>1
        <4> QED BY <4>2, <4>3
      <3> QED BY <3>1, <3>2, <3>3 DEF fj
    <2>8. v \in Seq(SUBSET Nat) /\ Len(v) = n + f - 1 /\ DOMAIN v = 1..(n + f - 1)
          /\ \A k \in 1..(n + f - 1) :
               v[k] = IF k < n THEN w[k] ELSE IF k = n THEN {c, c + 1} ELSE {c + (k - n + 1)}
      <3> DEFINE fj == front \o joint
      <3>1. v = fj \o rest /\ fj \in Seq(SUBSET Nat) /\ Len(fj) = n
        BY <2>3, <2>7
      <3>2. \A k \in 1..n : fj[k] = IF k < n THEN w[k] ELSE {c, c + 1}
        BY <2>7
      <3> HIDE DEF fj
      <3>3. v \in Seq(SUBSET Nat) /\ Len(v) = n + f - 1
            /\ \A k \in 1..(n + (f - 1)) : v[k] = IF k <= n THEN fj[k] ELSE rest[k - n]
        <4>1. v \in Seq(SUBSET Nat) /\ Len(v) = Len(fj) + Len(rest)
              /\ \A k \in 1..(Len(fj) + Len(rest)) :
                   v[k] = IF k <= Len(fj) THEN fj[k] ELSE rest[k - Len(fj)]
          BY <2>6, <3>1, SlotsJoined, ZenonT(60)
        <4>2. n + (f - 1) = n + f - 1
          BY <1>1, <2>1
        <4> QED BY <2>6, <3>1, <4>1, <4>2
      <3>4. DOMAIN v = 1..(n + f - 1)
        BY <3>3
      <3>5. ASSUME NEW k \in 1..(n + f - 1)
            PROVE  v[k] = IF k < n THEN w[k] ELSE IF k = n THEN {c, c + 1} ELSE {c + (k - n + 1)}
        <4>1. v[k] = IF k <= n THEN fj[k] ELSE rest[k - n]
          BY <1>1, <2>1, <3>3
        <4>2. CASE k <= n
          <5>1. k \in 1..n
            BY <2>1, <4>2
          <5>2. fj[k] = IF k < n THEN w[k] ELSE {c, c + 1}
            BY <3>2, <5>1
          <5>3. ~(k < n) => k = n
            BY <2>1, <4>2
          <5> QED BY <4>1, <4>2, <5>2, <5>3
        <4>3. CASE ~(k <= n)
          <5>1. k - n \in 1..(f - 1) /\ ~(k < n) /\ k # n
            BY <1>1, <2>1, <4>3
          <5> QED BY <2>6, <4>1, <4>3, <5>1
        <4> QED BY <4>2, <4>3
      <3> QED BY <3>3, <3>4, <3>5
    <2>9. ASSUME NEW t \in 1..(c + f) PROVE \E k \in 1..(n + f - 1) : t \in v[k]
      <3>1. CASE t < c
        <4>1. PICK k \in 1..n : t \in w[k]
          BY <2>2, <3>1
        <4>2. k # n
          BY <2>1, <3>1, <4>1
        <4>3. k < n /\ k \in 1..(n + f - 1)
          BY <1>1, <2>1, <4>2
        <4> QED BY <2>8, <4>1, <4>3
      <3>2. CASE t \in {c, c + 1}
        <4>1. n \in 1..(n + f - 1) /\ ~(n < n)
          BY <1>1, <2>1
        <4>2. v[n] = {c, c + 1}
          BY <2>8, <4>1
        <4> QED BY <3>2, <4>1, <4>2
      <3>3. CASE t > c + 1
        <4> DEFINE k == t - c + n - 1
        <4>1. k \in 1..(n + f - 1) /\ ~(k < n) /\ k # n /\ c + (k - n + 1) = t
          BY <1>1, <2>1, <3>3
        <4> HIDE DEF k
        <4>2. v[k] = {t}
          BY <2>8, <4>1
        <4> QED BY <4>1, <4>2
      <3> QED BY <1>1, <2>1, <3>1, <3>2, <3>3
    <2>10. ASSUME NEW k \in 1..(n + f - 1)
           PROVE  \E t \in 1..(c + f) : v[k] = {t} \/ (v[k] = {t, t + 1} /\ t % CH = 0 /\ t + 1 <= c + f)
      <3>1. CASE k < n
        <4>1. k \in 1..n /\ v[k] = w[k]
          BY <2>1, <2>8, <3>1
        <4>2. PICK t \in 1..c : w[k] = {t} \/ (w[k] = {t, t + 1} /\ t % CH = 0 /\ t + 1 <= c)
          BY <2>2, <4>1
        <4>3. t \in 1..(c + f) /\ (t + 1 <= c => t + 1 <= c + f)
          BY <1>1
        <4> QED BY <4>1, <4>2, <4>3
      <3>2. CASE k = n
        <4>1. v[k] = {c, c + 1}
          BY <2>8, <3>2
        <4>2. c \in 1..(c + f) /\ c + 1 <= c + f
          BY <1>1, <2>1
        <4> QED BY <4>1, <4>2
      <3>3. CASE k > n
        <4>1. v[k] = {c + (k - n + 1)} /\ c + (k - n + 1) \in 1..(c + f)
          BY <1>1, <2>1, <2>8, <3>3
        <4> QED BY <4>1
      <3> QED BY <2>1, <3>1, <3>2, <3>3
    <2>11. ASSUME NEW k \in 1..(n + f - 1), NEW l \in 1..(n + f - 1), k < l,
                  NEW t \in v[k], NEW u \in v[l]
           PROVE  t < u
      <3>1. CASE l < n
        <4>1. k \in 1..n /\ l \in 1..n /\ k < n /\ v[k] = w[k] /\ v[l] = w[l]
          BY <2>1, <2>8, <2>11, <3>1
        <4> QED BY <2>2, <2>11, <4>1
      <3>2. CASE k < n /\ ~(l < n)
        <4>1. k \in 1..n /\ v[k] = w[k] /\ n \in 1..n
          BY <2>1, <2>8, <3>2
        <4>2. t < c
          BY <2>1, <2>2, <3>2, <4>1
        <4>3. u >= c /\ u \in Nat
          BY <2>1, <2>8, <3>2, SMTT(40)
        <4>4. t \in Nat
          BY <2>1, <4>1
        <4> QED BY <4>2, <4>3, <4>4
      <3>3. CASE ~(k < n)
        <4>1. l > n /\ l # n /\ ~(l < n)
          BY <2>1, <2>11, <3>3
        <4>2. u = c + (l - n + 1)
          BY <2>8, <4>1
        <4>3. t = c \/ t = c + 1 \/ t = c + (k - n + 1)
          BY <2>8, <3>3
        <4>4. c + 1 < c + (l - n + 1) /\ c + (k - n + 1) < c + (l - n + 1) /\ c < c + (l - n + 1)
          BY <2>1, <2>11, <4>1
        <4> QED BY <4>2, <4>3, <4>4
      <3> QED BY <3>1, <3>2, <3>3
    <2>12. c + CH < L => v[Len(v)] = {c + CH}
      <3> SUFFICES ASSUME c + CH < L PROVE v[n + f - 1] = {c + CH}
        BY <2>8
      <3>1. f = CH /\ n + f - 1 \in 1..(n + f - 1) /\ n + f - 1 > n
        BY <1>0, <1>1, <2>1
      <3>2. v[n + f - 1] = {c + ((n + f - 1) - n + 1)}
        BY <2>1, <2>8, <3>1
      <3>3. (n + f - 1) - n + 1 = CH
        BY <1>0, <2>1, <3>1
      <3> QED BY <3>2, <3>3
    <2>13. v # <<>> /\ c + CH # 0
      BY <1>0, <1>1, <2>1, <2>8
    <2>14. Heard(v, c + CH, c + f, L)
      BY <2>8, <2>9, <2>10, <2>11, <2>12, <2>13 DEF Heard
    <2>15. Heard(v, c + CH, Less(c + CH, L), L)
      BY <1>1, <2>14
    <2> QED BY <2>15 DEF v, new, f
  <1> QED BY <1>3, <1>4

-----------------------------------------------------------------------------
(* The invariant.                                                             *)

\* The sentences are those of the line.
Says(l, ss) ==
  /\ FlattenSeq([k \in DOMAIN ss |-> Bare(ss[k])]) = SaidFrom(l)[1]
  /\ \A k \in DOMAIN ss : Len(ss[k]) >= 3

Working == yp \in {"sentence", "window", "chunk"}

\* Where the daemon is in the line, and what it has written of it.
LineInv ==
  /\ split \in BOOLEAN /\ aco \in BOOLEAN
  /\ yp \in {"read", "sentence", "window", "chunk", "quit"}
  /\ line \in Chars /\ sents \in Seq(Seq(Int)) /\ Says(line, sents)
  /\ Working => /\ si \in DOMAIN sents /\ audio_out = [k \in 1..(si - 1) |-> k]
                /\ reply # "DONE" /\ file = <<>>
  /\ DoneIsWhole

\* What a frame is made of.
Made(t) == [tok |-> mm[t], real |-> Less(WB, Len(mm))]

\* How far the sentence is: its frames made window by window, then heard chunk by chunk.
SentenceInv ==
  /\ yp \in {"window", "chunk"} =>
       /\ dur \in [1..Len(sents[si]) -> Nat] /\ mm = FrameTokens(dur)
       /\ mel = [t \in DOMAIN mm |-> mel[t]]
  /\ yp \notin {"window", "chunk"} => mm = <<>> /\ mel = <<>> /\ win = 0
  /\ yp = "window" =>
       /\ win \in Nat /\ win < Len(Starts(Len(mm))) /\ c0 = 0 /\ wave = <<>>
       /\ \A t \in DOMAIN mm : t <= win * WB => mel[t] = Made(t)
  /\ yp = "chunk" =>
       /\ win \in 0..Len(Starts(Len(mm))) /\ \A t \in DOMAIN mm : mel[t] = Made(t)
       /\ c0 \in Nat /\ c0 % CH = 0 /\ Heard(wave, c0, Less(c0, Len(mm)), Len(mm))

SynthInv == LineInv /\ SentenceInv

LEMMA SaysNothingUnsaid ==
  ASSUME line \in Chars
  PROVE  NothingUnsaid <=> Says(line, sents)
  <1> DEFINE from == CHOOSE f : ReadFrom(f, line)
  <1>1. NothingUnsaid <=> /\ FlattenSeq([k \in DOMAIN sents |-> Bare(sents[k])]) = from[1]
                          /\ \A k \in DOMAIN sents : Len(sents[k]) >= 3
    BY Zenon DEF NothingUnsaid, ReadFrom
  <1> QED BY <1>1 DEF Says, SaidFrom

LEMMA NothingToSay == Says(<<>>, <<>>) /\ <<>> \in Chars
  <1>1. <<>> \in Chars /\ Len(<<>>) = 0
    BY EmptySeq DEF Chars
  <1>2. SaidFrom(<<>>)[1] = <<>>
    <2>1. SaidFrom(<<>>)[Len(<<>>) + 1] = <<>>
      BY <1>1, SaidFromFollows
    <2> QED BY <1>1, <2>1
  <1>3. [k \in DOMAIN <<>> |-> Bare(<<>>[k])] = <<>>
    OBVIOUS
  <1>4. FlattenSeq(<<>>) = <<>>
    BY DEF FlattenSeq
  <1>5. \A k \in DOMAIN <<>> : Len(<<>>[k]) >= 3
    OBVIOUS
  <1> QED BY <1>1, <1>2, <1>3, <1>4, <1>5, Zenon DEF Says

LEMMA InitInv == SynthInit => SynthInv
  <1> SUFFICES ASSUME SynthInit PROVE SynthInv
    OBVIOUS
  <1>1. LineInv
    <2>1. sents \in Seq(Seq(Int)) /\ line \in Chars /\ Says(line, sents)
      BY NothingToSay, EmptySeq DEF SynthInit
    <2>2. DoneIsWhole
      BY DEF SynthInit, DoneIsWhole
    <2> QED BY <2>1, <2>2 DEF SynthInit, LineInv, Working
  <1>2. SentenceInv
    BY DEF SynthInit, SentenceInv
  <1> QED BY <1>1, <1>2 DEF SynthInv

LEMMA ReadLineInv == ASSUME LineInv, SentenceInv, NEW t \in Lines, ReadLine(t) PROVE LineInv' /\ SentenceInv'
  <1>1. line' = t /\ t \in Chars /\ sents' = Sentences(t)
    BY SynthAssumption DEF ReadLine, Sentences, Chars
  <1>2. sents' \in Seq(Seq(Int)) /\ line' \in Chars /\ Says(line', sents')
    <2>1. Says(t, Sentences(t))
      BY <1>1, SentencesSay, Zenon DEF Says
    <2> QED BY <1>1, <2>1, SentencesSay
  <1>3. /\ si' = 1 /\ audio_out' = <<>> /\ file' = <<>> /\ reply' = "none"
        /\ yp' = IF sents' = <<>> THEN "read" ELSE "sentence"
        /\ UNCHANGED <<split, aco, sentence>> /\ yp = "read"
    BY DEF ReadLine
  <1>4. Working' => si' \in DOMAIN sents' /\ audio_out' = [k \in 1..(si' - 1) |-> k]
    <2> SUFFICES ASSUME sents' # <<>> PROVE si' \in DOMAIN sents' /\ audio_out' = [k \in 1..(si' - 1) |-> k]
      BY <1>3 DEF Working
    <2>1. Len(sents') \in Nat \ {0} /\ DOMAIN sents' = 1..Len(sents')
      BY <1>2, EmptySeq, LenProperties
    <2> QED BY <1>3, <2>1
  <1>5. LineInv'
    <2>1. DoneIsWhole'
      BY <1>3 DEF DoneIsWhole
    <2>2. split' \in BOOLEAN /\ aco' \in BOOLEAN /\ yp' \in {"read", "sentence", "window", "chunk", "quit"}
      BY <1>3 DEF LineInv
    <2> QED BY <1>2, <1>3, <1>4, <2>1, <2>2 DEF LineInv
  <1>6. SentenceInv'
    BY <1>3 DEF SentenceInv, sentence
  <1> QED BY <1>5, <1>6

LEMMA IdleInv ==
  ASSUME LineInv, SentenceInv, ReadMalformed \/ ReadQuit \/ TooLong \/ UNCHANGED synthVars
  PROVE  LineInv' /\ SentenceInv'
  <1>1. CASE ReadMalformed
    BY <1>1 DEF ReadMalformed, LineInv, SentenceInv, sentence, Working, DoneIsWhole, Says, Made
  <1>2. CASE ReadQuit
    BY <1>2 DEF ReadQuit, LineInv, SentenceInv, sentence, Working, DoneIsWhole, Says, Made
  <1>3. CASE TooLong
    BY <1>3 DEF TooLong, LineInv, SentenceInv, sentence, Working, DoneIsWhole, Says, Made
  <1>4. CASE UNCHANGED synthVars
    BY <1>4 DEF synthVars, LineInv, SentenceInv, sentence, Working, DoneIsWhole, Says, Made
  <1> QED BY <1>1, <1>2, <1>3, <1>4

\* The line is as it was.
LEMMA LineStays ==
  ASSUME LineInv, Working, Working', UNCHANGED <<split, aco, line, sents, si, audio_out, reply, file>>
  PROVE  LineInv'
  BY DEF LineInv, Working, DoneIsWhole, Says

LEMMA ExpandInv == ASSUME LineInv, SentenceInv, Expand PROVE LineInv' /\ SentenceInv'
  <1>1. LineInv'
    <2>1. Working /\ Working' /\ UNCHANGED <<split, aco, line, sents, si, audio_out, reply, file>>
      BY DEF Expand, Working
    <2> QED BY <2>1, LineStays
  <1> DEFINE n == Len(sents[si])
  <1>2. n \in Nat /\ si' = si /\ sents' = sents
    BY DEF LineInv, Working, Expand
  <1>3. dur' \in [1..n -> Nat] /\ mm' = FrameTokens(dur')
    <2>1. dur' \in [1..n -> Durations] /\ mm' = FrameTokens(dur')
      BY DEF Expand
    <2> HIDE DEF n
    <2> QED BY <2>1, SynthAssumption
  <1>4. yp' = "window" /\ win' = 0 /\ c0' = 0 /\ wave' = <<>>
        /\ mel' = [t \in DOMAIN mm' |-> [tok |-> 0, real |-> 0]]
    BY DEF Expand
  <1> HIDE DEF n
  <1>5. Len(mm') \in Nat /\ DOMAIN mm' = 1..Len(mm')
    BY <1>2, <1>3, FrameFacts
  <1>6. Len(Starts(Len(mm'))) \in Nat \ {0}
    BY <1>5, StartsFacts
  <1>7. \A t \in DOMAIN mm' : ~(t <= 0 * WB)
    BY <1>5, SynthAssumption
  <1>8. mel' = [t \in DOMAIN mm' |-> mel'[t]]
    BY <1>4
  <1> QED BY <1>1, <1>2, <1>3, <1>4, <1>6, <1>7, <1>8 DEF SentenceInv, n

\* While frames are made, there are as many of them as the mel has.
LEMMA MelFacts ==
  ASSUME LineInv, SentenceInv, yp \in {"window", "chunk"}
  PROVE  /\ Len(sents[si]) \in Nat /\ dur \in [1..Len(sents[si]) -> Nat] /\ mm = FrameTokens(dur)
         /\ Len(mm) \in Nat /\ DOMAIN mm = 1..Len(mm) /\ DOMAIN mel = 1..Len(mm) /\ Len(mel) = Len(mm)
         /\ mel = [t \in 1..Len(mm) |-> mel[t]]
         /\ DOMAIN dur = 1..Len(sents[si])
         /\ \A t \in DOMAIN mm : mm[t] \in DOMAIN dur
  <1> DEFINE n == Len(sents[si])
             z == Len(mm)
  <1>1. n \in Nat
    BY DEF LineInv, Working
  <1>2. dur \in [1..n -> Nat] /\ mm = FrameTokens(dur) /\ mel = [t \in DOMAIN mm |-> mel[t]]
    BY DEF SentenceInv
  <1> HIDE DEF n
  <1>3. z \in Nat /\ DOMAIN mm = 1..z /\ \A t \in DOMAIN mm : mm[t] \in 1..n
    BY <1>1, <1>2, FrameFacts
  <1> HIDE DEF z
  <1>4. mel = [t \in 1..z |-> mel[t]]
    BY <1>2, <1>3
  <1>5. DOMAIN mel = 1..z /\ Len(mel) = z
    BY <1>3, <1>4
  <1>6. DOMAIN dur = 1..n
    BY <1>2
  <1> QED BY <1>1, <1>2, <1>3, <1>4, <1>5, <1>6 DEF n, z

LEMMA WindowInv == ASSUME LineInv, SentenceInv, Window PROVE LineInv' /\ SentenceInv'
  <1> DEFINE z == Len(mm)
             S == Starts(z)
             n == Len(S)
             k == win + 1
             real == Less(WB, z)
             from == S[k]
             f == Less(WB, z - from)
  <1>0. yp = "window" /\ UNCHANGED <<split, aco, line, sents, si, dur, mm, c0, wave, audio_out, reply, file>>
    BY DEF Window
  <1>1. LineInv'
    <2>1. Working /\ Working'
      BY <1>0 DEF Window, Working
    <2> QED BY <1>0, <2>1, LineStays
  <1>2. /\ z \in Nat /\ DOMAIN mm = 1..z /\ DOMAIN mel = 1..z
        /\ dur \in [1..Len(sents[si]) -> Nat] /\ mm = FrameTokens(dur)
    BY <1>0, MelFacts
  <1>3. win \in Nat /\ win < n /\ c0 = 0 /\ wave = <<>>
        /\ \A t \in 1..z : t <= win * WB => mel[t] = Made(t)
    BY <1>0, <1>2 DEF SentenceInv
  <1>4. /\ n \in Nat \ {0} /\ (\A j \in 1..n : Less(WB, z - S[j]) = real)
        /\ \A j \in 1..n : \A t \in 1..z :
             /\ j < n => (t <= j * WB <=> t <= (j - 1) * WB \/ (S[j] < t /\ t <= S[j] + real))
             /\ j = n => t <= (j - 1) * WB \/ (S[j] < t /\ t <= S[j] + real)
    BY <1>2, StartsFacts
  <1>5. /\ mel' = [t \in DOMAIN mel |->
                     IF from < t /\ t <= from + f THEN [tok |-> mm[t], real |-> f] ELSE mel[t]]
        /\ win' = k /\ yp' = IF k = n THEN "chunk" ELSE "window"
    BY DEF Window
  <1>6. \A t : Made(t) = [tok |-> mm[t], real |-> real] /\ Made(t)' = Made(t)
    BY <1>0 DEF Made
  <1> HIDE DEF z, S, n, from, f, real
  <1>7. k \in 1..n /\ k - 1 = win /\ k \in Nat
    BY <1>3, <1>4
  <1>8. f = real /\ \A t \in 1..z :
             /\ k < n => (t <= k * WB <=> t <= win * WB \/ (from < t /\ t <= from + f))
             /\ k = n => t <= win * WB \/ (from < t /\ t <= from + f)
    <2>1. Less(WB, z - S[k]) = real
      BY <1>4, <1>7
    <2>2. f = real /\ from = S[k]
      BY <2>1 DEF f, from
    <2>3. \A t \in 1..z :
             /\ k < n => (t <= k * WB <=> t <= (k - 1) * WB \/ (S[k] < t /\ t <= S[k] + real))
             /\ k = n => t <= (k - 1) * WB \/ (S[k] < t /\ t <= S[k] + real)
      BY <1>4, <1>7, Zenon
    <2> HIDE DEF k
    <2> QED BY <1>7, <2>2, <2>3, Zenon
  <1>9. ASSUME NEW t \in 1..z, t <= win * WB \/ (from < t /\ t <= from + f)
        PROVE  mel'[t] = Made(t)
    <2>1. mel'[t] = IF from < t /\ t <= from + f THEN [tok |-> mm[t], real |-> real] ELSE mel[t]
      BY <1>2, <1>5, <1>8
    <2> HIDE DEF k
    <2> QED BY <1>3, <1>6, <1>9, <2>1
  <1> HIDE DEF k
  <1>10. mel' = [t \in DOMAIN mm' |-> mel'[t]]
    BY <1>0, <1>2, <1>5
  <1>11. Len(mm') = z /\ Len(Starts(Len(mm'))) = n
    BY <1>0 DEF z, n, S
  <1>12. CASE k = n
    <2>1. yp' = "chunk" /\ win' = n
      BY <1>5, <1>12
    <2>2. \A t \in DOMAIN mm' : mel'[t] = Made(t)'
      BY <1>0, <1>2, <1>6, <1>8, <1>9, <1>12
    <2>3. c0' \in Nat /\ c0' % CH = 0 /\ Heard(wave', c0', Less(c0', Len(mm')), Len(mm'))
      <3>1. c0' = 0 /\ wave' = <<>>
        BY <1>0, <1>3
      <3>2. Less(0, z) = 0 /\ 0 % CH = 0
        BY <1>2, SynthAssumption DEF Less
      <3>3. Heard(<<>>, 0, 0, z)
        BY EmptySeq DEF Heard
      <3> QED BY <1>11, <3>1, <3>2, <3>3
    <2>4. win' \in 0..Len(Starts(Len(mm')))
      BY <1>4, <1>11, <2>1
    <2>5. SentenceInv'
      BY <1>0, <1>2, <1>10, <2>1, <2>2, <2>3, <2>4 DEF SentenceInv
    <2> QED BY <1>1, <2>5
  <1>13. CASE k # n
    <2>1. yp' = "window" /\ win' = k /\ k < n
      BY <1>4, <1>5, <1>7, <1>13
    <2>2. \A t \in DOMAIN mm' : t <= win' * WB => mel'[t] = Made(t)'
      BY <1>0, <1>2, <1>6, <1>8, <1>9, <2>1
    <2>3. SentenceInv'
      BY <1>0, <1>2, <1>3, <1>7, <1>10, <1>11, <2>1, <2>2 DEF SentenceInv
    <2> QED BY <1>1, <2>3
  <1> QED BY <1>12, <1>13

LEMMA NextMultiple == ASSUME NEW a \in Nat, NEW b \in Nat, b > 0, a % b = 0 PROVE (a + b) % b = 0
  <1> DEFINE r == a \div b + 1
  <1>1. \A x, y \in Nat : y > 0 => x = (x \div y) * y + (x % y)
    OBVIOUS
  <1>2. a \div b \in Nat /\ a = (a \div b) * b
    BY <1>1
  <1>3. r \in Nat
    BY <1>2
  <1>4. a + b = r * b
    <2> DEFINE q == a \div b
    <2>1. q \in Nat /\ a = q * b
      BY <1>2
    <2> HIDE DEF q
    <2>2. a + b = (q + 1) * b
      BY <2>1
    <2> QED BY <2>2 DEF q
  <1> HIDE DEF r
  <1>5. (r * b) % b = 0
    BY <1>3
  <1> QED BY <1>4, <1>5

LEMMA ChunkInv == ASSUME LineInv, SentenceInv, Chunk PROVE LineInv' /\ SentenceInv'
  <1> DEFINE z == Len(mm)
             f == Less(CH, z - c0)
  <1>0. yp = "chunk" /\ c0 < Len(mel)
        /\ UNCHANGED <<split, aco, yp, line, sents, si, dur, mm, win, mel, audio_out, reply, file>>
    BY DEF Chunk
  <1>1. LineInv'
    <2>1. Working /\ Working'
      BY <1>0 DEF Working
    <2> QED BY <1>0, <2>1, LineStays
  <1>2. z \in Nat /\ Len(mel) = z
    BY <1>0, MelFacts
  <1>3. c0 \in Nat /\ c0 % CH = 0 /\ Heard(wave, c0, Less(c0, z), z)
    BY <1>0 DEF SentenceInv
  <1>4. wave' = Crossfaded(wave, [k \in 1..f |-> {c0 + k}]) /\ c0' = c0 + CH
    BY <1>2 DEF Chunk
  <1> HIDE DEF z
  <1>5. Heard(wave', c0', Less(c0', z), z)
    BY <1>0, <1>2, <1>3, <1>4, ChunkIsHeard
  <1>6. c0' \in Nat /\ c0' % CH = 0
    <2>1. CH \in Nat /\ CH > 0
      BY SynthAssumption
    <2>2. (c0 + CH) % CH = 0
      BY <1>3, <2>1, NextMultiple
    <2>3. c0 + CH \in Nat
      BY <1>3, <2>1
    <2> QED BY <1>4, <2>2, <2>3
  <1>7. Len(mm') = z
    BY <1>0 DEF z
  <1>8. \A t : Made(t)' = Made(t)
    BY <1>0 DEF Made
  <1> QED BY <1>0, <1>1, <1>5, <1>6, <1>7, <1>8 DEF SentenceInv

LEMMA EndSentenceInv == ASSUME LineInv, SentenceInv, EndSentence PROVE LineInv' /\ SentenceInv'
  <1>0. /\ yp = "chunk" /\ UNCHANGED <<split, aco, line, sents>>
        /\ audio_out' = Append(audio_out, si)
        /\ dur' = <<>> /\ mm' = <<>> /\ win' = 0 /\ mel' = <<>> /\ c0' = 0 /\ wave' = <<>>
    BY DEF EndSentence
  <1> DEFINE n == Len(sents)
  <1>1. n \in Nat /\ DOMAIN sents = 1..n /\ si \in 1..n /\ reply # "DONE" /\ file = <<>>
        /\ audio_out = [k \in 1..(si - 1) |-> k]
    BY <1>0 DEF LineInv, Working
  <1> HIDE DEF n
  <1>2. audio_out' = [k \in 1..si |-> k]
    <2>1. \A j \in Nat : Append([k \in 1..j |-> k], j + 1) = [k \in 1..(j + 1) |-> k]
      OBVIOUS
    <2>2. si - 1 \in Nat /\ (si - 1) + 1 = si
      BY <1>1
    <2> QED BY <1>0, <1>1, <2>1, <2>2
  <1>3. CASE si = n
    <2>1. file' = audio_out' /\ reply' = "DONE" /\ yp' = "read"
      BY <1>3 DEF EndSentence, n
    <2>2. file' = [k \in DOMAIN sents' |-> k]
      BY <1>0, <1>1, <1>2, <1>3, <2>1
    <2>3. DoneIsWhole'
      BY <2>1, <2>2 DEF DoneIsWhole
    <2> QED BY <1>0, <2>1, <2>3 DEF LineInv, SentenceInv, Working, Says
  <1>4. CASE si # n
    <2>1. si' = si + 1 /\ yp' = "sentence" /\ UNCHANGED <<file, reply>>
      BY <1>4 DEF EndSentence, n
    <2>2. si' \in DOMAIN sents' /\ si' - 1 = si
      BY <1>0, <1>1, <1>4, <2>1
    <2>3. DoneIsWhole'
      BY <1>1, <2>1 DEF DoneIsWhole
    <2>4. audio_out' = [k \in 1..(si' - 1) |-> k]
      BY <1>2, <2>2
    <2> QED BY <1>0, <1>1, <2>1, <2>2, <2>3, <2>4 DEF LineInv, SentenceInv, Working, Says
  <1> QED BY <1>3, <1>4

LEMMA SynthInvAlways == SynthSpec => []SynthInv
  <1>1. SynthInv /\ [SynthNext]_synthVars => SynthInv'
    <2> SUFFICES ASSUME LineInv, SentenceInv, [SynthNext]_synthVars PROVE LineInv' /\ SentenceInv'
      BY DEF SynthInv
    <2>1. CASE \E t \in Lines : ReadLine(t)
      BY <2>1, ReadLineInv
    <2>2. CASE ReadMalformed \/ ReadQuit \/ TooLong \/ UNCHANGED synthVars
      BY <2>2, IdleInv
    <2>3. CASE Expand
      BY <2>3, ExpandInv
    <2>4. CASE Window
      BY <2>4, WindowInv
    <2>5. CASE Chunk
      BY <2>5, ChunkInv
    <2>6. CASE EndSentence
      BY <2>6, EndSentenceInv
    <2> QED BY <2>1, <2>2, <2>3, <2>4, <2>5, <2>6 DEF SynthNext
  <1> QED BY <1>1, InitInv, PTL DEF SynthSpec

\* A line is said as a whole, from its words to its file, or not at all: the loop of
\* synth_matcha that finds the sentences leaves out and doubles no token, whatever
\* the lexicon and the line, and only a whole line is written and answered DONE.
THEOREM LineIsSaidAsWritten == SynthSpec => []LineIsSaid
  <1>1. SynthInv => LineIsSaid
    <2> SUFFICES ASSUME LineInv, SentenceInv PROVE LineIsSaid
      BY DEF SynthInv
    <2>1. NothingUnsaid /\ DoneIsWhole
      BY SaysNothingUnsaid DEF LineInv
    <2>2. SynthTypeOK
      <3>1. CASE yp \in {"window", "chunk"}
        <4>1. DOMAIN mel = DOMAIN mm /\ \A t \in DOMAIN mm : mm[t] \in DOMAIN dur
          BY <3>1, MelFacts
        <4>2. win \in 0..Len(Starts(Len(mm)))
          <5>1. Len(mm) \in Nat
            BY <3>1, MelFacts
          <5>2. Len(Starts(Len(mm))) \in Nat
            BY <5>1, StartsFacts
          <5> QED BY <3>1, <5>2 DEF SentenceInv
        <4> QED BY <3>1, <4>1, <4>2 DEF SynthTypeOK, LineInv, Working
      <3>2. CASE yp \notin {"window", "chunk"}
        <4>1. mm = <<>> /\ mel = <<>> /\ win = 0
          BY <3>2 DEF SentenceInv
        <4>2. Len(mm) = 0 /\ DOMAIN mm = {}
          BY <4>1
        <4>3. Len(Starts(Len(mm))) \in Nat
          BY <4>2, StartsFacts
        <4> QED BY <4>1, <4>2, <4>3 DEF SynthTypeOK, LineInv, Working
      <3> QED BY <3>1, <3>2
    <2> QED BY <2>1, <2>2 DEF LineIsSaid
  <1> QED BY <1>1, SynthInvAlways, PTL

\* The frames keep to the durations, each is made from its own token in a window as
\* full as can be, and each is heard once, in its place, whatever the sizes of the
\* windows and the chunks and however many frames the durations come to.
THEOREM FramesAlwaysInPlace == SynthSpec => []FramesInPlace
  <1>1. SynthInv => FramesInPlace
    <2> SUFFICES ASSUME LineInv, SentenceInv PROVE FramesInPlace
      BY DEF SynthInv
    <2>1. NoDrift
      <3> SUFFICES ASSUME yp = "window", NEW n \in DOMAIN dur
                   PROVE  LET frames == Cardinality({t \in DOMAIN mm : mm[t] <= n})
                          IN  2 * frames <= Sum(dur, n) /\ Sum(dur, n) < 2 * frames + 2
        BY DEF NoDrift
      <3>1. Len(sents[si]) \in Nat /\ dur \in [1..Len(sents[si]) -> Nat] /\ mm = FrameTokens(dur)
            /\ n \in 1..Len(sents[si])
        BY MelFacts
      <3> QED BY <3>1, FramesDoNotDrift
    <2>2. WindowsAreFull
      BY DEF WindowsAreFull, SentenceInv, Made
    <2>3. EveryFrameHeard
      <3> SUFFICES ASSUME yp = "chunk" PROVE EveryFrameHeard
        BY DEF EveryFrameHeard
      <3> DEFINE h == Less(c0, Len(mel))
      <3>1. Heard(wave, c0, h, Len(mel))
        <4>1. Len(mel) = Len(mm)
          BY MelFacts
        <4> QED BY <4>1 DEF SentenceInv
      <3>2. h \in Nat
        <4>1. Len(mel) \in Nat /\ c0 \in Nat
          BY MelFacts DEF SentenceInv
        <4> QED BY <4>1 DEF Less
      <3> HIDE DEF h
      <3>3. UNION {wave[k] : k \in DOMAIN wave} = 1..h
        <4>1. \A t \in 1..h : \E k \in DOMAIN wave : t \in wave[k]
          BY <3>1 DEF Heard
        <4>2. \A k \in DOMAIN wave : wave[k] \subseteq 1..h
          <5> TAKE k \in DOMAIN wave
          <5>1. PICK t \in 1..h : wave[k] = {t} \/ (wave[k] = {t, t + 1} /\ t + 1 <= h)
            BY <3>1 DEF Heard
          <5>2. t + 1 <= h => t + 1 \in 1..h
            BY <3>2
          <5> QED BY <5>1, <5>2
        <4> QED BY <4>1, <4>2
      <3>4. \A k, l \in DOMAIN wave : k < l => \A t \in wave[k], u \in wave[l] : t < u
        BY <3>1 DEF Heard
      <3>5. ASSUME NEW k \in DOMAIN wave, Cardinality(wave[k]) > 1
            PROVE  \E t \in wave[k] : t % CH = 0 /\ wave[k] = {t, t + 1}
        <4>1. PICK t \in 1..h : wave[k] = {t} \/ (wave[k] = {t, t + 1} /\ t % CH = 0)
          BY <3>1 DEF Heard
        <4>2. wave[k] # {t}
          <5>1. Cardinality({t}) = 1
            BY FS_Singleton
          <5> QED BY <3>5, <5>1
        <4> QED BY <4>1, <4>2
      <3> QED BY <3>3, <3>4, <3>5 DEF EveryFrameHeard, h
    <2> QED BY <2>1, <2>2, <2>3 DEF FramesInPlace
  <1> QED BY <1>1, SynthInvAlways, PTL

-----------------------------------------------------------------------------
(* Characters: they are not empty and make up the text.                       *)

CharSize(s, p) ==
  LET rest == Len(s) - p + 1 IN IF CharLen(s[p]) < rest THEN CharLen(s[p]) ELSE rest

\* f gives the characters from each place of the text on.
FromChars(f, s) ==
  f = [p \in 1..(Len(s) + 1) |->
         IF p > Len(s) THEN <<>>
         ELSE <<SubSeq(s, p, p + CharSize(s, p) - 1)>> \o f[p + CharSize(s, p)]]

LEMMA CharSizes ==
  ASSUME NEW s \in Seq(0..255), NEW p \in 1..Len(s)
  PROVE  CharSize(s, p) \in Nat /\ 1 <= CharSize(s, p) /\ p + CharSize(s, p) <= Len(s) + 1
  <1>1. CharLen(s[p]) \in 1..4
    BY DEF CharLen
  <1> DEFINE c == CharLen(s[p])
  <1>2. Len(s) \in Nat /\ CharSize(s, p) = IF c < Len(s) - p + 1 THEN c ELSE Len(s) - p + 1
    BY DEF CharSize
  <1> HIDE DEF c
  <1>3. c \in 1..4
    BY <1>1 DEF c
  <1> QED BY <1>2, <1>3

LEMMA FromCharsExists ==
  ASSUME NEW s \in Seq(0..255) PROVE \E f : FromChars(f, s)
  <1> DEFINE l == Len(s)
             val == [p \in 1..l |-> <<SubSeq(s, p, p + CharSize(s, p) - 1)>>]
             next == [p \in 1..l |-> p + CharSize(s, p)]
  <1>0. l \in Nat
    OBVIOUS
  <1>1. \A p \in 1..l : next[p] \in (p + 1)..(l + 1)
    BY CharSizes
  <1>2. PICK f : FromPlace(f, val, next, l, 1)
    <2> HIDE DEF l, val, next
    <2> QED BY <1>0, <1>1, DownRecursion
  <1>3. \A p \in 1..(l + 1) : ~(p > l) => p \in 1..l
    BY <1>0
  <1>4. f = [p \in 1..(l + 1) |-> IF p > l THEN <<>> ELSE val[p] \o f[next[p]]]
    BY <1>2 DEF FromPlace
  <1>5. \A p \in 1..(l + 1) :
          (IF p > l THEN <<>> ELSE val[p] \o f[next[p]])
            = IF p > l THEN <<>>
              ELSE <<SubSeq(s, p, p + CharSize(s, p) - 1)>> \o f[p + CharSize(s, p)]
    BY <1>3, Zenon
  <1>6. f = [p \in 1..(l + 1) |->
               IF p > l THEN <<>>
               ELSE <<SubSeq(s, p, p + CharSize(s, p) - 1)>> \o f[p + CharSize(s, p)]]
    <2>1. f = [p \in 1..(l + 1) |-> f[p]]
      BY <1>4
    <2>2. \A p \in 1..(l + 1) : f[p] = IF p > l THEN <<>> ELSE val[p] \o f[next[p]]
      <3> HIDE DEF val, next, l
      <3> QED BY <1>4, Zenon
    <2>3. \A p \in 1..(l + 1) :
            f[p] = IF p > l THEN <<>>
                   ELSE <<SubSeq(s, p, p + CharSize(s, p) - 1)>> \o f[p + CharSize(s, p)]
      <3> HIDE DEF val, next, l
      <3> QED BY <2>2, <1>5, Zenon
    <2> HIDE DEF l, val, next
    <2> QED BY <2>1, <2>3, Zenon
  <1> QED BY <1>6, Zenon DEF FromChars

LEMMA CharactersFacts ==
  ASSUME NEW s \in Seq(0..255)
  PROVE  /\ Characters(s) \in Seq(Seq(0..255) \ {<<>>})
         /\ Len(Characters(s)) <= Len(s)
         /\ FlattenSeq(Characters(s)) = s
  <1> DEFINE f == CHOOSE g : FromChars(g, s)
             S == 0..255
             W == Seq(0..255) \ {<<>>}
             l == Len(s)
             T == {p \in 1..(l + 1) : /\ f[p] \in Seq(W) /\ Len(f[p]) <= l + 1 - p
                                      /\ FlattenSeq(f[p]) = SubSeq(s, p, l)}
  <1>0. l \in Nat
    OBVIOUS
  <1>1. FromChars(f, s)
    BY FromCharsExists, Zenon
  <1>2. Characters(s) = f[1]
    BY Zenon DEF Characters, FromChars, CharSize
  <1> HIDE DEF f
  <1>3. \A p \in 1..(l + 1) :
          f[p] = IF p > l THEN <<>>
                 ELSE <<SubSeq(s, p, p + CharSize(s, p) - 1)>> \o f[p + CharSize(s, p)]
    BY <1>1, Zenon DEF FromChars
  <1>4. ASSUME NEW p \in 1..(l + 1), \A q \in (p + 1)..(l + 1) : q \in T
        PROVE  p \in T
    <2>1. CASE p > l
      <3>1. f[p] = <<>> /\ p = l + 1
        <4> HIDE DEF l, T
        <4>1. f[p] = <<>>
          BY <1>3, <2>1
        <4> QED BY <1>0, <2>1, <4>1
      <3>2. FlattenSeq(<<>>) = <<>> /\ <<>> \in Seq(W) /\ Len(<<>>) = 0
        BY FlattenType, EmptySeq
      <3>3. SubSeq(s, p, l) = <<>>
        BY <1>0, <3>1, SubSeqEmpty
      <3>4. Len(f[p]) <= l + 1 - p
        BY <1>0, <3>1, <3>2
      <3> QED BY <3>1, <3>2, <3>3, <3>4, Zenon
    <2>2. CASE ~(p > l)
      <3> DEFINE q == p + CharSize(s, p)
                 c == SubSeq(s, p, q - 1)
      <3>1. p \in 1..l /\ q \in (p + 1)..(l + 1)
        BY <1>0, <2>2, CharSizes
      <3>2. f[p] = <<c>> \o f[q]
        <4>1. f[p] = <<SubSeq(s, p, p + CharSize(s, p) - 1)>> \o f[p + CharSize(s, p)]
          <5> HIDE DEF l, T
          <5> QED BY <1>3, <2>2, Zenon
        <4>2. CharSize(s, p) \in Nat /\ p \in Nat
          BY <3>1, CharSizes
        <4>3. p + CharSize(s, p) - 1 = q - 1
          BY <4>2
        <4> QED BY <4>1, <4>3, Zenon
      <3> HIDE DEF q
      <3>3. f[q] \in Seq(W) /\ Len(f[q]) <= l + 1 - q /\ FlattenSeq(f[q]) = SubSeq(s, q, l)
        BY <1>4, <3>1
      <3>4. c \in Seq(S) /\ Len(c) = q - p
        <4> DEFINE b == q - 1
        <4>1. b \in Nat /\ p \in Nat /\ 1 <= p /\ p <= b + 1 /\ b <= l /\ b - p + 1 = q - p
          BY <1>0, <3>1
        <4> HIDE DEF b
        <4>2. SubSeq(s, p, b) \in Seq(S) /\ Len(SubSeq(s, p, b)) = b - p + 1
          BY <4>1, PartFacts, ZenonT(60)
        <4> QED BY <4>1, <4>2 DEF b
      <3>5. c \in W
        <4> HIDE DEF l, T, c
        <4>1. Len(c) # 0
          BY <3>1, <3>4
        <4> QED BY <3>4, <4>1, EmptySeq
      <3>6. c \o SubSeq(s, q, l) = SubSeq(s, p, l)
        <4>1. q - 1 \in Nat /\ (q - 1) + 1 = q /\ p <= (q - 1) + 1 /\ q - 1 <= l /\ p \in Nat
          BY <1>0, <3>1
        <4>2. SubSeq(s, p, q - 1) \o SubSeq(s, (q - 1) + 1, l) = SubSeq(s, p, l)
          <5> DEFINE b == q - 1
          <5>1. b \in Nat /\ p <= b + 1 /\ b <= l /\ 1 <= p
            BY <3>1, <4>1
          <5> HIDE DEF b
          <5>2. SubSeq(s, p, b) \o SubSeq(s, b + 1, l) = SubSeq(s, p, l)
            <6>1. p \in Nat /\ l \in Nat /\ l <= Len(s)
              BY <1>0, <4>1
            <6> HIDE DEF l
            <6> QED BY <5>1, <6>1, PartsJoin
          <5> QED BY <5>2 DEF b
        <4> QED BY <4>1, <4>2
      <3> HIDE DEF c
      <3>7. f[p] \in Seq(W) /\ Len(f[p]) = 1 + Len(f[q])
        BY <3>2, <3>3, <3>5
      <3>8. FlattenSeq(f[p]) = FlattenSeq(<<c>>) \o FlattenSeq(f[q]) /\ FlattenSeq(<<c>>) = c
        <4>1. <<c>> \in Seq(Seq(S)) /\ f[q] \in Seq(Seq(S))
          BY <3>3, <3>4, SeqMonotonic
        <4> HIDE DEF S, T, W, l
        <4>2. FlattenSeq(<<c>> \o f[q]) = FlattenSeq(<<c>>) \o FlattenSeq(f[q])
          BY <4>1, FlattenOfTwo
        <4>3. FlattenSeq(<<c>>) = c
          BY <3>4, FlattenOfOne
        <4> QED BY <3>2, <4>2, <4>3
      <3>9. Len(f[p]) <= l + 1 - p
        <4> HIDE DEF T, l
        <4>1. Len(f[q]) \in Nat
          BY <3>3, LenProperties
        <4> QED BY <1>0, <3>1, <3>3, <3>7, <4>1
      <3>10. FlattenSeq(f[p]) = SubSeq(s, p, l)
        BY <3>3, <3>6, <3>8, Zenon
      <3> QED BY <3>7, <3>9, <3>10
    <2> QED BY <2>1, <2>2
  <1>5. 1..(l + 1) \subseteq T
    <2> HIDE DEF T, l
    <2> QED BY <1>0, <1>4, DownInduction
  <1>6. 1 \in T
    <2> HIDE DEF T, l
    <2> QED BY <1>0, <1>5
  <1>7. SubSeq(s, 1, l) = s
    OBVIOUS
  <1> QED BY <1>0, <1>2, <1>6, <1>7

-----------------------------------------------------------------------------
(* The list of symbols.                                                       *)

Symbols == Seq([piece : Seq(0..255), prev : Nat, next : Nat])

\* What the links of any symbol, merged or not, may be.
Linked(s) ==
  \A k \in DOMAIN s : s[k].prev \in 0..(k - 1) /\ s[k].next \in {0} \cup (k + 1)..Len(s)

\* P gives the symbols that are left, from the first to the last.
Listed(P, s) ==
  /\ P \in Seq(Nat)
  /\ s # <<>> => Len(P) > 0 /\ P[1] = 1
  /\ \A j \in 1..Len(P) : /\ P[j] \in 1..Len(s) /\ s[P[j]].piece # <<>>
                          /\ s[P[j]].prev = IF j = 1 THEN 0 ELSE P[j - 1]
                          /\ s[P[j]].next = IF j = Len(P) THEN 0 ELSE P[j + 1]
  /\ \A i, j \in 1..Len(P) : i < j => P[i] < P[j]
  /\ \A k \in 1..Len(s) : s[k].piece # <<>> => \E j \in 1..Len(P) : P[j] = k

PiecesOf(P, s) == [j \in 1..Len(P) |-> s[P[j]].piece]

FromLink(f, s) ==
  f = [k \in DOMAIN s |->
         <<s[k].piece>> \o (IF s[k].next = 0 THEN <<>> ELSE f[s[k].next])]

LEMMA FromLinkExists ==
  ASSUME NEW s \in Symbols, Linked(s) PROVE \E f : FromLink(f, s)
  <1> DEFINE l == Len(s)
             val == [k \in 1..l |-> <<s[k].piece>>]
             next == [k \in 1..l |-> IF s[k].next = 0 THEN l + 1 ELSE s[k].next]
  <1>0. l \in Nat /\ DOMAIN s = 1..l
    BY DEF Symbols
  <1>1. ASSUME NEW k \in 1..l PROVE next[k] \in (k + 1)..(l + 1)
    <2>1. s[k].next \in {0} \cup (k + 1)..l
      BY <1>0, Zenon DEF Linked
    <2> QED BY <1>0, <2>1
  <1>2. PICK f : FromPlace(f, val, next, l, 1)
    <2> HIDE DEF l, val, next
    <2> QED BY <1>0, <1>1, DownRecursion
  <1>3. \A k \in 1..(l + 1) : f[k] = IF k > l THEN <<>> ELSE val[k] \o f[next[k]]
    <2> HIDE DEF l, val, next
    <2> QED BY <1>2, Zenon DEF FromPlace
  <1> DEFINE g == [k \in DOMAIN s |-> f[k]]
  <1>4. ASSUME NEW k \in DOMAIN s
        PROVE  g[k] = <<s[k].piece>> \o (IF s[k].next = 0 THEN <<>> ELSE g[s[k].next])
    <2>1. k \in 1..l /\ k \in 1..(l + 1) /\ ~(k > l) /\ l + 1 \in 1..(l + 1) /\ l + 1 > l
      <3> HIDE DEF l, val, next
      <3> QED BY <1>0
    <2>2. g[k] = <<s[k].piece>> \o f[IF s[k].next = 0 THEN l + 1 ELSE s[k].next]
      <3>1. f[k] = val[k] \o f[next[k]]
        <4> HIDE DEF l, val, next
        <4> QED BY <1>3, <2>1, Zenon
      <3>2. val[k] = <<s[k].piece>> /\ next[k] = IF s[k].next = 0 THEN l + 1 ELSE s[k].next
        BY <2>1
      <3>3. g[k] = f[k]
        BY Zenon
      <3> HIDE DEF val, next, g, l
      <3> QED BY <3>1, <3>2, <3>3, Zenon
    <2>3. f[l + 1] = <<>>
      <3> HIDE DEF l, val, next
      <3> QED BY <1>3, <2>1, Zenon
    <2>4. s[k].next # 0 => s[k].next \in DOMAIN s
      <3>1. s[k].next \in {0} \cup (k + 1)..l
        BY <1>0, Zenon DEF Linked
      <3> HIDE DEF l
      <3> QED BY <1>0, <2>1, <3>1
    <2>5. s[k].next # 0 => g[s[k].next] = f[s[k].next]
      BY <2>4, Zenon
    <2> HIDE DEF g, l
    <2> QED BY <2>2, <2>3, <2>5
  <1>5. g = [k \in DOMAIN s |-> g[k]]
    OBVIOUS
  <1>6. FromLink(g, s)
    <2> HIDE DEF g
    <2> QED BY <1>4, <1>5, Zenon DEF FromLink
  <1> QED BY <1>6

LEMMA ChainIsListed ==
  ASSUME NEW P, NEW s \in Symbols, Linked(s), Listed(P, s)
  PROVE  Chain(s) = PiecesOf(P, s)
  <1> DEFINE f == CHOOSE g : FromLink(g, s)
             n == Len(P)
             R(d) == [i \in 1..(d + 1) |-> s[P[n - d + i - 1]].piece]
             T == {d \in Nat : d < n => f[P[n - d]] = R(d)}
  <1>0. n \in Nat /\ \A k \in 1..n : P[k] \in DOMAIN s
    BY DEF Listed, Symbols
  <1>1. FromLink(f, s)
    BY FromLinkExists, Zenon
  <1>2. Chain(s) = IF s = <<>> THEN <<>> ELSE f[1]
    BY Zenon DEF Chain, FromLink
  <1> HIDE DEF f
  <1>3. \A k \in DOMAIN s :
          f[k] = <<s[k].piece>> \o
                   (IF s[k].next = 0 THEN <<>> ELSE f[s[k].next])
    BY <1>1, Zenon DEF FromLink
  <1>4. \A j \in 1..n : s[P[j]].next = IF j = n THEN 0 ELSE P[j + 1]
    BY DEF Listed
  <1>5. \A j \in 1..n : P[j] # 0 /\ s[P[j]].piece \in Seq(0..255)
    <2>1. \A k \in DOMAIN s : s[k].piece \in Seq(0..255) /\ k # 0
      <3>1. ASSUME NEW k \in DOMAIN s PROVE s[k].piece \in Seq(0..255) /\ k # 0
        <4>1. k \in 1..Len(s)
          BY DEF Symbols
        <4>2. s[k] \in [piece : Seq(0..255), prev : Nat, next : Nat]
          BY <4>1, ElementOfSeq DEF Symbols
        <4> QED BY <4>1, <4>2
      <3> QED BY <3>1
    <2> QED BY <1>0, <2>1
  <1>6. 0 \in T
    <2> SUFFICES ASSUME 0 < n PROVE f[P[n - 0]] = R(0)
      OBVIOUS
    <2>1. n \in 1..n /\ n - 0 = n
      BY <1>0
    <2>2. f[P[n]] = <<s[P[n]].piece>> \o <<>>
      BY <1>0, <1>3, <1>4, <2>1
    <2>3. R(0) = <<s[P[n]].piece>>
      <3>1. R(0) = [i \in 1..1 |-> s[P[n - 0 + i - 1]].piece]
        OBVIOUS
      <3>2. \A i \in 1..1 : n - 0 + i - 1 = n
        BY <1>0
      <3> QED BY <3>1, <3>2
    <2>4. <<s[P[n]].piece>> \o <<>> = <<s[P[n]].piece>>
      BY <1>5, <2>1, ConcatEmptySeq
    <2> QED BY <2>1, <2>2, <2>3, <2>4
  <1>7. ASSUME NEW d \in Nat, d \in T PROVE d + 1 \in T
    <2> SUFFICES ASSUME d + 1 < n PROVE f[P[n - (d + 1)]] = R(d + 1)
      OBVIOUS
    <2> DEFINE j == n - (d + 1)
    <2>1. j \in 1..n /\ j # n /\ j + 1 = n - d /\ j + 1 \in 1..n
      BY <1>0
    <2>2. f[P[j + 1]] = R(d)
      <3>1. d < n /\ n - d = j + 1
        <4> HIDE DEF n, j
        <4> QED BY <1>0, <2>1
      <3>2. f[P[n - d]] = R(d)
        BY <1>7, <3>1
      <3> QED BY <3>1, <3>2
    <2> HIDE DEF j
    <2>3. f[P[j]] = <<s[P[j]].piece>> \o R(d)
      <3>1. s[P[j]].next = P[j + 1] /\ P[j + 1] # 0 /\ P[j] \in DOMAIN s
        BY <1>0, <1>4, <1>5, <2>1
      <3> HIDE DEF R, n
      <3> QED BY <1>3, <2>2, <3>1, Zenon
    <2>4. R(d) \in Seq(Seq(0..255)) /\ Len(R(d)) = d + 1
      <3>1. \A i \in 1..(d + 1) : n - d + i - 1 \in 1..n
        BY <1>0, <2>1
      <3> QED BY <1>5, <3>1
    <2>5. R(d + 1) \in Seq(Seq(0..255)) /\ Len(R(d + 1)) = d + 2
      <3>1. \A i \in 1..(d + 1 + 1) : n - (d + 1) + i - 1 \in 1..n
        <4> HIDE DEF n
        <4> QED BY <1>0, <2>1 DEF j
      <3> QED BY <1>5, <3>1
    <2> DEFINE x == s[P[j]].piece
    <2>6. x \in Seq(0..255)
      BY <1>5, <2>1
    <2>7. /\ R(d + 1)[1] = x
          /\ \A i \in 2..(d + 2) : R(d + 1)[i] = R(d)[i - 1]
      <3>1. 1 \in 1..(d + 1 + 1) /\ n - (d + 1) + 1 - 1 = j
        BY <1>0 DEF j
      <3>2. R(d + 1)[1] = x
        BY <3>1
      <3>3. ASSUME NEW i \in 2..(d + 2) PROVE R(d + 1)[i] = R(d)[i - 1]
        <4>1. i \in 1..(d + 1 + 1) /\ i - 1 \in 1..(d + 1)
              /\ n - (d + 1) + i - 1 = n - d + (i - 1) - 1
          BY <1>0
        <4> QED BY <4>1
      <3> QED BY <3>2, <3>3
    <2> HIDE DEF R, x
    <2>8. <<x>> \o R(d) = R(d + 1)
      <3> DEFINE u == <<x>> \o R(d)
      <3>1. /\ u \in Seq(Seq(0..255)) /\ Len(u) = d + 2 /\ u[1] = x
            /\ \A i \in 2..(d + 2) : u[i] = R(d)[i - 1]
        BY <2>4, <2>6
      <3> HIDE DEF u
      <3>2. \A i \in 1..Len(u) : i = 1 \/ i \in 2..(d + 2)
        BY <3>1
      <3>3. \A i \in 1..Len(u) : u[i] = R(d + 1)[i]
        BY <2>7, <3>1, <3>2
      <3>4. u = R(d + 1)
        BY <2>5, <3>1, <3>3, SeqEqual
      <3> QED BY <3>4 DEF u
    <2> QED BY <2>3, <2>8 DEF j, x
  <1>8. Nat \subseteq T
    <2> HIDE DEF T
    <2> QED BY <1>6, <1>7, SetInduction
  <1>9. CASE s = <<>>
    <2>1. n = 0
      <3>1. \A k \in 1..n : FALSE
        BY <1>0, <1>9
      <3> HIDE DEF n
      <3> QED BY <1>0, <3>1
    <2>2. PiecesOf(P, s) = <<>>
      BY <2>1 DEF PiecesOf
    <2> QED BY <1>2, <1>9, <2>2
  <1>10. CASE s # <<>>
    <2>1. n > 0 /\ P[1] = 1
      BY <1>10 DEF Listed
    <2>2. n - 1 \in Nat /\ n - 1 < n /\ n - (n - 1) = 1
      <3> HIDE DEF n
      <3> QED BY <1>0, <2>1
    <2>3. n - 1 \in T
      BY <1>8, <2>2, Zenon
    <2>4. f[1] = R(n - 1)
      BY <2>1, <2>2, <2>3
    <2>5. R(n - 1) = [i \in 1..n |-> s[P[i]].piece]
      <3>1. (n - 1) + 1 = n /\ \A i \in 1..n : n - (n - 1) + i - 1 = i
        <4> HIDE DEF n
        <4> QED BY <1>0
      <3> QED BY <3>1
    <2> QED BY <1>2, <1>10, <2>4, <2>5 DEF PiecesOf
  <1> QED BY <1>9, <1>10

-----------------------------------------------------------------------------
(* The vocabulary, and the best merge.                                        *)

Vocabularies == Seq([piece : Seq(Nat), score : Int, type : STRING])

LEMMA FirstOfIs ==
  ASSUME NEW T, T \subseteq Nat, T # {}
  PROVE  FirstOf(T) \in T /\ \A l \in T : FirstOf(T) <= l
  <1>1. \E k \in T : \A l \in T : k <= l
    BY LeastNat
  <1> QED BY <1>1, Zenon DEF FirstOf

LEMMA EntriesType ==
  ASSUME NEW v \in Vocabularies, NEW p, NEW b
  PROVE  Entries(v, p, b) \subseteq Nat /\ DOMAIN v = 1..Len(v)
  <1>1. DOMAIN v = 1..Len(v)
    BY LenProperties DEF Vocabularies
  <1> QED BY <1>1 DEF Entries

LEMMA ScoreType ==
  ASSUME NEW v \in Vocabularies, NEW p, IsPiece(v, p)
  PROVE  Score(v, p) \in Int
  <1> DEFINE e == Entries(v, p, TRUE)
  <1>1. e \subseteq Nat /\ e # {}
    BY EntriesType DEF IsPiece
  <1> HIDE DEF e
  <1>2. FirstOf(e) \in e
    BY <1>1, FirstOfIs
  <1>3. FirstOf(e) \in 1..Len(v)
    BY <1>2, EntriesType DEF e, Entries
  <1>4. v[FirstOf(e)] \in [piece : Seq(Nat), score : Int, type : STRING]
    BY <1>3, ElementOfSeq DEF Vocabularies
  <1> QED BY <1>4 DEF Score, e

LEMMA AbleType ==
  ASSUME NEW v, NEW w, Len(w) \in Nat
  PROVE  Able(v, w) \subseteq Nat /\ \A k \in Able(v, w) : k \in 1..(Len(w) - 1)
  BY DEF Able

\* The best of the neighbours that make a piece, when it is known which one it is.
LEMMA BestIs ==
  ASSUME NEW v \in Vocabularies, NEW w, Len(w) \in Nat, NEW j \in Able(v, w),
         \A l \in Able(v, w) :
           \/ Score(v, w[l] \o w[l + 1]) < Score(v, w[j] \o w[j + 1])
           \/ Score(v, w[l] \o w[l + 1]) = Score(v, w[j] \o w[j + 1]) /\ j <= l
  PROVE  BestOf(v, w) = j
  <1> DEFINE able == Able(v, w)
             score == [k \in able |-> Score(v, w[k] \o w[k + 1])]
             best == {k \in able : \A l \in able : score[l] <= score[k]}
  <1>1. BestOf(v, w) = FirstOf(best)
    <2>1. best = {k \in able : \A l \in able :
                    Score(v, w[l] \o w[l + 1]) <= Score(v, w[k] \o w[k + 1])}
      OBVIOUS
    <2> HIDE DEF best
    <2> QED BY <2>1, Zenon DEF BestOf
  <1>2. \A k \in able : score[k] \in Int
    <2>1. ASSUME NEW k \in able PROVE Score(v, w[k] \o w[k + 1]) \in Int
      <3>1. IsPiece(v, w[k] \o w[k + 1])
        BY DEF Able
      <3> QED BY <3>1, ScoreType
    <2> QED BY <2>1
  <1>3. able \subseteq Nat
    BY AbleType
  <1>4. \A l \in able : score[l] < score[j] \/ (score[l] = score[j] /\ j <= l)
    OBVIOUS
  <1>5. j \in able
    OBVIOUS
  <1> HIDE DEF able, score
  <1>6. j \in best /\ \A k \in best : j <= k
    BY <1>2, <1>3, <1>4, <1>5
  <1>7. best \subseteq Nat
    BY <1>3
  <1> HIDE DEF best
  <1>8. FirstOf(best) \in best /\ \A l \in best : FirstOf(best) <= l
    BY <1>6, <1>7, FirstOfIs
  <1>9. FirstOf(best) <= j /\ j <= FirstOf(best) /\ FirstOf(best) \in Nat /\ j \in Nat
    BY <1>6, <1>7, <1>8
  <1> QED BY <1>1, <1>9

-----------------------------------------------------------------------------
(* One merge: the symbols.                                                    *)

LEMMA SymbolType ==
  ASSUME NEW s \in Symbols
  PROVE  /\ DOMAIN s = 1..Len(s) /\ Len(s) \in Nat
         /\ \A k \in 1..Len(s) :
              /\ s[k] = [piece |-> s[k].piece, prev |-> s[k].prev, next |-> s[k].next]
              /\ s[k].piece \in Seq(0..255) /\ s[k].prev \in Nat /\ s[k].next \in Nat
  <1>1. DOMAIN s = 1..Len(s) /\ Len(s) \in Nat
    BY LenProperties DEF Symbols
  <1>2. \A k \in 1..Len(s) : s[k] \in [piece : Seq(0..255), prev : Nat, next : Nat]
    BY ElementOfSeq DEF Symbols
  <1> QED BY <1>1, <1>2

LEMMA JoinedIs ==
  ASSUME NEW s \in Symbols, Linked(s), NEW l \in 1..Len(s), NEW r \in (l + 1)..Len(s)
  PROVE  LET t == Joined(s, l, r)
         IN  /\ t \in Symbols /\ Len(t) = Len(s) /\ Linked(t)
             /\ \A k \in 1..Len(s) :
                  /\ t[k].piece = IF k = l THEN s[l].piece \o s[r].piece
                                  ELSE IF k = r THEN <<>> ELSE s[k].piece
                  /\ t[k].next = IF k = l THEN s[r].next ELSE s[k].next
                  /\ t[k].prev = IF k = s[r].next THEN l ELSE s[k].prev
  <1> DEFINE t == Joined(s, l, r)
             after == s[r].next
             m == Len(s)
             Rec == [piece : Seq(0..255), prev : Nat, next : Nat]
  <1>0. /\ DOMAIN s = 1..m /\ m \in Nat
        /\ \A k \in 1..m : s[k] \in Rec
    BY SymbolType, ElementOfSeq DEF Symbols
  <1>1. l \in 1..m /\ r \in 1..m /\ l < r /\ l # r /\ l \in Nat /\ r \in Nat
    BY <1>0
  <1>2. after \in {0} \cup (r + 1)..m
    BY <1>0, <1>1 DEF Linked
  <1>3. s[l].piece \o s[r].piece \in Seq(0..255)
    <2>1. s[l].piece \in Seq(0..255) /\ s[r].piece \in Seq(0..255)
      BY <1>0, <1>1
    <2> QED BY <2>1, ConcatProperties
  <1>4. t = [k \in 1..m |->
               [piece |-> IF k = l THEN s[l].piece \o s[r].piece
                          ELSE IF k = r THEN <<>> ELSE s[k].piece,
                prev |-> IF k = after THEN l ELSE s[k].prev,
                next |-> IF k = l THEN after ELSE s[k].next]]
    BY <1>0 DEF Joined
  <1>9. DOMAIN t = 1..m /\ t = [k \in 1..m |-> t[k]]
    <2> HIDE DEF m, after
    <2> QED BY <1>4
  <1> HIDE DEF t
  <1>5. ASSUME NEW k \in 1..m
        PROVE  /\ t[k] \in Rec
               /\ t[k].piece = IF k = l THEN s[l].piece \o s[r].piece
                               ELSE IF k = r THEN <<>> ELSE s[k].piece
               /\ t[k].next = IF k = l THEN after ELSE s[k].next
               /\ t[k].prev = IF k = after THEN l ELSE s[k].prev
    <2>1. s[k] \in Rec /\ after \in Nat /\ <<>> \in Seq(0..255)
      BY <1>0, <1>1, EmptySeq
    <2>2. t[k] = [piece |-> IF k = l THEN s[l].piece \o s[r].piece
                            ELSE IF k = r THEN <<>> ELSE s[k].piece,
                  prev |-> IF k = after THEN l ELSE s[k].prev,
                  next |-> IF k = l THEN after ELSE s[k].next]
      <3> HIDE DEF m, after
      <3> QED BY <1>4
    <2> HIDE DEF m, after
    <2> QED BY <1>1, <1>3, <2>1, <2>2
  <1>6. t \in Symbols /\ Len(t) = m
    <2>1. t \in [1..m -> Rec]
      <3>1. t = [k \in 1..m |-> t[k]]
        BY <1>9
      <3>2. \A k \in 1..m : t[k] \in Rec
        BY <1>5
      <3> HIDE DEF Rec
      <3> QED BY <3>1, <3>2, Zenon
    <2> HIDE DEF Rec
    <2>2. t \in Seq(Rec) /\ Len(t) = m
      BY <1>0, <2>1
    <2> QED BY <2>2 DEF Symbols, Rec
  <1>7. Linked(t)
    <2>1. ASSUME NEW k \in 1..m
          PROVE  t[k].prev \in 0..(k - 1) /\ t[k].next \in {0} \cup (k + 1)..m
      <3>1. s[k].prev \in 0..(k - 1) /\ s[k].next \in {0} \cup (k + 1)..m
        BY <1>0 DEF Linked
      <3>2. t[k].prev = IF k = after THEN l ELSE s[k].prev
        BY <1>5
      <3>3. t[k].next = IF k = l THEN after ELSE s[k].next
        BY <1>5
      <3>4. t[k].prev \in 0..(k - 1)
        <4>1. k = after => l \in 0..(k - 1)
          <5> HIDE DEF m, after
          <5> QED BY <1>0, <1>1, <1>2
        <4> QED BY <3>1, <3>2, <4>1
      <3>5. t[k].next \in {0} \cup (k + 1)..m
        <4>1. after \in {0} \cup (l + 1)..m
          <5> HIDE DEF m, after
          <5> QED BY <1>0, <1>1, <1>2
        <4> QED BY <3>1, <3>3, <4>1
      <3> QED BY <3>4, <3>5
    <2>2. DOMAIN t = 1..m
      BY <1>9
    <2> QED BY <1>6, <2>1, <2>2 DEF Linked
  <1> QED BY <1>5, <1>6, <1>7 DEF t

-----------------------------------------------------------------------------
(* One merge: the list.                                                       *)

\* The list without its place j + 1.
Dropped(P, j) == [i \in 1..(Len(P) - 1) |-> IF i <= j THEN P[i] ELSE P[i + 1]]

LEMMA ListIsOneToOne ==
  ASSUME NEW P, NEW s, Listed(P, s)
  PROVE  /\ Len(P) \in Nat /\ \A i \in 1..Len(P) : P[i] \in Nat /\ P[i] # 0
         /\ \A a, b \in 1..Len(P) : P[a] = P[b] => a = b
         /\ \A a, b \in 1..Len(P) : a < b <=> P[a] < P[b]
  <1> DEFINE n == Len(P)
  <1>1. n \in Nat /\ \A i \in 1..n : P[i] \in Nat
    <2>1. P \in Seq(Nat)
      BY DEF Listed
    <2> QED BY <2>1, LenProperties, ElementOfSeq
  <1>2. \A i \in 1..n : P[i] \in 1..Len(s)
    BY DEF Listed
  <1>3. \A a, b \in 1..n : a < b => P[a] < P[b]
    BY DEF Listed
  <1> HIDE DEF n
  <1>4. \A i \in 1..n : P[i] # 0
    BY <1>2
  <1>5. ASSUME NEW a \in 1..n, NEW b \in 1..n PROVE (P[a] = P[b] => a = b) /\ (a < b <=> P[a] < P[b])
    <2>1. a \in Nat /\ b \in Nat /\ P[a] \in Nat /\ P[b] \in Nat
      BY <1>1
    <2>2. CASE a < b
      <3>1. P[a] < P[b]
        BY <1>3, <2>2
      <3> QED BY <2>1, <2>2, <3>1
    <2>3. CASE b < a
      <3>1. P[b] < P[a]
        BY <1>3, <2>3
      <3> QED BY <2>1, <2>3, <3>1
    <2>4. CASE a = b
      BY <2>1, <2>4
    <2> QED BY <2>1, <2>2, <2>3, <2>4
  <1> QED BY <1>1, <1>4, <1>5 DEF n

LEMMA MergedList ==
  ASSUME NEW s \in Symbols, Linked(s), NEW P, Listed(P, s), NEW j \in 1..(Len(P) - 1)
  PROVE  Listed(Dropped(P, j), Joined(s, P[j], P[j + 1]))
  <1> DEFINE n == Len(P)
             m == Len(s)
             l == P[j]
             r == P[j + 1]
             t == Joined(s, l, r)
             Q == Dropped(P, j)
             after == IF j + 1 = n THEN 0 ELSE P[j + 2]
  <1>1. /\ n \in Nat /\ \A i \in 1..n : P[i] \in Nat /\ P[i] # 0
        /\ \A a, b \in 1..n : P[a] = P[b] => a = b
        /\ \A a, b \in 1..n : a < b <=> P[a] < P[b]
    BY ListIsOneToOne
  <1>2. j \in 1..n /\ j + 1 \in 1..n /\ j \in Nat /\ j < n
    BY <1>1
  <1>3. \A i \in 1..n : /\ P[i] \in 1..m /\ s[P[i]].piece # <<>>
                        /\ s[P[i]].prev = IF i = 1 THEN 0 ELSE P[i - 1]
                        /\ s[P[i]].next = IF i = n THEN 0 ELSE P[i + 1]
    BY Zenon DEF Listed
  <1>4. l \in 1..m /\ r \in (l + 1)..m /\ m \in Nat
    <2>1. P[j] \in 1..m /\ P[j + 1] \in 1..m
      BY <1>2, <1>3
    <2>2. P[j] < P[j + 1]
      <3>1. j < j + 1
        BY <1>2
      <3> QED BY <1>1, <1>2, <3>1
    <2>3. m \in Nat
      BY SymbolType
    <2> HIDE DEF m
    <2> QED BY <2>1, <2>2, <2>3
  <1>5. s[r].next = after
    <2>1. s[P[j + 1]].next = IF j + 1 = n THEN 0 ELSE P[(j + 1) + 1]
      BY <1>2, <1>3
    <2>2. (j + 1) + 1 = j + 2
      BY <1>2
    <2> QED BY <2>1, <2>2
  <1>6. /\ t \in Symbols /\ Len(t) = m
        /\ \A k \in 1..m :
             /\ t[k].piece = IF k = l THEN s[l].piece \o s[r].piece
                             ELSE IF k = r THEN <<>> ELSE s[k].piece
             /\ t[k].next = IF k = l THEN after ELSE s[k].next
             /\ t[k].prev = IF k = after THEN l ELSE s[k].prev
    <2> HIDE DEF m, l, r, after
    <2>1. /\ t \in Symbols /\ Len(t) = m
          /\ \A k \in 1..m :
             /\ t[k].piece = IF k = l THEN s[l].piece \o s[r].piece
                             ELSE IF k = r THEN <<>> ELSE s[k].piece
             /\ t[k].next = IF k = l THEN s[r].next ELSE s[k].next
             /\ t[k].prev = IF k = s[r].next THEN l ELSE s[k].prev
      BY <1>4, JoinedIs DEF m
    <2> QED BY <1>5, <2>1
  <1>7. s[l].piece \o s[r].piece # <<>>
    <2>1. s[l].piece \in Seq(0..255) /\ s[r].piece \in Seq(0..255) /\ s[l].piece # <<>>
      BY <1>2, <1>3, SymbolType
    <2> QED BY <2>1, ConcatEqualIffEmpty, ConcatSimplifications
  <1>8. Len(Q) = n - 1 /\ Q \in Seq(Nat) /\ \A i \in 1..(n - 1) : Q[i] = IF i <= j THEN P[i] ELSE P[i + 1]
    <2>1. \A i \in 1..(n - 1) : i \in 1..n /\ i + 1 \in 1..n
      BY <1>1
    <2>2. n - 1 \in Nat
      BY <1>1, <1>2
    <2> QED BY <1>1, <2>1, <2>2 DEF Dropped
  <1>9. s # <<>> => Len(Q) > 0 /\ Q[1] = 1
    <2> SUFFICES ASSUME s # <<>> PROVE Len(Q) > 0 /\ Q[1] = 1
      OBVIOUS
    <2>1. P[1] = 1
      BY DEF Listed
    <2>2. n - 1 > 0 /\ 1 \in 1..(n - 1) /\ 1 <= j
      BY <1>1, <1>2
    <2> HIDE DEF n, Q
    <2> QED BY <1>8, <2>1, <2>2
  <1>10. t # <<>> => s # <<>>
    <2>1. s = <<>> => Len(s) = 0
      OBVIOUS
    <2> HIDE DEF t, l, r
    <2> QED BY <1>4, <2>1
  <1> HIDE DEF n, m, l, r, t, Q
  <1>11. ASSUME NEW i \in 1..(n - 1)
         PROVE  /\ Q[i] \in 1..m /\ t[Q[i]].piece # <<>>
                /\ t[Q[i]].prev = IF i = 1 THEN 0 ELSE Q[i - 1]
                /\ t[Q[i]].next = IF i = n - 1 THEN 0 ELSE Q[i + 1]
    <2> DEFINE a == IF i <= j THEN i ELSE i + 1
    <2>1. a \in 1..n /\ a # j + 1 /\ i \in Nat /\ i \in 1..n /\ i + 1 \in 1..n
      BY <1>1, <1>2
    <2>2. Q[i] = P[a]
      BY <1>8
    <2>3. P[a] \in 1..m /\ P[a] # r
      BY <1>1, <1>2, <1>3, <2>1 DEF r
    <2>4. t[P[a]].piece # <<>>
      <3> HIDE DEF a
      <3>1. t[P[a]].piece = IF P[a] = l THEN s[l].piece \o s[r].piece
                            ELSE IF P[a] = r THEN <<>> ELSE s[P[a]].piece
        BY <1>6, <2>3, Zenon
      <3>2. s[P[a]].piece # <<>>
        BY <1>3, <2>1, Zenon
      <3> QED BY <1>7, <2>3, <3>1, <3>2, Zenon
    <2>5. P[a] = l <=> i = j
      <3>1. a = j <=> i = j
        BY <1>2, <2>1
      <3> QED BY <1>1, <1>2, <2>1, <3>1 DEF l
    <2>6. P[a] = after <=> i = j + 1
      <3>1. CASE j + 1 = n
        <4>1. after = 0 /\ P[a] # 0 /\ i # j + 1
          BY <1>1, <1>2, <2>1, <3>1
        <4> QED BY <4>1
      <3>2. CASE j + 1 # n
        <4>1. after = P[j + 2] /\ j + 2 \in 1..n
          BY <1>1, <1>2, <3>2
        <4>2. a = j + 2 <=> i = j + 1
          BY <1>2, <2>1
        <4> QED BY <1>1, <2>1, <4>1, <4>2
      <3> QED BY <3>1, <3>2
    <2>7. t[P[a]].next = IF i = n - 1 THEN 0 ELSE Q[i + 1]
      <3>0. i # n - 1 => i + 1 \in 1..(n - 1)
        BY <1>1, <2>1
      <3>1. CASE i = j
        <4>1. t[P[a]].next = after
          BY <1>6, <2>3, <2>5, <3>1
        <4>2. i # n - 1 => Q[i + 1] = P[j + 2] /\ j + 1 # n
          <5>1. ~(j + 1 <= j) /\ (j + 1) + 1 = j + 2
            BY <1>2
          <5> QED BY <1>1, <1>2, <1>8, <3>0, <3>1, <5>1
        <4>3. i = n - 1 => j + 1 = n
          BY <1>1, <3>1
        <4> QED BY <4>1, <4>2, <4>3
      <3>2. CASE i # j
        <4>1. t[P[a]].next = IF a = n THEN 0 ELSE P[a + 1]
          <5> HIDE DEF a
          <5>1. t[P[a]].next = s[P[a]].next
            BY <1>6, <2>3, <2>5, <3>2, Zenon
          <5>2. s[P[a]].next = IF a = n THEN 0 ELSE P[a + 1]
            BY <1>3, <2>1, Zenon
          <5> QED BY <5>1, <5>2, Zenon
        <4>2. a = n <=> i = n - 1
          BY <1>1, <1>2, <2>1, <3>2
        <4>3. i # n - 1 => Q[i + 1] = P[a + 1]
          <5>1. i + 1 <= j => a + 1 = i + 1
            BY <1>2, <2>1
          <5>2. ~(i + 1 <= j) => a + 1 = (i + 1) + 1
            BY <1>2, <2>1, <3>2
          <5> QED BY <1>8, <3>0, <5>1, <5>2
        <4> QED BY <4>1, <4>2, <4>3
      <3> QED BY <3>1, <3>2
    <2>8. t[P[a]].prev = IF i = 1 THEN 0 ELSE Q[i - 1]
      <3>0. i # 1 => i - 1 \in 1..(n - 1)
        BY <1>1, <2>1
      <3>1. CASE i = j + 1
        <4>1. t[P[a]].prev = l
          BY <1>6, <2>3, <2>6, <3>1
        <4>2. i # 1 /\ i - 1 = j /\ j <= j
          BY <1>2, <3>1
        <4> QED BY <1>8, <3>0, <4>1, <4>2 DEF l
      <3>2. CASE i # j + 1
        <4>1. t[P[a]].prev = IF a = 1 THEN 0 ELSE P[a - 1]
          BY <1>3, <1>6, <2>1, <2>3, <2>6, <3>2, SMTT(40)
        <4>2. a = 1 <=> i = 1
          BY <1>1, <1>2, <2>1, <3>2
        <4>3. i # 1 => Q[i - 1] = P[a - 1]
          <5>1. i - 1 <= j => a - 1 = i - 1
            BY <1>2, <2>1, <3>2
          <5>2. ~(i - 1 <= j) => a - 1 = (i - 1) + 1
            BY <1>2, <2>1, <3>2
          <5> QED BY <1>8, <3>0, <5>1, <5>2
        <4> QED BY <4>1, <4>2, <4>3
      <3> QED BY <3>1, <3>2
    <2> QED BY <2>2, <2>3, <2>4, <2>7, <2>8
  <1>12. ASSUME NEW i \in 1..(n - 1), NEW k \in 1..(n - 1), i < k PROVE Q[i] < Q[k]
    <2> DEFINE a == IF i <= j THEN i ELSE i + 1
               b == IF k <= j THEN k ELSE k + 1
    <2>1. a \in 1..n /\ b \in 1..n /\ a < b
      BY <1>1, <1>2, <1>12
    <2>2. Q[i] = P[a] /\ Q[k] = P[b]
      BY <1>8
    <2> QED BY <1>1, <2>1, <2>2
  <1>13. ASSUME NEW k \in 1..m, t[k].piece # <<>> PROVE \E i \in 1..(n - 1) : Q[i] = k
    <2>1. k # r /\ s[k].piece # <<>>
      <3>1. l # r
        BY <1>4
      <3>2. s[l].piece # <<>>
        BY <1>2, <1>3 DEF l
      <3> QED BY <1>6, <1>13, <3>1, <3>2
    <2>2. PICK a \in 1..n : P[a] = k
      BY <2>1 DEF Listed, n, m
    <2>3. a # j + 1
      BY <2>1, <2>2 DEF r
    <2>4. CASE a <= j
      <3>1. a \in 1..(n - 1)
        BY <1>1, <1>2, <2>4
      <3> QED BY <1>8, <2>2, <2>4, <3>1
    <2>5. CASE ~(a <= j)
      <3>1. a - 1 \in 1..(n - 1) /\ ~(a - 1 <= j) /\ (a - 1) + 1 = a
        BY <1>1, <1>2, <2>3, <2>5
      <3>2. Q[a - 1] = P[(a - 1) + 1]
        BY <1>8, <3>1
      <3> QED BY <2>2, <3>1, <3>2
    <2> QED BY <2>4, <2>5
  <1>14. Listed(Q, t)
    BY <1>6, <1>8, <1>9, <1>10, <1>11, <1>12, <1>13 DEF Listed
  <1> QED BY <1>14 DEF Q, t, l, r

-----------------------------------------------------------------------------
(* One merge: the pieces.                                                     *)


LEMMA PiecesType ==
  ASSUME NEW s \in Symbols, NEW P, Listed(P, s)
  PROVE  /\ PiecesOf(P, s) \in Seq(Runs(0..255)) /\ Len(PiecesOf(P, s)) = Len(P) /\ Len(P) \in Nat
         /\ \A j \in 1..Len(P) : PiecesOf(P, s)[j] = s[P[j]].piece /\ s[P[j]].piece \in Runs(0..255)
  <1>1. Len(P) \in Nat
    BY LenProperties DEF Listed
  <1>2. ASSUME NEW j \in 1..Len(P) PROVE s[P[j]].piece \in Runs(0..255)
    <2>1. P[j] \in 1..Len(s) /\ s[P[j]].piece # <<>>
      BY DEF Listed
    <2>2. s[P[j]].piece \in Seq(0..255)
      BY <2>1, SymbolType
    <2> QED BY <2>1, <2>2 DEF Runs
  <1> QED BY <1>1, <1>2 DEF PiecesOf

LEMMA MergedPieces ==
  ASSUME NEW s \in Symbols, Linked(s), NEW P, Listed(P, s), NEW j \in 1..(Len(P) - 1)
  PROVE  PiecesOf(Dropped(P, j), Joined(s, P[j], P[j + 1])) = JoinedAt(PiecesOf(P, s), j)
  <1> DEFINE n == Len(P)
             l == P[j]
             r == P[j + 1]
             t == Joined(s, l, r)
             Q == Dropped(P, j)
             w == PiecesOf(P, s)
  <1>1. /\ n \in Nat /\ \A i \in 1..n : P[i] \in 1..Len(s)
        /\ \A a, b \in 1..n : P[a] = P[b] => a = b
        /\ \A a, b \in 1..n : a < b <=> P[a] < P[b]
    <2>1. /\ n \in Nat
          /\ \A a, b \in 1..n : P[a] = P[b] => a = b
          /\ \A a, b \in 1..n : a < b <=> P[a] < P[b]
      BY ListIsOneToOne
    <2>2. \A i \in 1..n : P[i] \in 1..Len(s)
      BY DEF Listed
    <2> QED BY <2>1, <2>2
  <1>2. j \in 1..n /\ j + 1 \in 1..n /\ j \in Nat
    BY <1>1
  <1>3. w \in Seq(Runs(0..255)) /\ Len(w) = n /\ \A i \in 1..n : w[i] = s[P[i]].piece
    BY PiecesType
  <1>4. l \in 1..Len(s) /\ r \in (l + 1)..Len(s)
    <2>1. P[j] < P[j + 1]
      <3>1. j < j + 1
        BY <1>2
      <3> QED BY <1>1, <1>2, <3>1
    <2>2. P[j] \in 1..Len(s) /\ P[j + 1] \in 1..Len(s) /\ Len(s) \in Nat
      BY <1>1, <1>2, SymbolType
    <2> QED BY <2>1, <2>2
  <1>5. \A k \in 1..Len(s) : t[k].piece = IF k = l THEN s[l].piece \o s[r].piece
                                          ELSE IF k = r THEN <<>> ELSE s[k].piece
    <2> HIDE DEF l, r
    <2> QED BY <1>4, JoinedIs
  <1>6. Len(Q) = n - 1 /\ \A i \in 1..(n - 1) : Q[i] = IF i <= j THEN P[i] ELSE P[i + 1]
    <2>1. n - 1 \in Nat
      BY <1>1, <1>2
    <2> QED BY <2>1 DEF Dropped
  <1>7. JoinedAt(w, j) \in Seq(Runs(0..255)) /\ Len(JoinedAt(w, j)) = n - 1
        /\ \A i \in 1..(n - 1) :
             JoinedAt(w, j)[i] = IF i < j THEN w[i] ELSE IF i = j THEN w[j] \o w[j + 1] ELSE w[i + 1]
    <2>1. j \in 1..(Len(w) - 1)
      BY <1>3
    <2> HIDE DEF w, n
    <2>2. JoinedAt(w, j) \in Seq(Runs(0..255)) /\ Len(JoinedAt(w, j)) = Len(w) - 1
          /\ \A i \in 1..(Len(w) - 1) :
               JoinedAt(w, j)[i] = IF i < j THEN w[i] ELSE IF i = j THEN w[j] \o w[j + 1] ELSE w[i + 1]
      BY <1>3, <2>1, JoinedAtFacts, ZenonT(60)
    <2> QED BY <1>3, <2>2
  <1>8. PiecesOf(Q, t) = [i \in 1..(n - 1) |-> t[Q[i]].piece]
    BY <1>6 DEF PiecesOf
  <1> HIDE DEF n, l, r, t, Q, w
  <1>9. ASSUME NEW i \in 1..(n - 1) PROVE t[Q[i]].piece = JoinedAt(w, j)[i]
    <2>1. i \in 1..n /\ i + 1 \in 1..n /\ i \in Nat
      BY <1>1
    <2>2. CASE i < j
      <3>1. Q[i] = P[i] /\ i # j /\ i # j + 1
        BY <1>2, <1>6, <2>1, <2>2
      <3>2. P[i] # l /\ P[i] # r
        BY <1>1, <1>2, <2>1, <3>1 DEF l, r
      <3>3. t[P[i]].piece = s[P[i]].piece
        BY <1>1, <1>5, <2>1, <3>2
      <3> QED BY <1>3, <1>7, <2>1, <2>2, <3>1, <3>3
    <2>3. CASE i = j
      <3>1. Q[i] = l /\ ~(i < j)
        BY <1>2, <1>6, <2>3 DEF l
      <3>2. t[l].piece = s[l].piece \o s[r].piece
        BY <1>4, <1>5
      <3>3. w[j] = s[l].piece /\ w[j + 1] = s[r].piece
        BY <1>2, <1>3 DEF l, r
      <3> QED BY <1>7, <2>3, <3>1, <3>2, <3>3
    <2>4. CASE i > j
      <3>1. Q[i] = P[i + 1] /\ i + 1 # j /\ i + 1 # j + 1 /\ ~(i < j) /\ i # j
        BY <1>2, <1>6, <2>1, <2>4
      <3>2. P[i + 1] # l /\ P[i + 1] # r
        BY <1>1, <1>2, <2>1, <3>1 DEF l, r
      <3>3. t[P[i + 1]].piece = s[P[i + 1]].piece
        BY <1>1, <1>5, <2>1, <3>2
      <3> QED BY <1>3, <1>7, <2>1, <3>1, <3>3
    <2> QED BY <1>2, <2>1, <2>2, <2>3, <2>4
  <1>10. JoinedAt(w, j) = [i \in 1..(n - 1) |-> JoinedAt(w, j)[i]]
    BY <1>7, LenProperties
  <1>11. PiecesOf(Q, t) = JoinedAt(w, j)
    BY <1>8, <1>9, <1>10
  <1> QED BY <1>11 DEF Q, t, l, r, w

-----------------------------------------------------------------------------
(* One merge: the agenda.                                                     *)

Alive(s, k) == s[k].piece # <<>>

Together(s, h) == s[h.left].piece \o s[h.right].piece

Fresh(s, h) ==
  /\ Alive(s, h.left) /\ Alive(s, h.right)
  /\ Len(s[h.left].piece) + Len(s[h.right].piece) = h.size

\* What an entry says, if both its symbols are left: that they are neighbours, and what
\* they make if neither has grown.
Promised(v, s, h) ==
  /\ h.left \in 1..Len(s) /\ h.right \in (h.left + 1)..Len(s) /\ h.size \in Nat /\ h.score \in Int
  /\ Alive(s, h.left) /\ Alive(s, h.right) =>
       /\ s[h.left].next = h.right
       /\ h.size <= Len(s[h.left].piece) + Len(s[h.right].piece)
       /\ Fresh(s, h) => IsPiece(v, Together(s, h)) /\ h.score = Score(v, Together(s, h))

Complete(v, s, a) ==
  \A k \in 1..Len(s) :
    Alive(s, k) /\ s[k].next # 0 => NewPair(v, s, k, s[k].next) \subseteq {h \in a : Fresh(s, h)}

LEMMA Neighbours ==
  ASSUME NEW s \in Symbols, NEW P, Listed(P, s), NEW k \in 1..Len(s), Alive(s, k)
  PROVE  /\ s[k].next # 0 => /\ s[k].next \in (k + 1)..Len(s) /\ Alive(s, s[k].next)
                             /\ s[s[k].next].prev = k
         /\ s[k].prev # 0 => /\ s[k].prev \in 1..Len(s) /\ k \in (s[k].prev + 1)..Len(s)
                             /\ Alive(s, s[k].prev) /\ s[s[k].prev].next = k
  <1> DEFINE n == Len(P)
             m == Len(s)
  <1>1. /\ n \in Nat /\ \A i \in 1..n : P[i] \in Nat /\ P[i] # 0
        /\ \A a, b \in 1..n : a < b <=> P[a] < P[b]
    BY ListIsOneToOne
  <1>2. PICK j \in 1..n : P[j] = k
    BY DEF Listed, Alive
  <1>3. m \in Nat /\ \A i \in 1..n : /\ P[i] \in 1..m /\ s[P[i]].piece # <<>>
                                     /\ s[P[i]].prev = IF i = 1 THEN 0 ELSE P[i - 1]
                                     /\ s[P[i]].next = IF i = n THEN 0 ELSE P[i + 1]
    BY SymbolType, Zenon DEF Listed
  <1>4. k \in 1..m
    OBVIOUS
  <1> HIDE DEF n, m
  <1>5. ASSUME s[k].next # 0
        PROVE  s[k].next \in (k + 1)..m /\ Alive(s, s[k].next) /\ s[s[k].next].prev = k
    <2>1. j # n /\ s[k].next = P[j + 1]
      BY <1>2, <1>3, <1>5
    <2>2. j + 1 \in 1..n /\ j < j + 1 /\ j + 1 # 1 /\ (j + 1) - 1 = j
      BY <1>1, <2>1
    <2>3. k < P[j + 1] /\ P[j + 1] \in 1..m
      BY <1>1, <1>2, <1>3, <2>2
    <2>4. P[j + 1] \in (k + 1)..m
      BY <1>3, <1>4, <2>3
    <2>5. s[P[j + 1]].piece # <<>> /\ s[P[j + 1]].prev = P[j]
      BY <1>3, <2>2
    <2> QED BY <1>2, <2>1, <2>4, <2>5 DEF Alive
  <1>6. ASSUME s[k].prev # 0
        PROVE  /\ s[k].prev \in 1..m /\ k \in (s[k].prev + 1)..m
               /\ Alive(s, s[k].prev) /\ s[s[k].prev].next = k
    <2>1. j # 1 /\ s[k].prev = P[j - 1]
      BY <1>2, <1>3, <1>6
    <2>2. j - 1 \in 1..n /\ j - 1 < j /\ j - 1 # n /\ (j - 1) + 1 = j
      BY <1>1, <2>1
    <2>3. P[j - 1] < k /\ P[j - 1] \in 1..m
      BY <1>1, <1>2, <1>3, <2>2
    <2>4. k \in (P[j - 1] + 1)..m
      BY <1>3, <1>4, <2>3
    <2>5. s[P[j - 1]].piece # <<>> /\ s[P[j - 1]].next = P[j]
      BY <1>3, <2>2
    <2> QED BY <1>2, <2>1, <2>3, <2>4, <2>5 DEF Alive
  <1> QED BY <1>5, <1>6 DEF m

LEMMA NewPairIs ==
  ASSUME NEW v \in Vocabularies, NEW s \in Symbols, NEW k \in 1..Len(s), NEW n \in (k + 1)..Len(s),
         Alive(s, k), Alive(s, n), s[k].next = n
  PROVE  /\ \A h \in NewPair(v, s, k, n) : h.left = k /\ h.right = n /\ Fresh(s, h) /\ Promised(v, s, h)
         /\ IsPiece(v, s[k].piece \o s[n].piece) =>
              \E h \in NewPair(v, s, k, n) : h.score = Score(v, s[k].piece \o s[n].piece)
  <1> DEFINE piece == s[k].piece \o s[n].piece
             new == [left |-> k, right |-> n, size |-> Len(piece), score |-> Score(v, piece)]
             m == Len(s)
  <1>1. k \in 1..m /\ n \in 1..m /\ k # 0 /\ n # 0 /\ m \in Nat
    <2>1. m \in Nat
      BY SymbolType
    <2> QED BY <2>1
  <1>2. s[k].piece \in Seq(0..255) /\ s[n].piece \in Seq(0..255)
    BY <1>1, SymbolType
  <1>3. /\ piece \in Seq(0..255) /\ Len(piece) = Len(s[k].piece) + Len(s[n].piece)
        /\ Len(piece) \in Nat
    <2>1. piece \in Seq(0..255) /\ Len(piece) = Len(s[k].piece) + Len(s[n].piece)
      BY <1>2, ConcatProperties
    <2> HIDE DEF piece
    <2>2. Len(piece) \in Nat
      BY <2>1, LenProperties
    <2> QED BY <2>1, <2>2
  <1>4. NewPair(v, s, k, n) = IF IsPiece(v, piece) THEN {new} ELSE {}
    BY <1>1, Zenon DEF NewPair
  <1>5. /\ new.left = k /\ new.right = n /\ new.size = Len(s[k].piece) + Len(s[n].piece)
        /\ new.score = Score(v, piece) /\ new.size \in Nat
    <2> HIDE DEF piece
    <2> QED BY <1>3
  <1> HIDE DEF new
  <1>6. Fresh(s, new) /\ Together(s, new) = piece
    BY <1>5 DEF Fresh, Together
  <1> HIDE DEF piece
  <1>7. ASSUME IsPiece(v, piece) PROVE Promised(v, s, new)
    <2>1. new.score \in Int
      BY <1>5, <1>7, ScoreType
    <2>2. new.left \in 1..Len(s) /\ new.right \in (new.left + 1)..Len(s) /\ new.size \in Nat
      BY <1>5
    <2>3. /\ s[new.left].next = new.right
          /\ new.size <= Len(s[new.left].piece) + Len(s[new.right].piece)
          /\ IsPiece(v, Together(s, new)) /\ new.score = Score(v, Together(s, new))
      <3>1. new.size <= new.size
        BY <1>5
      <3> QED BY <1>5, <1>6, <1>7, <3>1
    <2> QED BY <2>1, <2>2, <2>3 DEF Promised
  <1>8. ASSUME NEW h \in NewPair(v, s, k, n)
        PROVE  h.left = k /\ h.right = n /\ Fresh(s, h) /\ Promised(v, s, h)
    <2>1. IsPiece(v, piece) /\ h = new
      BY <1>4
    <2> QED BY <1>5, <1>6, <1>7, <2>1
  <1>9. IsPiece(v, piece) => new \in NewPair(v, s, k, n)
    BY <1>4
  <1> QED BY <1>5, <1>8, <1>9 DEF piece

\* What the places of the list say of the agenda.
LEMMA ListedPair ==
  ASSUME NEW v \in Vocabularies, NEW s \in Symbols, NEW P, Listed(P, s), NEW a, Complete(v, s, a),
         NEW j \in Able(v, PiecesOf(P, s))
  PROVE  /\ j \in 1..(Len(P) - 1)
         /\ \E g \in a : /\ g.left = P[j] /\ g.score \in Int
                         /\ g.score = Score(v, PiecesOf(P, s)[j] \o PiecesOf(P, s)[j + 1])
  <1> DEFINE w == PiecesOf(P, s)
             n == Len(P)
             k == P[j]
  <1>1. n \in Nat /\ Len(w) = n /\ \A i \in 1..n : w[i] = s[P[i]].piece
    BY PiecesType
  <1>2. j \in 1..(n - 1) /\ IsPiece(v, w[j] \o w[j + 1])
    BY <1>1 DEF Able
  <1>3. j \in 1..n /\ j + 1 \in 1..n /\ j # n
    <2> HIDE DEF n
    <2> QED BY <1>1, <1>2
  <1>4. /\ k \in 1..Len(s) /\ Alive(s, k) /\ s[k].next = P[j + 1] /\ P[j + 1] # 0
    <2>1. P[j + 1] # 0
      BY <1>3, ListIsOneToOne
    <2> QED BY <1>3, <2>1 DEF Listed, Alive
  <1> HIDE DEF k
  <1>5. s[k].next \in (k + 1)..Len(s) /\ Alive(s, s[k].next)
    BY <1>4, Neighbours
  <1>6. w[j] = s[k].piece /\ w[j + 1] = s[s[k].next].piece
    BY <1>1, <1>3, <1>4 DEF k
  <1> HIDE DEF w, n
  <1>7. PICK g \in NewPair(v, s, k, s[k].next) : g.score = Score(v, w[j] \o w[j + 1])
    <2> DEFINE m == s[k].next
    <2>1. m \in (k + 1)..Len(s) /\ Alive(s, m) /\ s[k].next = m /\ IsPiece(v, s[k].piece \o s[m].piece)
      BY <1>2, <1>5, <1>6
    <2> HIDE DEF m
    <2>2. \E h \in NewPair(v, s, k, m) : h.score = Score(v, s[k].piece \o s[m].piece)
      BY <1>4, <2>1, NewPairIs
    <2> QED BY <1>6, <2>2 DEF m
  <1>8. g \in a /\ g.left = k /\ g.score \in Int
    <2>1. g \in a
      BY <1>4, <1>7 DEF Complete
    <2>2. g.left = k /\ Promised(v, s, g)
      BY <1>4, <1>5, <1>7, NewPairIs
    <2> QED BY <2>1, <2>2 DEF Promised
  <1> QED BY <1>2, <1>7, <1>8 DEF w, n, k

\* What is merged is what is best.
LEMMA TopIsBest ==
  ASSUME NEW v \in Vocabularies, NEW s \in Symbols, NEW P, Listed(P, s), NEW a, Complete(v, s, a),
         NEW h \in a, Promised(v, s, h), Fresh(s, h),
         \A g \in a : g.score < h.score \/ (g.score = h.score /\ h.left <= g.left)
  PROVE  \E j \in 1..(Len(P) - 1) :
           /\ h.left = P[j] /\ h.right = P[j + 1]
           /\ Able(v, PiecesOf(P, s)) # {} /\ BestOf(v, PiecesOf(P, s)) = j
  <1> DEFINE w == PiecesOf(P, s)
             n == Len(P)
  <1>1. n \in Nat /\ Len(w) = n /\ \A i \in 1..n : w[i] = s[P[i]].piece
    BY PiecesType
  <1>2. /\ \A i \in 1..n : P[i] \in Nat /\ P[i] # 0
        /\ \A i, k \in 1..n : i < k <=> P[i] < P[k]
    BY ListIsOneToOne
  <1>3. PICK j \in 1..n : P[j] = h.left
    BY DEF Listed, Promised, Fresh, Alive
  <1>4. /\ s[h.left].next = h.right /\ h.right # 0 /\ h.score \in Int
        /\ IsPiece(v, Together(s, h)) /\ h.score = Score(v, Together(s, h))
    <2>1. h.right # 0
      <3>1. h.left \in 1..Len(s) /\ h.right \in (h.left + 1)..Len(s)
        BY DEF Promised
      <3> QED BY <3>1
    <2> QED BY <2>1 DEF Promised, Fresh
  <1>5. j # n /\ h.right = P[j + 1]
    <2>1. s[P[j]].next = IF j = n THEN 0 ELSE P[j + 1]
      BY DEF Listed
    <2> QED BY <1>3, <1>4, <2>1
  <1> HIDE DEF n
  <1>6. j \in 1..(n - 1) /\ j + 1 \in 1..n
    BY <1>1, <1>5
  <1>7. Together(s, h) = w[j] \o w[j + 1]
    BY <1>1, <1>3, <1>5, <1>6 DEF Together
  <1>8. j \in Able(v, w)
    BY <1>1, <1>4, <1>6, <1>7 DEF Able
  <1>9. ASSUME NEW l \in Able(v, w)
        PROVE  \/ Score(v, w[l] \o w[l + 1]) < Score(v, w[j] \o w[j + 1])
               \/ Score(v, w[l] \o w[l + 1]) = Score(v, w[j] \o w[j + 1]) /\ j <= l
    <2>1. l \in 1..(n - 1)
      BY ListedPair DEF n
    <2>2. PICK g \in a : g.left = P[l] /\ g.score = Score(v, w[l] \o w[l + 1])
      BY ListedPair
    <2>3. h.left <= g.left => j <= l
      <3>1. l \in 1..n /\ l \in Nat /\ j \in Nat
        BY <1>1, <2>1
      <3>2. l < j <=> P[l] < P[j]
        BY <1>2, <3>1
      <3>3. P[l] \in Nat /\ P[j] \in Nat
        BY <1>2, <3>1
      <3> QED BY <1>3, <2>2, <3>1, <3>2, <3>3
    <2>4. g.score < h.score \/ (g.score = h.score /\ h.left <= g.left)
      OBVIOUS
    <2> HIDE DEF w
    <2> QED BY <1>4, <1>7, <2>2, <2>3, <2>4
  <1>10. Len(w) \in Nat
    BY <1>1
  <1> HIDE DEF w
  <1>11. BestOf(v, w) = j
    BY <1>8, <1>9, <1>10, BestIs
  <1> QED BY <1>3, <1>5, <1>6, <1>8, <1>11 DEF w, n

\* With nothing on the agenda nothing can be merged.
LEMMA EmptyIsDone ==
  ASSUME NEW v \in Vocabularies, NEW s \in Symbols, NEW P, Listed(P, s), Complete(v, s, {})
  PROVE  Able(v, PiecesOf(P, s)) = {}
  <1> SUFFICES ASSUME NEW j \in Able(v, PiecesOf(P, s)) PROVE FALSE
    OBVIOUS
  <1>1. \E g \in {} : g.left = P[j]
    BY ListedPair
  <1> QED BY <1>1

\* The agenda after a merge: what is there still says the truth or is stale, and all
\* that can be merged now is there.
LEMMA MergedAgenda ==
  ASSUME NEW v \in Vocabularies, NEW s \in Symbols, Linked(s), NEW P, Listed(P, s), NEW a,
         \A g \in a : Promised(v, s, g), Complete(v, s, a), NEW h \in a, Fresh(s, h),
         NEW t, t = Joined(s, h.left, h.right), NEW Q, Listed(Q, t), NEW b,
         b = (a \ {h}) \cup NewPair(v, t, t[h.left].prev, h.left)
                       \cup NewPair(v, t, h.left, t[h.left].next)
  PROVE  (\A g \in b : Promised(v, t, g)) /\ Complete(v, t, b)
  <1> DEFINE l == h.left
             r == h.right
             m == Len(s)
  <1>1. l \in 1..m /\ r \in (l + 1)..m /\ m \in Nat /\ l # r /\ l # 0 /\ r # 0
        /\ Alive(s, l) /\ Alive(s, r) /\ s[l].next = r
    <2>1. m \in Nat /\ l \in 1..m /\ r \in (l + 1)..m
      BY SymbolType DEF Promised
    <2>2. l # r /\ l # 0 /\ r # 0
      <3> HIDE DEF l, r, m
      <3> QED BY <2>1
    <2> QED BY <2>1, <2>2 DEF Promised, Fresh
  <1>2. /\ t \in Symbols /\ Len(t) = m
        /\ \A k \in 1..m : /\ t[k].piece = IF k = l THEN s[l].piece \o s[r].piece
                                           ELSE IF k = r THEN <<>> ELSE s[k].piece
                           /\ t[k].next = IF k = l THEN s[r].next ELSE s[k].next
                           /\ t[k].prev = IF k = s[r].next THEN l ELSE s[k].prev
    <2> HIDE DEF l, r
    <2> QED BY <1>1, JoinedIs, SMTT(40) DEF l, r
  <1>3. s[l].piece \in Seq(0..255) /\ s[r].piece \in Seq(0..255)
    <2>1. r \in 1..m
      BY <1>1
    <2> QED BY <1>1, <2>1, SymbolType
  <1>4. /\ s[l].piece \o s[r].piece # <<>>
        /\ Len(s[l].piece \o s[r].piece) = Len(s[l].piece) + Len(s[r].piece)
        /\ Len(s[l].piece) \in Nat \ {0} /\ Len(s[r].piece) \in Nat \ {0}
    <2>1. s[l].piece # <<>> /\ s[r].piece # <<>>
      BY <1>1 DEF Alive
    <2>2. s[l].piece \o s[r].piece # <<>>
          /\ Len(s[l].piece \o s[r].piece) = Len(s[l].piece) + Len(s[r].piece)
      BY <1>3, <2>1, ConcatProperties, ConcatEqualIffEmpty
    <2>3. Len(s[l].piece) \in Nat \ {0} /\ Len(s[r].piece) \in Nat \ {0}
      BY <1>3, <2>1, EmptySeq
    <2> QED BY <2>2, <2>3
  <1>5. b = (a \ {h}) \cup NewPair(v, t, t[l].prev, l) \cup NewPair(v, t, l, t[l].next)
    OBVIOUS
  <1> HIDE DEF l, r, m
  <1>6. Alive(t, l) /\ ~Alive(t, r) /\ \A k \in 1..m : Alive(t, k) => k # r /\ Alive(s, k)
    <2>1. r \in 1..m
      BY <1>1
    <2> QED BY <1>1, <1>2, <1>4, <2>1 DEF Alive
  \* The new entries.
  <1>7. ASSUME NEW g \in NewPair(v, t, t[l].prev, l) PROVE Fresh(t, g) /\ Promised(v, t, g)
    <2> DEFINE k == t[l].prev
    <2>1. k # 0
      BY DEF NewPair
    <2>2. k \in 1..Len(t) /\ l \in (k + 1)..Len(t) /\ Alive(t, k) /\ t[k].next = l
      <3>1. l \in 1..Len(t)
        BY <1>1, <1>2
      <3> QED BY <1>2, <1>6, <2>1, <3>1, Neighbours
    <2>3. g \in NewPair(v, t, k, l)
      OBVIOUS
    <2> HIDE DEF k
    <2> QED BY <1>2, <1>6, <2>2, <2>3, NewPairIs
  <1>8. ASSUME NEW g \in NewPair(v, t, l, t[l].next) PROVE Fresh(t, g) /\ Promised(v, t, g)
    <2> DEFINE k == t[l].next
    <2>1. k # 0
      BY DEF NewPair
    <2>2. l \in 1..Len(t) /\ k \in (l + 1)..Len(t) /\ Alive(t, k) /\ t[l].next = k
      <3>1. l \in 1..Len(t)
        BY <1>1, <1>2
      <3> QED BY <1>2, <1>6, <2>1, <3>1, Neighbours
    <2>3. g \in NewPair(v, t, l, k)
      OBVIOUS
    <2> HIDE DEF k
    <2> QED BY <1>2, <1>6, <2>2, <2>3, NewPairIs
  \* The old ones.
  <1>9. ASSUME NEW g \in a \ {h} PROVE Promised(v, t, g)
    <2>1. Promised(v, s, g)
      OBVIOUS
    <2>2. /\ g.left \in 1..m /\ g.right \in (g.left + 1)..m /\ g.size \in Nat /\ g.score \in Int
          /\ g.right \in 1..m
      <3>1. g.left \in 1..m /\ g.right \in (g.left + 1)..m /\ g.size \in Nat /\ g.score \in Int
        BY <2>1 DEF Promised, m
      <3> QED BY <1>1, <3>1
    <2>3. ASSUME Alive(t, g.left), Alive(t, g.right)
          PROVE  /\ t[g.left].next = g.right
                 /\ g.size <= Len(t[g.left].piece) + Len(t[g.right].piece)
                 /\ Fresh(t, g) => IsPiece(v, Together(t, g)) /\ g.score = Score(v, Together(t, g))
      <3>1. /\ s[g.left].next = g.right
            /\ g.size <= Len(s[g.left].piece) + Len(s[g.right].piece)
            /\ Fresh(s, g) => IsPiece(v, Together(s, g)) /\ g.score = Score(v, Together(s, g))
            /\ g.left # r /\ g.right # r
        BY <1>6, <2>1, <2>2, <2>3 DEF Promised
      <3>2. g.left # l
        BY <1>1, <3>1
      <3>3. t[g.left].next = g.right /\ t[g.left].piece = s[g.left].piece
        BY <1>2, <2>2, <3>1, <3>2
      <3>4. CASE g.right = l
        <4>1. t[g.right].piece = s[l].piece \o s[r].piece
          BY <1>2, <2>2, <3>4
        <4>2. s[g.left].piece \in Seq(0..255)
          BY <2>2, SymbolType DEF m
        <4>3. Len(s[g.left].piece) \in Nat
          BY <4>2, LenProperties
        <4> DEFINE x == Len(s[g.left].piece)
                   y == Len(s[l].piece)
                   z == Len(s[r].piece)
        <4>4. Len(t[g.left].piece) = x /\ Len(t[g.right].piece) = y + z
              /\ x \in Nat /\ y \in Nat /\ z \in Nat \ {0} /\ g.size <= x + y
          BY <1>4, <3>1, <3>3, <3>4, <4>1, <4>3
        <4> HIDE DEF x, y, z
        <4>5. x + (y + z) # g.size /\ g.size <= x + (y + z)
          BY <2>2, <4>4
        <4>6. ~Fresh(t, g) /\ g.size <= Len(t[g.left].piece) + Len(t[g.right].piece)
          BY <4>4, <4>5, Zenon DEF Fresh
        <4> QED BY <3>3, <4>6
      <3>5. CASE g.right # l
        <4>1. t[g.right].piece = s[g.right].piece
          BY <1>2, <2>2, <3>1, <3>5
        <4>2. (Fresh(t, g) => Fresh(s, g)) /\ Together(t, g) = Together(s, g)
          BY <3>3, <4>1 DEF Fresh, Together, Alive
        <4> QED BY <3>1, <3>3, <4>1, <4>2
      <3> QED BY <3>4, <3>5
    <2> QED BY <1>2, <2>2, <2>3 DEF Promised
  <1>10. ASSUME NEW k \in 1..Len(t), Alive(t, k), t[k].next # 0
         PROVE  NewPair(v, t, k, t[k].next) \subseteq {g \in b : Fresh(t, g)}
    <2> DEFINE n == t[k].next
    <2>1. n \in (k + 1)..m /\ n \in 1..m /\ Alive(t, n) /\ t[n].prev = k /\ k \in 1..m
      <3>1. n \in (k + 1)..Len(t) /\ Alive(t, n) /\ t[n].prev = k
        BY <1>2, <1>10, Neighbours
      <3>2. k \in 1..m /\ n \in (k + 1)..m
        BY <1>2, <3>1
      <3> HIDE DEF n
      <3> QED BY <1>1, <3>1, <3>2
    <2>2. t[k].next = n
      OBVIOUS
    <2> HIDE DEF n
    <2>3. CASE k = l
      BY <1>5, <1>8, <2>2, <2>3
    <2>4. CASE n = l
      BY <1>5, <1>7, <2>1, <2>2, <2>4
    <2>5. CASE k # l /\ n # l
      <3>1. k # r /\ n # r /\ Alive(s, k) /\ Alive(s, n)
        BY <1>6, <1>10, <2>1
      <3>2. t[k].piece = s[k].piece /\ t[n].piece = s[n].piece /\ s[k].next = n
        BY <1>2, <2>1, <2>2, <2>5, <3>1
      <3>3. NewPair(v, t, k, n) = NewPair(v, s, k, n)
        BY <3>2, Zenon DEF NewPair
      <3>4. n # 0
        BY <2>1
      <3>5. NewPair(v, s, k, n) \subseteq a
        <4>1. NewPair(v, s, k, s[k].next) \subseteq {g \in a : Fresh(s, g)}
          BY <2>1, <3>1, <3>2, <3>4 DEF Complete, m
        <4> QED BY <3>2, <4>1
      <3>6. ASSUME NEW g \in NewPair(v, t, k, n) PROVE g \in b /\ Fresh(t, g)
        <4>1. k \in 1..Len(t) /\ n \in (k + 1)..Len(t)
          BY <1>2, <2>1
        <4>2. g.left = k /\ Fresh(t, g)
          BY <1>2, <1>10, <2>1, <2>2, <4>1, NewPairIs
        <4>3. g # h
          BY <2>5, <4>2 DEF l
        <4> QED BY <1>5, <3>3, <3>5, <4>2, <4>3
      <3> QED BY <2>2, <3>6
    <2> QED BY <2>3, <2>4, <2>5
  <1> QED BY <1>5, <1>7, <1>8, <1>9, <1>10 DEF Complete

-----------------------------------------------------------------------------
(* The rounds of the textbook.                                                *)

Round(f, v, text) ==
  f = [n \in 0..Len(text) |-> IF n = 0 THEN Characters(text) ELSE BestMerged(v, f[n - 1])]

LEMMA RoundExists == ASSUME NEW v, NEW text, Len(text) \in Nat PROVE \E f : Round(f, v, text)
  <1> DEFINE R(f, l) == f = [n \in 0..l |-> IF n = 0 THEN Characters(text)
                                           ELSE BestMerged(v, f[n - 1])]
             T == {l \in Nat : \E f : R(f, l)}
  <1>1. 0 \in T
    <2> DEFINE f == [n \in 0..0 |-> Characters(text)]
    <2>1. f = [n \in 0..0 |-> IF n = 0 THEN Characters(text) ELSE BestMerged(v, f[n - 1])]
      <3>1. \A n \in 0..0 : n = 0
        OBVIOUS
      <3> QED BY <3>1
    <2> QED BY <2>1
  <1>2. ASSUME NEW l \in Nat, l \in T PROVE l + 1 \in T
    <2>1. PICK f : R(f, l)
      BY <1>2
    <2>2. \A n \in 0..l : f[n] = IF n = 0 THEN Characters(text) ELSE BestMerged(v, f[n - 1])
      BY <2>1, Zenon
    <2> DEFINE g == [n \in 0..(l + 1) |-> IF n \in 0..l THEN f[n] ELSE BestMerged(v, f[n - 1])]
    <2>3. ASSUME NEW n \in 0..(l + 1)
          PROVE  g[n] = IF n = 0 THEN Characters(text) ELSE BestMerged(v, g[n - 1])
      <3>1. CASE n = 0
        BY <2>2, <3>1
      <3>2. CASE n # 0
        <4>1. n - 1 \in 0..l /\ n - 1 \in 0..(l + 1)
          BY <3>2
        <4>2. g[n - 1] = f[n - 1]
          BY <4>1
        <4>3. g[n] = BestMerged(v, f[n - 1])
          <5>1. g[n] = IF n \in 0..l THEN f[n] ELSE BestMerged(v, f[n - 1])
            BY Zenon
          <5> QED BY <2>2, <3>2, <5>1, Zenon
        <4> QED BY <3>2, <4>2, <4>3
      <3> QED BY <3>1, <3>2
    <2>4. g = [n \in 0..(l + 1) |-> g[n]]
      OBVIOUS
    <2> HIDE DEF g
    <2>5. R(g, l + 1)
      BY <2>3, <2>4, Zenon
    <2> QED BY <2>5
  <1>3. Nat \subseteq T
    <2> HIDE DEF T
    <2> QED BY <1>1, <1>2, SetInduction
  <1>4. \E f : R(f, Len(text))
    BY <1>3
  <1> QED BY <1>4, Zenon DEF Round

LEMMA TextbookIs ==
  ASSUME NEW v, NEW text, Len(text) \in Nat
  PROVE  \E f : Round(f, v, text) /\ Textbook(v, text) = f[Len(text)]
  <1>1. Round(CHOOSE f : Round(f, v, text), v, text)
    BY RoundExists, Zenon
  <1>2. Textbook(v, text) = (CHOOSE f : Round(f, v, text))[Len(text)]
    BY Zenon DEF Textbook, Round
  <1> QED BY <1>1, <1>2

-----------------------------------------------------------------------------
(* What the ids spell.                                                        *)

\* The bytes that have a piece.
ByteSet(v) == {b \in 0..255 : \E l \in DOMAIN v : v[l].piece = BytePiece(b)}

AllIds(v) == 0..(Len(v) - 1)

Spells(v) == [ids \in Seq(AllIds(v)) |-> FlattenSeq([k \in DOMAIN ids |-> Spelt(v[ids[k] + 1].piece)])]

LEMMA VocabularyType ==
  ASSUME NEW v \in Vocabularies
  PROVE  Len(v) \in Nat /\ DOMAIN v = 1..Len(v) /\ \A k \in 1..Len(v) : v[k].piece \in Seq(Nat)
  <1>1. Len(v) \in Nat /\ DOMAIN v = 1..Len(v)
    BY LenProperties DEF Vocabularies
  <1>2. \A k \in 1..Len(v) : v[k] \in [piece : Seq(Nat), score : Int, type : STRING]
    BY ElementOfSeq DEF Vocabularies
  <1> QED BY <1>1, <1>2

LEMMA SpeltType ==
  ASSUME NEW p \in Seq(Nat) PROVE Spelt(p) \in Seq(Nat)
  <1>1. CASE Len(p) = 1 /\ p[1] >= 256
    <2>1. p[1] \in Nat
      <3>1. 1 \in 1..Len(p)
        BY <1>1
      <3> QED BY <3>1, ElementOfSeq
    <2>2. p[1] - 256 \in Nat
      BY <1>1, <2>1
    <2>3. Spelt(p) = <<p[1] - 256>>
      BY <1>1 DEF Spelt
    <2> QED BY <2>2, <2>3
  <1>2. CASE ~(Len(p) = 1 /\ p[1] >= 256)
    BY <1>2, Zenon DEF Spelt
  <1> QED BY <1>1, <1>2

LEMMA SpellsWhole ==
  ASSUME NEW v \in Vocabularies
  PROVE  /\ PartByPart(Spells(v), AllIds(v), Nat)
         /\ Spells(v) \in [Seq(AllIds(v)) -> Seq(Nat)] /\ Spells(v)[<<>>] = <<>>
         /\ \A x, y \in Seq(AllIds(v)) : Spells(v)[x \o y] = Spells(v)[x] \o Spells(v)[y]
         /\ \A i \in AllIds(v) : Spells(v)[<<i>>] = Spelt(v[i + 1].piece)
  <1> DEFINE A == AllIds(v)
             out == [i \in A |-> Spelt(v[i + 1].piece)]
  <1>1. out \in [A -> Seq(Nat)] /\ \A i \in A : out[i] = Spelt(v[i + 1].piece)
    <2>1. ASSUME NEW i \in A PROVE Spelt(v[i + 1].piece) \in Seq(Nat)
      <3>1. i + 1 \in 1..Len(v)
        BY VocabularyType DEF AllIds
      <3> QED BY <3>1, VocabularyType, SpeltType
    <2> QED BY <2>1
  <1>2. Spells(v) = EachSpelt(out, A)
    <2>1. ASSUME NEW ids \in Seq(A)
          PROVE  [k \in DOMAIN ids |-> Spelt(v[ids[k] + 1].piece)] = [k \in DOMAIN ids |-> out[ids[k]]]
      <3>1. \A k \in DOMAIN ids : ids[k] \in A
        BY LenProperties, ElementOfSeq
      <3> HIDE DEF out
      <3> QED BY <1>1, <3>1
    <2> HIDE DEF out
    <2> QED BY <2>1 DEF Spells, EachSpelt
  <1> HIDE DEF out
  <1>3. PartByPart(Spells(v), A, Nat) /\ \A i \in A : Spells(v)[<<i>>] = out[i]
    BY <1>1, <1>2, EachIsSpelt
  <1> QED BY <1>1, <1>3, Zenon DEF PartByPart

\* A piece that has an entry has the id of one.
LEMMA PieceToIdIs ==
  ASSUME NEW v \in Vocabularies, NEW p
  PROVE  /\ (Entries(v, p, TRUE) # {} \/ Entries(v, p, FALSE) # {}) =>
              PieceToId(v, p) \in AllIds(v) /\ v[PieceToId(v, p) + 1].piece = p
         /\ Entries(v, p, TRUE) = {} /\ Entries(v, p, FALSE) = {} => PieceToId(v, p) = UnkId(v)
  <1>1. ASSUME NEW b \in BOOLEAN, Entries(v, p, b) # {}
        PROVE  /\ FirstOf(Entries(v, p, b)) - 1 \in AllIds(v)
               /\ v[FirstOf(Entries(v, p, b)) - 1 + 1].piece = p
    <2> DEFINE e == Entries(v, p, b)
               k == FirstOf(e)
    <2>1. e \subseteq Nat
      BY EntriesType
    <2>2. k \in e
      <3> HIDE DEF e
      <3> QED BY <1>1, <2>1, FirstOfIs DEF e
    <2>3. k \in 1..Len(v) /\ v[k].piece = p
      BY <2>2, VocabularyType DEF Entries
    <2> HIDE DEF k
    <2>4. k - 1 \in AllIds(v) /\ k - 1 + 1 = k
      BY <2>3, VocabularyType DEF AllIds
    <2> QED BY <2>3, <2>4 DEF k
  <1>2. CASE Entries(v, p, FALSE) # {}
    <2>1. PieceToId(v, p) = FirstOf(Entries(v, p, FALSE)) - 1
      BY <1>2 DEF PieceToId
    <2> QED BY <1>1, <1>2, <2>1
  <1>3. CASE Entries(v, p, FALSE) = {} /\ Entries(v, p, TRUE) # {}
    <2>1. PieceToId(v, p) = FirstOf(Entries(v, p, TRUE)) - 1
      BY <1>3 DEF PieceToId, IsPiece
    <2> QED BY <1>1, <1>3, <2>1
  <1>4. CASE Entries(v, p, FALSE) = {} /\ Entries(v, p, TRUE) = {}
    BY <1>4 DEF PieceToId, IsPiece
  <1> QED BY <1>2, <1>3, <1>4

LEMMA SpeltOfBytes ==
  ASSUME NEW p \in Seq(0..255) PROVE Spelt(p) = p
  <1>1. Len(p) = 1 => ~(p[1] >= 256)
    <2> SUFFICES ASSUME Len(p) = 1 PROVE ~(p[1] >= 256)
      OBVIOUS
    <2>1. p[1] \in 0..255
      BY ElementOfSeq, 1 \in 1..Len(p), ZenonT(60)
    <2> DEFINE x == p[1]
    <2>2. x \in 0..255
      BY <2>1
    <2> HIDE DEF x
    <2>3. ~(x >= 256)
      BY <2>2
    <2> QED BY <2>3 DEF x
  <1> QED BY <1>1, Zenon DEF Spelt

LEMMA SpeltOfBytePiece ==
  ASSUME NEW b \in 0..255 PROVE Spelt(BytePiece(b)) = <<b>>
  <1>1. BytePiece(b) = <<256 + b>> /\ Len(<<256 + b>>) = 1 /\ <<256 + b>>[1] = 256 + b
    BY DEF BytePiece
  <1>2. 256 + b >= 256 /\ (256 + b) - 256 = b
    OBVIOUS
  <1>3. Spelt(<<256 + b>>) = <<(256 + b) - 256>>
    BY <1>1, <1>2 DEF Spelt
  <1> QED BY <1>1, <1>2, <1>3

\* Single elements make up the sequence.
LEMMA FlattenOfSingles ==
  ASSUME NEW S, NEW p \in Seq(S)
  PROVE  FlattenSeq([k \in 1..Len(p) |-> <<p[k]>>]) = p
  <1> DEFINE F(l) == [k \in 1..l |-> <<p[k]>>]
             T == {l \in Nat : l <= Len(p) => FlattenSeq(F(l)) = SubSeq(p, 1, l)}
  <1>1. 0 \in T
    <2>1. F(0) = <<>> /\ SubSeq(p, 1, 0) = <<>>
      OBVIOUS
    <2>2. FlattenSeq(<<>>) = <<>>
      BY FlattenOfNone
    <2> QED BY <2>1, <2>2
  <1>2. ASSUME NEW l \in Nat, l \in T PROVE l + 1 \in T
    <2> SUFFICES ASSUME l + 1 <= Len(p) PROVE FlattenSeq(F(l + 1)) = SubSeq(p, 1, l + 1)
      <3> HIDE DEF F
      <3> QED OBVIOUS
    <2>1. FlattenSeq(F(l)) = SubSeq(p, 1, l)
      <3>1. l <= Len(p)
        BY LenProperties
      <3> HIDE DEF F
      <3> QED BY <1>2, <3>1
    <2>2. F(l) \in Seq(Seq(S)) /\ <<p[l + 1]>> \in Seq(S) /\ F(l + 1) = Append(F(l), <<p[l + 1]>>)
      <3>1. \A k \in 1..(l + 1) : p[k] \in S
        BY ElementOfSeq
      <3>2. F(l) \in Seq(Seq(S)) /\ <<p[l + 1]>> \in Seq(S)
        BY <3>1
      <3>3. F(l + 1) = Append(F(l), <<p[l + 1]>>)
        <4> DEFINE u == F(l)
                   x == <<p[l + 1]>>
        <4>1. u \in Seq(Seq(S)) /\ x \in Seq(S) /\ Len(u) = l /\ \A k \in 1..l : u[k] = <<p[k]>>
          BY <3>2
        <4> HIDE DEF u
        <4>2. /\ Append(u, x) \in Seq(Seq(S)) /\ Len(Append(u, x)) = l + 1
              /\ \A k \in 1..l : Append(u, x)[k] = u[k]
              /\ Append(u, x)[l + 1] = x
          BY <4>1, AppendProperties
        <4>3. \A k \in 1..(l + 1) : Append(u, x)[k] = <<p[k]>>
          <5>1. \A k \in 1..(l + 1) : k \in 1..l \/ k = l + 1
            OBVIOUS
          <5> QED BY <4>1, <4>2, <5>1
        <4>4. F(l + 1) \in Seq(Seq(S)) /\ Len(F(l + 1)) = l + 1 /\ \A k \in 1..(l + 1) : F(l + 1)[k] = <<p[k]>>
          BY <3>1
        <4> HIDE DEF F, x
        <4>5. F(l + 1) = Append(u, x)
          BY <4>2, <4>3, <4>4, SeqEqual
        <4> QED BY <4>5 DEF u, x
      <3> QED BY <3>2, <3>3
    <2> HIDE DEF F
    <2>3. FlattenSeq(F(l + 1)) = FlattenSeq(F(l)) \o <<p[l + 1]>>
      BY <2>2, FlattenOfMore
    <2>4. SubSeq(p, 1, l + 1) = Append(SubSeq(p, 1, l), p[l + 1]) /\ SubSeq(p, 1, l) \in Seq(S) /\ p[l + 1] \in S
      <3>1. l + 1 \in 1..Len(p)
        OBVIOUS
      <3> QED BY <3>1, HeadOfMore, ElementOfSeq
    <2>5. SubSeq(p, 1, l) \o <<p[l + 1]>> = Append(SubSeq(p, 1, l), p[l + 1])
      BY <2>4, AppendIsConcat
    <2> QED BY <2>1, <2>3, <2>4, <2>5
  <1>3. Nat \subseteq T
    <2> HIDE DEF T
    <2> QED BY <1>1, <1>2, SetInduction
  <1>4. Len(p) \in Nat /\ Len(p) <= Len(p) /\ SubSeq(p, 1, Len(p)) = p
    BY LenProperties, SubSeqFull
  <1>5. Len(p) \in T
    BY <1>3, <1>4
  <1> QED BY <1>4, <1>5

LEMMA PieceIdsSpell ==
  ASSUME NEW v \in Vocabularies, NEW p \in Seq(ByteSet(v))
  PROVE  PieceIds(v, p) \in Seq(AllIds(v)) /\ Spells(v)[PieceIds(v, p)] = p
  <1>0. p \in Seq(0..255) /\ DOMAIN p = 1..Len(p) /\ Len(p) \in Nat /\ \A k \in 1..Len(p) : p[k] \in ByteSet(v)
    <2>1. ByteSet(v) \subseteq 0..255
      BY DEF ByteSet
    <2> QED BY <2>1, SeqMonotonic, LenProperties, ElementOfSeq
  <1>1. CASE PieceToId(v, p) # UnkId(v)
    <2> DEFINE i == PieceToId(v, p)
    <2>1. i \in AllIds(v) /\ v[i + 1].piece = p
      BY <1>1, PieceToIdIs
    <2>2. PieceIds(v, p) = <<i>>
      BY <1>1 DEF PieceIds
    <2> HIDE DEF i
    <2>3. Spells(v)[<<i>>] = Spelt(v[i + 1].piece)
      BY <2>1, SpellsWhole
    <2>4. Spelt(p) = p
      BY <1>0, SpeltOfBytes
    <2>5. <<i>> \in Seq(AllIds(v))
      BY <2>1
    <2> QED BY <2>1, <2>2, <2>3, <2>4, <2>5
  <1>2. CASE PieceToId(v, p) = UnkId(v)
    <2> DEFINE A == AllIds(v)
               id == [k \in 1..Len(p) |-> PieceToId(v, BytePiece(p[k]))]
    <2>1. ASSUME NEW k \in 1..Len(p) PROVE id[k] \in A /\ Spelt(v[id[k] + 1].piece) = <<p[k]>>
      <3> DEFINE b == p[k]
      <3>1. b \in 0..255 /\ \E l \in DOMAIN v : v[l].piece = BytePiece(b)
        BY <1>0 DEF ByteSet
      <3> HIDE DEF b
      <3>2. Entries(v, BytePiece(b), TRUE) # {} \/ Entries(v, BytePiece(b), FALSE) # {}
        <4>1. PICK l \in DOMAIN v : v[l].piece = BytePiece(b)
          BY <3>1
        <4>2. CASE v[l].type = "NORMAL"
          <5>1. l \in Entries(v, BytePiece(b), TRUE)
            BY <4>1, <4>2 DEF Entries
          <5> QED BY <5>1
        <4>3. CASE ~(v[l].type = "NORMAL")
          <5>1. l \in Entries(v, BytePiece(b), FALSE)
            BY <4>1, <4>3 DEF Entries
          <5> QED BY <5>1
        <4> QED BY <4>2, <4>3
      <3>3. PieceToId(v, BytePiece(b)) \in A /\ v[PieceToId(v, BytePiece(b)) + 1].piece = BytePiece(b)
        BY <3>2, PieceToIdIs
      <3>4. Spelt(BytePiece(b)) = <<b>>
        BY <3>1, SpeltOfBytePiece
      <3>5. id[k] = PieceToId(v, BytePiece(b))
        BY DEF b
      <3> HIDE DEF id
      <3> QED BY <3>3, <3>4, <3>5 DEF b
    <2>2. PieceIds(v, p) = id
      BY <1>0, <1>2 DEF PieceIds
    <2>3. id \in Seq(A) /\ DOMAIN id = 1..Len(p)
      <3>1. \A k \in 1..Len(p) : PieceToId(v, BytePiece(p[k])) \in A
        BY <2>1
      <3> HIDE DEF A
      <3> QED BY <1>0, <3>1
    <2> HIDE DEF id
    <2>4. Spells(v)[id] = FlattenSeq([k \in DOMAIN id |-> Spelt(v[id[k] + 1].piece)])
      BY <2>3, Zenon DEF Spells
    <2>5. [k \in DOMAIN id |-> Spelt(v[id[k] + 1].piece)] = [k \in 1..Len(p) |-> <<p[k]>>]
      BY <2>1, <2>3
    <2>6. FlattenSeq([k \in 1..Len(p) |-> <<p[k]>>]) = p
      BY <1>0, FlattenOfSingles
    <2> QED BY <2>2, <2>3, <2>4, <2>5, <2>6
  <1> QED BY <1>1, <1>2

\* A piece has no other bytes than the text that it is part of.
LEMMA PieceOfText ==
  ASSUME NEW w \in Seq(Runs(0..255)), NEW B, FlattenSeq(w) \in Seq(B), NEW k \in 1..Len(w)
  PROVE  w[k] \in Seq(B)
  <1> DEFINE S == 0..255
             n == Len(w)
             x == SubSeq(w, 1, k)
             y == SubSeq(w, k + 1, n)
             u == SubSeq(w, 1, k - 1)
             p == w[k]
  <1>1. w \in Seq(Seq(S)) /\ n \in Nat
    <2>1. Runs(0..255) \subseteq Seq(S)
      BY DEF Runs
    <2> HIDE DEF S
    <2> QED BY <2>1, SeqMonotonic, LenProperties
  <1>2. p \in Seq(S)
    BY <1>1, ElementOfSeq
  <1>3. x \in Seq(Seq(S)) /\ y \in Seq(Seq(S)) /\ x \o y = w
    <2>1. k \in Nat /\ 1 <= k + 1 /\ k <= n /\ 1 \in Nat /\ 1 <= 1 /\ k + 1 \in Nat /\ k + 1 <= n + 1
          /\ n <= Len(w)
      BY <1>1
    <2> HIDE DEF S, n
    <2>2. SubSeq(w, 1, k) \o SubSeq(w, k + 1, n) = SubSeq(w, 1, n)
      BY <1>1, <2>1, PartsJoin
    <2>3. SubSeq(w, 1, n) = w
      BY SubSeqFull DEF n
    <2>4. SubSeq(w, 1, k) \in Seq(Seq(S))
      BY <1>1, <2>1, PartFacts
    <2>5. SubSeq(w, k + 1, n) \in Seq(Seq(S))
      <3> DEFINE a == k + 1
      <3>1. a \in Nat /\ 1 <= a /\ a <= n + 1
        BY <1>1, <2>1
      <3> HIDE DEF a
      <3>2. SubSeq(w, a, n) \in Seq(Seq(S))
        BY <1>1, <2>1, <3>1, PartFacts
      <3> QED BY <3>2 DEF a
    <2> QED BY <2>2, <2>3, <2>4, <2>5
  <1>4. u \in Seq(Seq(S)) /\ x = Append(u, p)
    <2> DEFINE l == k - 1
    <2>1. l \in Nat /\ l + 1 = k /\ l + 1 <= Len(w)
      BY <1>1
    <2> HIDE DEF l, S
    <2>2. SubSeq(w, 1, l) \in Seq(Seq(S)) /\ SubSeq(w, 1, l + 1) = Append(SubSeq(w, 1, l), w[l + 1])
      BY <1>1, <2>1, HeadOfMore
    <2> QED BY <2>1, <2>2 DEF l
  <1> HIDE DEF x, y, u, p, n, S
  <1>5. FlattenSeq(w) = FlattenSeq(x) \o FlattenSeq(y)
    BY <1>3, FlattenOfTwo
  <1>6. FlattenSeq(x) = FlattenSeq(u) \o p
    BY <1>2, <1>4, FlattenOfMore
  <1> DEFINE fu == FlattenSeq(u)
             fy == FlattenSeq(y)
             z == FlattenSeq(w)
  <1>7. fu \in Seq(S) /\ fy \in Seq(S) /\ z = (fu \o p) \o fy
    BY <1>3, <1>4, <1>5, <1>6, FlattenType
  <1>8. z \in Seq(B)
    OBVIOUS
  <1> HIDE DEF fu, fy, z
  <1>9. ASSUME NEW i \in 1..Len(p) PROVE p[i] \in B
    <2>1. Len(fu) \in Nat /\ Len(p) \in Nat /\ Len(fy) \in Nat
      BY <1>2, <1>7, LenProperties
    <2>2. fu \o p \in Seq(S) /\ Len(fu \o p) = Len(fu) + Len(p)
          /\ \A e \in 1..(Len(fu) + Len(p)) : (fu \o p)[e] = IF e <= Len(fu) THEN fu[e] ELSE p[e - Len(fu)]
      BY <1>2, <1>7, ConcatProperties
    <2>3. Len(z) = Len(fu \o p) + Len(fy)
          /\ \A e \in 1..(Len(fu \o p) + Len(fy)) :
               z[e] = IF e <= Len(fu \o p) THEN (fu \o p)[e] ELSE fy[e - Len(fu \o p)]
      BY <1>7, <2>2, ConcatProperties
    <2> DEFINE e == Len(fu) + i
    <2>4. /\ e \in 1..(Len(fu) + Len(p)) /\ ~(e <= Len(fu)) /\ e - Len(fu) = i
          /\ e \in 1..(Len(fu \o p) + Len(fy)) /\ e <= Len(fu \o p)
      BY <2>1, <2>2
    <2> HIDE DEF e
    <2>5. z[e] = p[i]
      BY <2>2, <2>3, <2>4
    <2>6. e \in 1..Len(z)
      BY <2>3, <2>4
    <2>7. z[e] \in B
      BY <1>8, <2>6, ElementOfSeq
    <2> QED BY <2>5, <2>7
  <1>10. Len(p) \in Nat /\ p = [i \in 1..Len(p) |-> p[i]]
    BY <1>2, LenProperties
  <1>11. p \in Seq(B)
    BY <1>2, <1>9
  <1> QED BY <1>11 DEF p

LEMMA IdsSpell ==
  ASSUME NEW v \in Vocabularies, NEW w \in Seq(Runs(0..255)), FlattenSeq(w) \in Seq(ByteSet(v)),
         NEW ids, ids = FlattenSeq([k \in DOMAIN w |-> PieceIds(v, w[k])])
  PROVE  FlattenSeq([k \in DOMAIN ids |-> Spelt(v[ids[k] + 1].piece)]) = FlattenSeq(w)
  <1> DEFINE A == AllIds(v)
             parts == [k \in DOMAIN w |-> PieceIds(v, w[k])]
             spell == Spells(v)
  <1>1. Len(w) \in Nat /\ DOMAIN w = 1..Len(w)
    BY LenProperties
  <1>2. ASSUME NEW k \in 1..Len(w) PROVE PieceIds(v, w[k]) \in Seq(A) /\ spell[PieceIds(v, w[k])] = w[k]
    <2>1. w[k] \in Seq(ByteSet(v))
      BY PieceOfText
    <2> QED BY <2>1, PieceIdsSpell
  <1>3. parts \in Seq(Seq(A)) /\ Len(parts) = Len(w) /\ \A k \in DOMAIN w : parts[k] = PieceIds(v, w[k])
    <2> HIDE DEF A, spell
    <2> QED BY <1>1, <1>2
  <1>4. w \in Seq(Seq(Nat))
    <2>1. Runs(0..255) \subseteq Seq(Nat)
      <3>1. 0..255 \subseteq Nat
        OBVIOUS
      <3>2. \A x \in Seq(0..255) : x \in Seq(Nat)
        BY <3>1, SeqMonotonic
      <3> QED BY <3>2 DEF Runs
    <2> QED BY <2>1, SeqMonotonic
  <1>5. PartByPart(spell, A, Nat)
    BY SpellsWhole DEF PartByPart
  <1>6. ids = FlattenSeq(parts)
    OBVIOUS
  <1> HIDE DEF A, parts, spell
  <1>7. \A k \in DOMAIN w : spell[parts[k]] = w[k]
    BY <1>1, <1>2, <1>3
  <1>8. spell[FlattenSeq(parts)] = FlattenSeq(w)
    <2>1. parts \in Seq(Seq(A)) /\ Len(parts) = Len(w)
      BY <1>3
    <2> DEFINE B == Nat
    <2>2. w \in Seq(Seq(B)) /\ PartByPart(spell, A, B)
      BY <1>4, <1>5
    <2> HIDE DEF B
    <2> QED BY <1>7, <2>1, <2>2, FlattenOfFlat, ZenonT(60)
  <1>9. ids \in Seq(A)
    BY <1>3, <1>6, FlattenType
  <1>10. spell[ids] = FlattenSeq([k \in DOMAIN ids |-> Spelt(v[ids[k] + 1].piece)])
    BY <1>9, Zenon DEF spell, Spells, A
  <1> QED BY <1>6, <1>8, <1>10

-----------------------------------------------------------------------------
(* The invariant.                                                             *)

\* P lists the symbols; what they say is the text, and what merging step by step
\* gives after as many rounds as there were merges.
ListInv(P) ==
  /\ Listed(P, symbols)
  /\ FlattenSeq(PiecesOf(P, symbols)) = normalized
  /\ \A f : Round(f, sentence_pieces, normalized) =>
       \E m \in 0..Len(normalized) :
         f[m] = PiecesOf(P, symbols) /\ m + Len(P) = Len(Characters(normalized))

SpmInv ==
  /\ sentence_pieces \in Vocabularies /\ normalized \in Seq(ByteSet(sentence_pieces))
  /\ symbols \in Symbols /\ Linked(symbols)
  /\ \A h \in agenda : Promised(sentence_pieces, symbols, h)
  /\ Complete(sentence_pieces, symbols, agenda)
  /\ ap \in {"merge", "emitted"} /\ (ap = "emitted" => agenda = {})
  /\ \E P : ListInv(P)
  /\ TextIsSpelt

LEMMA TextType ==
  ASSUME NEW v, NEW text \in Seq(ByteSet(v))
  PROVE  text \in Seq(0..255) /\ Len(text) \in Nat
  <1>1. ByteSet(v) \subseteq 0..255
    BY DEF ByteSet
  <1> QED BY <1>1, SeqMonotonic, LenProperties

LEMMA RoundFollows ==
  ASSUME NEW f, NEW v, NEW text, Round(f, v, text)
  PROVE  \A n \in 0..Len(text) : f[n] = IF n = 0 THEN Characters(text) ELSE BestMerged(v, f[n - 1])
  BY Zenon DEF Round

LEMMA SpmInitInv == SpmInit => SpmInv
  <1> SUFFICES ASSUME NEW in \in SpmInputs, BpeEncode(in) PROVE SpmInv
    BY DEF SpmInit
  <1> DEFINE v == sentence_pieces
             chars == Characters(normalized)
             n == Len(chars)
             P == [j \in 1..n |-> j]
             next(k) == IF k = n THEN 0 ELSE k + 1
  <1>1. v \in Vocabularies /\ normalized \in Seq(ByteSet(v))
    <2>1. v = in[1] /\ normalized = in[2]
      BY DEF BpeEncode
    <2>2. /\ v \in Seq([piece : Seq(Nat), score : Int, type : STRING]) /\ normalized \in Seq(0..255)
          /\ \A k \in DOMAIN normalized : \E l \in DOMAIN v : v[l].piece = BytePiece(normalized[k])
      BY <2>1, SpmAssumption
    <2>3. \A k \in 1..Len(normalized) : normalized[k] \in ByteSet(v)
      <3>1. \A k \in 1..Len(normalized) : normalized[k] \in 0..255 /\ k \in DOMAIN normalized
        BY <2>2, ElementOfSeq, LenProperties
      <3> QED BY <2>2, <3>1 DEF ByteSet
    <2>4. normalized \in Seq(ByteSet(v))
      <3> DEFINE B == ByteSet(v)
      <3>1. \A k \in 1..Len(normalized) : normalized[k] \in B
        BY <2>3
      <3> HIDE DEF B
      <3>2. normalized \in Seq(B)
        BY <2>2, <3>1
      <3> QED BY <3>2 DEF B
    <2> QED BY <2>2, <2>4 DEF Vocabularies
  <1>2. /\ chars \in Seq(Runs(0..255)) /\ n \in Nat /\ n <= Len(normalized) /\ FlattenSeq(chars) = normalized
        /\ Len(normalized) \in Nat
    <2>1. normalized \in Seq(0..255) /\ Len(normalized) \in Nat
      BY <1>1, TextType
    <2> QED BY <2>1, CharactersFacts, LenProperties DEF Runs
  <1>3. symbols = [k \in 1..n |-> [piece |-> chars[k], prev |-> k - 1, next |-> next(k)]]
    BY Zenon DEF BpeEncode
  <1>4. agenda = UNION {NewPair(v, symbols, k, k + 1) : k \in 1..(Len(symbols) - 1)}
        /\ ap = "merge"
    BY DEF BpeEncode
  <1>5. \A k \in 1..n : chars[k] \in Seq(0..255) /\ chars[k] # <<>>
    <2>1. \A k \in 1..n : chars[k] \in Runs(0..255)
      BY <1>2, ElementOfSeq
    <2> QED BY <2>1 DEF Runs
  <1> HIDE DEF chars, n, v
  <1>6. symbols \in Symbols /\ Len(symbols) = n /\ DOMAIN symbols = 1..n
    <2>1. \A k \in 1..n : k - 1 \in Nat /\ next(k) \in Nat
      BY <1>2
    <2> HIDE DEF next
    <2> QED BY <1>2, <1>3, <1>5, <2>1 DEF Symbols
  <1>7. \A k \in 1..n : /\ symbols[k].piece = chars[k] /\ symbols[k].prev = k - 1
                        /\ symbols[k].next = IF k = n THEN 0 ELSE k + 1
    BY <1>3
  <1>8. Linked(symbols)
    <2>1. ASSUME NEW k \in 1..n
          PROVE  symbols[k].prev \in 0..(k - 1) /\ symbols[k].next \in {0} \cup (k + 1)..n
      BY <1>2, <1>7
    <2> QED BY <1>6, <2>1 DEF Linked
  <1>9. P \in Seq(Nat) /\ Len(P) = n /\ \A j \in 1..n : P[j] = j
    BY <1>2
  <1> HIDE DEF P
  <1>10. Listed(P, symbols)
    <2>1. symbols # <<>> => Len(P) > 0 /\ P[1] = 1
      <3> SUFFICES ASSUME symbols # <<>> PROVE Len(P) > 0 /\ P[1] = 1
        OBVIOUS
      <3>1. n \in Nat \ {0}
        BY <1>6, EmptySeq DEF Symbols
      <3>2. 1 \in 1..n /\ n > 0
        BY <3>1
      <3> QED BY <1>9, <3>2
    <2>2. ASSUME NEW j \in 1..n
          PROVE  /\ P[j] \in 1..n /\ symbols[P[j]].piece # <<>>
                 /\ symbols[P[j]].prev = IF j = 1 THEN 0 ELSE P[j - 1]
                 /\ symbols[P[j]].next = IF j = n THEN 0 ELSE P[j + 1]
      <3>1. j # 1 => P[j - 1] = j - 1
        BY <1>2, <1>9
      <3>2. j # n => P[j + 1] = j + 1
        BY <1>2, <1>9
      <3>3. P[j] = j /\ symbols[j].piece # <<>>
        BY <1>5, <1>7, <1>9
      <3>4. symbols[j].prev = IF j = 1 THEN 0 ELSE P[j - 1]
        BY <1>7, <3>1
      <3>5. symbols[j].next = IF j = n THEN 0 ELSE P[j + 1]
        BY <1>7, <3>2
      <3> QED BY <3>3, <3>4, <3>5
    <2>3. \A i, j \in 1..n : i < j => P[i] < P[j]
      BY <1>9
    <2>4. \A k \in 1..n : \E j \in 1..n : P[j] = k
      BY <1>9
    <2> QED BY <1>6, <1>9, <2>1, <2>2, <2>3, <2>4 DEF Listed
  <1>11. PiecesOf(P, symbols) = chars
    <2>1. PiecesOf(P, symbols) = [j \in 1..n |-> chars[j]]
      BY <1>7, <1>9 DEF PiecesOf
    <2>2. chars = [j \in 1..n |-> chars[j]]
      BY <1>2, LenProperties DEF n
    <2> QED BY <2>1, <2>2
  <1>12. ListInv(P)
    <2>1. ASSUME NEW f, Round(f, v, normalized)
          PROVE  \E m \in 0..Len(normalized) : f[m] = chars /\ m + Len(P) = n
      <3>1. 0 \in 0..Len(normalized)
        BY <1>2
      <3>2. f[0] = chars
        BY <2>1, <3>1, RoundFollows DEF chars
      <3>3. 0 + Len(P) = n
        BY <1>2, <1>9
      <3> QED BY <3>1, <3>2, <3>3
    <2> QED BY <1>2, <1>10, <1>11, <2>1 DEF ListInv, v, chars, n
  <1>13. ASSUME NEW k \in 1..(n - 1)
         PROVE  /\ k \in 1..Len(symbols) /\ k + 1 \in (k + 1)..Len(symbols)
                /\ Alive(symbols, k) /\ Alive(symbols, k + 1) /\ symbols[k].next = k + 1
    <2>1. k \in 1..n /\ k + 1 \in 1..n /\ k # n /\ k + 1 \in (k + 1)..n
      BY <1>2
    <2> QED BY <1>5, <1>6, <1>7, <2>1, SMTT(40) DEF Alive
  <1>14. ASSUME NEW h \in agenda PROVE Promised(v, symbols, h) /\ Fresh(symbols, h)
    <2>1. PICK k \in 1..(n - 1) : h \in NewPair(v, symbols, k, k + 1)
      BY <1>4, <1>6
    <2> DEFINE m == k + 1
    <2>2. /\ k \in 1..Len(symbols) /\ m \in (k + 1)..Len(symbols)
          /\ Alive(symbols, k) /\ Alive(symbols, m) /\ symbols[k].next = m
          /\ h \in NewPair(v, symbols, k, m)
      BY <1>13, <2>1
    <2> HIDE DEF m
    <2> QED BY <1>1, <1>6, <2>2, NewPairIs
  <1>15. Complete(v, symbols, agenda)
    <2>1. ASSUME NEW k \in 1..n, symbols[k].next # 0
          PROVE  NewPair(v, symbols, k, symbols[k].next) \subseteq {h \in agenda : Fresh(symbols, h)}
      <3>1. k # n /\ symbols[k].next = k + 1
        BY <1>7, <2>1
      <3>2. k \in 1..(n - 1)
        BY <1>2, <3>1
      <3>3. NewPair(v, symbols, k, k + 1) \subseteq agenda
        BY <1>4, <1>6, <3>2
      <3> QED BY <1>14, <3>1, <3>3
    <2> QED BY <1>6, <2>1 DEF Complete
  <1>16. TextIsSpelt
    BY <1>4 DEF TextIsSpelt
  <1> QED BY <1>1, <1>4, <1>6, <1>8, <1>12, <1>14, <1>15, <1>16 DEF SpmInv, v

LEMMA PopStaleInv == ASSUME SpmInv, PopStale PROVE SpmInv'
  <1>1. PICK h \in agenda : Stale(h) /\ agenda' = agenda \ {h}
    BY DEF PopStale
  <1>2. /\ UNCHANGED <<sentence_pieces, normalized, symbols, encoded, ap>> /\ ap = "merge"
    BY DEF PopStale
  <1>3. ~Fresh(symbols, h)
    BY <1>1 DEF Stale, Fresh, Alive
  <1>4. Complete(sentence_pieces, symbols, agenda')
    BY <1>1, <1>3 DEF SpmInv, Complete
  <1>5. \A g \in agenda' : Promised(sentence_pieces, symbols, g)
    BY <1>1 DEF SpmInv
  <1>6. \A P : ListInv(P) => ListInv(P)'
    BY <1>2 DEF ListInv
  <1>7. TextIsSpelt'
    BY <1>2 DEF TextIsSpelt
  <1>8. (\E P : ListInv(P))'
    BY <1>6 DEF SpmInv
  <1> QED BY <1>2, <1>4, <1>5, <1>7, <1>8 DEF SpmInv

LEMMA MergeInv == ASSUME SpmInv, Merge PROVE SpmInv'
  <1> DEFINE v == sentence_pieces
             s == symbols
             t == symbols'
  <1>1. PICK h \in agenda :
          /\ OnTop(h) /\ ~Stale(h)
          /\ symbols' = Joined(symbols, h.left, h.right)
          /\ agenda' = (agenda \ {h})
                         \cup NewPair(sentence_pieces, symbols', symbols'[h.left].prev, h.left)
                         \cup NewPair(sentence_pieces, symbols', h.left, symbols'[h.left].next)
    BY DEF Merge
  <1>2. UNCHANGED <<sentence_pieces, normalized, encoded, ap>> /\ ap = "merge"
    BY DEF Merge
  <1>3. /\ v \in Vocabularies /\ s \in Symbols /\ Linked(s)
        /\ (\A g \in agenda : Promised(v, s, g)) /\ Complete(v, s, agenda)
        /\ normalized \in Seq(ByteSet(v))
    BY DEF SpmInv
  <1>4. PICK P : ListInv(P)
    BY DEF SpmInv
  <1>5. Listed(P, s) /\ Fresh(s, h) /\ Promised(v, s, h)
    BY <1>1, <1>3, <1>4 DEF ListInv, Stale, Fresh, Alive
  <1>6. \A g \in agenda : g.score < h.score \/ (g.score = h.score /\ h.left <= g.left)
    BY <1>1 DEF OnTop
  <1> HIDE DEF v, s, t
  <1>7. PICK j \in 1..(Len(P) - 1) :
          /\ h.left = P[j] /\ h.right = P[j + 1]
          /\ Able(v, PiecesOf(P, s)) # {} /\ BestOf(v, PiecesOf(P, s)) = j
    BY <1>3, <1>5, <1>6, TopIsBest
  <1> DEFINE Q == Dropped(P, j)
             w == PiecesOf(P, s)
  <1>8. t = Joined(s, h.left, h.right) /\ t = Joined(s, P[j], P[j + 1])
    BY <1>1, <1>7 DEF s, t
  <1>9. Listed(Q, t) /\ PiecesOf(Q, t) = JoinedAt(w, j)
    BY <1>3, <1>5, <1>8, MergedList, MergedPieces
  <1>10. w \in Seq(Runs(0..255)) /\ Len(w) = Len(P) /\ Len(P) \in Nat
    BY <1>3, <1>5, PiecesType
  <1>11. Len(Q) = Len(P) - 1
    <2>1. Len(P) - 1 \in Nat
      BY <1>10
    <2> QED BY <2>1 DEF Dropped
  <1>12. h.left \in 1..Len(s) /\ h.right \in (h.left + 1)..Len(s)
    BY <1>5 DEF Promised
  <1>13. t \in Symbols /\ Linked(t)
    <2> DEFINE l == h.left
               r == h.right
    <2>1. l \in 1..Len(s) /\ r \in (l + 1)..Len(s) /\ t = Joined(s, l, r)
      BY <1>8, <1>12
    <2> HIDE DEF l, r
    <2>2. Joined(s, l, r) \in Symbols /\ Linked(Joined(s, l, r))
      BY <1>3, <2>1, JoinedIs
    <2> QED BY <2>1, <2>2
  <1> HIDE DEF Q, w
  <1>14. (\A g \in agenda' : Promised(v, t, g)) /\ Complete(v, t, agenda')
    <2> DEFINE b == agenda'
    <2>1. b = (agenda \ {h}) \cup NewPair(v, t, t[h.left].prev, h.left)
                             \cup NewPair(v, t, h.left, t[h.left].next)
      BY <1>1 DEF v, t
    <2> HIDE DEF b
    <2>2. (\A g \in b : Promised(v, t, g)) /\ Complete(v, t, b)
      BY <1>3, <1>5, <1>8, <1>9, <2>1, MergedAgenda
    <2> QED BY <2>2 DEF b
  <1>15. BestMerged(v, w) = JoinedAt(w, j)
    BY <1>7, Zenon DEF BestMerged, JoinedAt, w
  <1>16. FlattenSeq(PiecesOf(Q, t)) = normalized
    <2>1. j \in 1..(Len(w) - 1)
      BY <1>10
    <2>2. FlattenSeq(JoinedAt(w, j)) = FlattenSeq(w)
      BY <1>10, <2>1, JoinedAtFacts
    <2>3. FlattenSeq(w) = normalized
      BY <1>4 DEF ListInv, w, s
    <2> QED BY <1>9, <2>2, <2>3
  <1>17. ASSUME NEW f, Round(f, v, normalized)
         PROVE  \E m \in 0..Len(normalized) :
                  f[m] = PiecesOf(Q, t) /\ m + Len(Q) = Len(Characters(normalized))
    <2>1. PICK m \in 0..Len(normalized) :
            f[m] = w /\ m + Len(P) = Len(Characters(normalized))
      BY <1>4, <1>17 DEF ListInv, w, v, s
    <2>2. Len(Characters(normalized)) <= Len(normalized) /\ Len(Characters(normalized)) \in Nat
          /\ Len(normalized) \in Nat
      <3>1. normalized \in Seq(0..255) /\ Len(normalized) \in Nat
        BY <1>3, TextType
      <3> QED BY <3>1, CharactersFacts, LenProperties
    <2> DEFINE c == Len(Characters(normalized))
               z == Len(normalized)
    <2>3. m + 1 \in 0..z /\ m + 1 # 0 /\ (m + 1) - 1 = m /\ m + 1 + Len(Q) = c
      <3>1. Len(P) >= 2
        BY <1>10
      <3>2. m + Len(P) = c /\ c <= z /\ c \in Nat /\ z \in Nat /\ m \in 0..z
        BY <2>1, <2>2
      <3> HIDE DEF c, z
      <3> QED BY <1>10, <1>11, <3>1, <3>2
    <2>4. f[m + 1] = BestMerged(v, f[(m + 1) - 1])
      BY <1>17, <2>3, RoundFollows, Zenon DEF z
    <2>5. f[m + 1] = PiecesOf(Q, t)
      BY <1>9, <1>15, <2>1, <2>3, <2>4
    <2> QED BY <2>3, <2>5
  <1>18. ListInv(Q)'
    BY <1>2, <1>9, <1>16, <1>17 DEF ListInv, v, t
  <1>19. TextIsSpelt'
    BY <1>2 DEF TextIsSpelt
  <1>20. (\E R : ListInv(R))'
    BY <1>18
  <1> QED BY <1>2, <1>3, <1>13, <1>14, <1>19, <1>20 DEF SpmInv, v, t

LEMMA EmitIdsInv == ASSUME SpmInv, EmitIds PROVE SpmInv'
  <1>1. /\ agenda = {} /\ ap' = "emitted"
        /\ UNCHANGED <<sentence_pieces, normalized, symbols, agenda>>
        /\ encoded' = LET pieces == Chain(symbols)
                      IN  FlattenSeq([k \in DOMAIN pieces |-> PieceIds(sentence_pieces, pieces[k])])
    BY DEF EmitIds
  <1>2. PICK P : ListInv(P)
    BY DEF SpmInv
  <1> DEFINE w == PiecesOf(P, symbols)
             ids == encoded'
             v == sentence_pieces
  <1>3. Chain(symbols) = w /\ w \in Seq(Runs(0..255)) /\ FlattenSeq(w) = normalized
    BY <1>2, ChainIsListed, PiecesType DEF SpmInv, ListInv
  <1>4. ids = FlattenSeq([k \in DOMAIN w |-> PieceIds(v, w[k])])
    BY <1>1, <1>3
  <1>5. v \in Vocabularies /\ FlattenSeq(w) \in Seq(ByteSet(v))
    BY <1>3 DEF SpmInv
  <1>6. FlattenSeq([k \in DOMAIN ids |-> Spelt(v[ids[k] + 1].piece)]) = FlattenSeq(w)
    <2> HIDE DEF w, ids, v
    <2> QED BY <1>3, <1>4, <1>5, IdsSpell
  <1>7. TextIsSpelt'
    BY <1>1, <1>3, <1>6 DEF TextIsSpelt
  <1>8. ListInv(P)'
    BY <1>1, <1>2 DEF ListInv
  <1>9. (\E R : ListInv(R))'
    BY <1>8
  <1> QED BY <1>1, <1>7, <1>9 DEF SpmInv

LEMMA SpmInvAlways == SpmSpec => []SpmInv
  <1>1. ASSUME SpmInv, [SpmNext]_spmVars PROVE SpmInv'
    <2>1. CASE UNCHANGED spmVars
      <3>1. \A P : ListInv(P) => ListInv(P)'
        BY <2>1 DEF ListInv, spmVars
      <3>2. (\E P : ListInv(P))'
        BY <1>1, <3>1 DEF SpmInv
      <3>3. TextIsSpelt'
        BY <1>1, <2>1 DEF SpmInv, TextIsSpelt, spmVars
      <3> QED BY <1>1, <2>1, <3>2, <3>3 DEF SpmInv, spmVars
    <2> QED BY <1>1, <2>1, PopStaleInv, MergeInv, EmitIdsInv DEF SpmNext
  <1> QED BY <1>1, SpmInitInv, PTL DEF SpmSpec

-----------------------------------------------------------------------------
(* What it implies.                                                           *)

\* When nothing can be merged any more the rounds that are left change nothing.
LEMMA NothingMore ==
  ASSUME NEW v, NEW text, NEW f, Round(f, v, text), Len(text) \in Nat, NEW m \in 0..Len(text),
         Able(v, f[m]) = {}
  PROVE  f[Len(text)] = f[m]
  <1> DEFINE z == Len(text)
             T == {d \in Nat : m + d <= z => f[m + d] = f[m]}
  <1>1. 0 \in T
    BY m + 0 = m
  <1>2. ASSUME NEW d \in Nat, d \in T PROVE d + 1 \in T
    <2> SUFFICES ASSUME m + (d + 1) <= z PROVE f[m + (d + 1)] = f[m]
      OBVIOUS
    <2> DEFINE n == m + (d + 1)
    <2>1. n \in 0..z /\ n # 0 /\ n - 1 = m + d /\ m + d <= z
      OBVIOUS
    <2> HIDE DEF n
    <2>2. f[n] = BestMerged(v, f[n - 1])
      BY <2>1, RoundFollows, Zenon
    <2>3. f[n - 1] = f[m]
      BY <1>2, <2>1
    <2>4. BestMerged(v, f[m]) = f[m]
      BY Zenon DEF BestMerged
    <2> QED BY <2>2, <2>3, <2>4 DEF n
  <1>3. Nat \subseteq T
    <2> HIDE DEF T
    <2> QED BY <1>1, <1>2, SetInduction
  <1>4. z - m \in Nat /\ m + (z - m) = z /\ z <= z
    OBVIOUS
  <1>5. z - m \in T
    BY <1>3, <1>4, Zenon
  <1> QED BY <1>4, <1>5

LEMMA TypeFollows == SpmInv => SpmTypeOK
  <1> SUFFICES ASSUME SpmInv PROVE SpmTypeOK
    OBVIOUS
  <1>1. normalized \in Seq(0..255)
    BY TextType DEF SpmInv
  <1>2. \A h \in agenda : h.left \in DOMAIN symbols /\ h.right \in (h.left + 1)..Len(symbols)
    BY SymbolType DEF SpmInv, Promised
  <1> QED BY <1>1, <1>2 DEF SpmTypeOK, SpmInv, Linked

LEMMA AgendaFollows == SpmInv => AgendaIsComplete
  <1> SUFFICES ASSUME SpmInv, NEW k \in DOMAIN symbols, symbols[k].piece # <<>>,
                      symbols[k].next # 0
               PROVE  /\ symbols[symbols[k].next].prev = k
                      /\ NewPair(sentence_pieces, symbols, k, symbols[k].next)
                           \subseteq {h \in agenda : ~Stale(h)}
    BY DEF AgendaIsComplete
  <1>1. symbols \in Symbols /\ k \in 1..Len(symbols) /\ Alive(symbols, k)
    BY SymbolType DEF SpmInv, Alive
  <1>2. PICK P : Listed(P, symbols)
    BY DEF SpmInv, ListInv
  <1>3. symbols[symbols[k].next].prev = k
    BY <1>1, <1>2, Neighbours
  <1>4. NewPair(sentence_pieces, symbols, k, symbols[k].next)
          \subseteq {h \in agenda : Fresh(symbols, h)}
    BY <1>1 DEF SpmInv, Complete
  <1>5. \A h : Fresh(symbols, h) => ~Stale(h)
    BY DEF Fresh, Stale, Alive
  <1> QED BY <1>3, <1>4, <1>5

LEMMA MergesFollow == SpmInv => MergedAsTextbook
  <1> SUFFICES ASSUME SpmInv, ap = "emitted"
               PROVE  Chain(symbols) = Textbook(sentence_pieces, normalized)
    BY DEF MergedAsTextbook
  <1> DEFINE v == sentence_pieces
             z == Len(normalized)
  <1>1. PICK P : ListInv(P)
    BY DEF SpmInv
  <1>2. Chain(symbols) = PiecesOf(P, symbols)
    BY <1>1, ChainIsListed DEF SpmInv, ListInv
  <1>3. Able(v, PiecesOf(P, symbols)) = {}
    BY <1>1, EmptyIsDone DEF SpmInv, ListInv
  <1>4. z \in Nat
    BY TextType DEF SpmInv
  <1>5. PICK f : Round(f, v, normalized) /\ Textbook(v, normalized) = f[z]
    BY <1>4, TextbookIs
  <1>6. PICK m \in 0..z : f[m] = PiecesOf(P, symbols)
    BY <1>1, <1>5 DEF ListInv
  <1>7. f[z] = f[m]
    BY <1>3, <1>4, <1>5, <1>6, NothingMore
  <1> QED BY <1>2, <1>5, <1>6, <1>7

\* The agenda that is never searched, with the stale entries in it, merges what searching
\* all pairs again after every merge would, and the ids spell the text byte for byte
\* (Sentencepiece::bpe_encode and encode, tokenizer.cpp).
THEOREM SpmIsAlwaysTextbook == SpmSpec => []SpmIsTextbook
  <1>1. SpmInv => SpmIsTextbook
    BY TypeFollows, AgendaFollows, MergesFollow DEF SpmInv, SpmIsTextbook
  <1> QED BY <1>1, SpmInvAlways, PTL
=============================================================================
