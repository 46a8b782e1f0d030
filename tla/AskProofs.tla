-------------------------------- MODULE AskProofs --------------------------------
(***************************************************************************)
(* However often llmd dies and whenever, an ask shows its own answer and all  *)
(* of it, but for the cases the model names: for any number of questions, any *)
(* length of answers, any number of rounds.                                   *)
(***************************************************************************)
EXTENDS AskSh, SequenceTheorems, TLAPS

-----------------------------------------------------------------------------
(* Lines in a queue. *)

\* q stands at two places of s.
Double(s, q) == \E i, j \in DOMAIN s : i # j /\ s[i] = q /\ s[j] = q

LEMMA AppendFacts ==
  ASSUME NEW S, NEW s \in Seq(S), NEW x \in S
  PROVE  /\ Append(s, x) \in Seq(S) /\ Len(Append(s, x)) = Len(s) + 1 /\ Len(s) \in Nat
         /\ Elements(Append(s, x)) = Elements(s) \cup {x}
         /\ \A q : Double(Append(s, x), q) => Double(s, q) \/ (x = q /\ q \in Elements(s))
  <1> DEFINE t == Append(s, x)
  <1>1. /\ t \in Seq(S) /\ Len(t) = Len(s) + 1 /\ Len(s) \in Nat
        /\ \A i \in 1..Len(s) : t[i] = s[i]
        /\ t[Len(s) + 1] = x
    BY AppendProperties
  <1>2. DOMAIN t = 1..(Len(s) + 1) /\ DOMAIN s = 1..Len(s)
    BY <1>1, LenProperties
  <1> HIDE DEF t
  <1>3. \A i \in DOMAIN t : i \in DOMAIN s \/ i = Len(s) + 1
    BY <1>1, <1>2
  <1>4. DOMAIN s \subseteq DOMAIN t /\ Len(s) + 1 \in DOMAIN t
    BY <1>1, <1>2
  <1>5. Elements(t) = Elements(s) \cup {x}
    BY <1>1, <1>2, <1>3, <1>4 DEF Elements
  <1>6. \A q : Double(t, q) => Double(s, q) \/ (x = q /\ q \in Elements(s))
    BY <1>1, <1>2, <1>3 DEF Double, Elements
  <1> QED BY <1>1, <1>5, <1>6 DEF t

LEMMA TailFacts ==
  ASSUME NEW S, NEW s \in Seq(S), s # <<>>
  PROVE  /\ Tail(s) \in Seq(S) /\ Len(Tail(s)) = Len(s) - 1 /\ Len(s) \in Nat /\ Head(s) \in S
         /\ Elements(s) = Elements(Tail(s)) \cup {Head(s)}
         /\ \A q : Double(Tail(s), q) => Double(s, q)
         /\ Head(s) \in Elements(Tail(s)) => Double(s, Head(s))
  <1> DEFINE t == Tail(s)
  <1>1. /\ t \in Seq(S) /\ Len(t) = Len(s) - 1 /\ Len(s) \in Nat /\ Len(s) >= 1
        /\ \A i \in 1..Len(t) : t[i] = s[i + 1]
        /\ Head(s) = s[1] /\ Head(s) \in S
    BY HeadTailProperties, EmptySeq, ElementOfSeq
  <1>2. DOMAIN t = 1..(Len(s) - 1) /\ DOMAIN s = 1..Len(s)
    BY <1>1, LenProperties
  <1> HIDE DEF t
  <1>3. \A i \in DOMAIN t : i + 1 \in DOMAIN s /\ i + 1 # 1 /\ t[i] = s[i + 1]
    BY <1>1, <1>2
  <1>4. \A i \in DOMAIN s : i = 1 \/ (i - 1 \in DOMAIN t /\ t[i - 1] = s[i])
    BY <1>1, <1>2
  <1>5. 1 \in DOMAIN s
    BY <1>1, <1>2
  <1>6. Elements(s) = Elements(t) \cup {Head(s)}
    <2>1. Elements(s) \subseteq Elements(t) \cup {Head(s)}
      BY <1>1, <1>4 DEF Elements
    <2>2. Elements(t) \cup {Head(s)} \subseteq Elements(s)
      BY <1>1, <1>3, <1>5 DEF Elements
    <2> QED BY <2>1, <2>2
  <1>7. \A i, j \in DOMAIN t : i # j => i + 1 # j + 1
    BY <1>2
  <1>8. \A q : Double(t, q) => Double(s, q)
    BY <1>3, <1>7 DEF Double
  <1>9. Head(s) \in Elements(t) => Double(s, Head(s))
    BY <1>1, <1>3, <1>5 DEF Double, Elements
  <1> QED BY <1>1, <1>6, <1>8, <1>9 DEF t

LEMMA EmptyFacts ==
  /\ \A S : <<>> \in Seq(S)
  /\ Len(<<>>) = 0 /\ Elements(<<>>) = {} /\ \A q : ~Double(<<>>, q)
  BY DEF Elements, Double

LEMMA Bounds ==
  /\ Asks \in Nat \ {0} /\ Words \in Nat \ {0} /\ ResendAt \in Nat \ {0} /\ GiveUpAt \in Nat \ {0}
  /\ ResendAt < GiveUpAt
  BY AskAssumption

-----------------------------------------------------------------------------
(* The inductive invariant. *)

Active == ask # "none"
Waiting == ask \in {"look", "show"}
Pipe == Elements(llm_in) \cup Elements(taken)

\* Some question up to p was sent twice, or the warm-up was answered: only then
\* a DONE may be of another question.
Blurred(p) == (\E r \in 1..p : r \in repeats) \/ WarmUp \in answered

DataOK ==
  /\ llm_in \in Seq(Lines) /\ taken \in Seq(Lines) /\ log \in Seq(Lines)
  /\ printed \subseteq 1..Words /\ repeats \subseteq Questions /\ answered \subseteq Lines
  /\ outcome \in [Questions -> {"open", "own", "other", "gaveup"}]
  /\ unseen \in BOOLEAN /\ hurried \in BOOLEAN
  /\ Active => asked \in Questions

\* Nobody knows a question before it is written.
Fresh ==
  \A q \in Questions :
    q \in Pipe \cup {whose} \cup answered \cup repeats =>
      q <= asked /\ (ask = "write" => q # asked)

\* A question that was sent once is on its way once, and answered after that.
SentOnce ==
  \A q \in Questions \ repeats :
    /\ ~Double(llm_in, q) /\ ~Double(taken, q)
    /\ ~(q \in Elements(llm_in) /\ q \in Elements(taken))
    /\ q \in Pipe => q \notin answered

\* How an ask ends.
Ended ==
  \A q \in Questions :
    IF q < asked \/ (q = asked /\ ~Active) THEN q \in answered \/ Blurred(q)
                                         ELSE outcome[q] = "open"

\* A DONE that is new to the ask is its own, or things are blurred.
NewDone ==
  Active /\ (Len(log) > LB \/ (ask = "show" /\ now > LB)) =>
    asked \in answered \/ Blurred(asked - 1)

\* An ask that waits long has sent its question again; it has not waited too long.
Resending ==
  /\ Waiting => (n > ResendAt => resent) /\ (resent => asked \in repeats)
  /\ ask = "show" => n < GiveUpAt

\* The answer file is that of the question llmd works on.
FileOK == llmd = "answering" /\ Head(taken) # WarmUp => whose = Head(taken)

\* What the ask has printed, while nothing went by too fast for it.
Printing ==
  Active /\ ~hurried =>
    /\ ~Waiting /\ whose = asked => text = 0
    /\ Waiting /\ whose = asked =>
         IF unseen THEN text < shown ELSE shown <= text /\ 1..shown \subseteq printed
    /\ asked \in answered =>
         Waiting /\ (1..Words \subseteq printed \/ (whose = asked /\ text = Words))

\* Each ask sends its question twice at most, and chatd one.
Room ==
  Len(log) + Len(llm_in) + Len(taken)
    + (IF warm = "over" THEN 0 ELSE 1)
    + (IF ask = "write" THEN 2
       ELSE IF ask = "measure" \/ (Waiting /\ ~resent) THEN 1 ELSE 0)
  <= 2 * asked + 1

AskInv ==
  /\ TypeOK /\ DataOK /\ Fresh /\ SentOnce /\ Ended /\ NewDone /\ Resending
  /\ FileOK /\ Printing /\ Room /\ AnswerIsOwn /\ PrintedWhole

LEMMA AskInitInv == Init => AskInv
  <1> SUFFICES ASSUME Init PROVE AskInv
    OBVIOUS
  <1>1. TypeOK
    <2>1. Len(log) <= 2 * Asks + 1 /\ n \in 0..GiveUpAt /\ text \in 0..Words /\ shown \in 0..Words
      BY EmptyFacts, AskAssumption DEF Init
    <2>2. Elements(llm_in) \cup Elements(taken) \cup Elements(log) \subseteq Lines
      BY EmptyFacts DEF Init
    <2> QED BY <2>1, <2>2 DEF Init, TypeOK
  <1>2. DataOK
    BY EmptyFacts DEF Init, DataOK, Active
  <1>3. Fresh /\ SentOnce /\ Ended /\ NewDone
    BY EmptyFacts, AskAssumption
       DEF Init, Fresh, SentOnce, Ended, NewDone, Pipe, Questions, Active
  <1>4. Resending /\ FileOK /\ Printing /\ AnswerIsOwn /\ PrintedWhole
    BY DEF Init, Resending, FileOK, Printing, Active, Waiting, AnswerIsOwn, PrintedWhole
  <1>5. Room
    BY EmptyFacts DEF Init, Room, Waiting
  <1> QED BY <1>1, <1>2, <1>3, <1>4, <1>5 DEF AskInv

-----------------------------------------------------------------------------
(* One lemma per action, or for a few that are alike. *)

\* chatd sees that somebody asks and leaves the warm-up out.
LEMMA WarmSkipsInv == ASSUME AskInv, WarmSkips PROVE AskInv'
  <1> USE AskAssumption DEF AskInv, Questions, WarmUp
  <1>1. TypeOK'
    BY DEF TypeOK, DataOK, Lines, Active, fifo, daemon, script, history, WarmSkips
  <1>2. DataOK'
    BY DEF TypeOK, DataOK, Lines, Active, fifo, daemon, script, history, WarmSkips
  <1>3. Fresh'
    BY DEF Fresh, Pipe, fifo, daemon, script, history, WarmSkips
  <1>4. SentOnce'
    BY DEF SentOnce, Pipe, Fresh, fifo, daemon, script, history, WarmSkips
  <1>5. Ended'
    BY DEF Ended, Active, Blurred, fifo, daemon, script, history, WarmSkips
  <1>6. NewDone'
    BY DEF NewDone, Active, Blurred, TypeOK, fifo, daemon, script, history, WarmSkips
  <1>7. Resending'
    BY DEF Resending, Waiting, fifo, daemon, script, history, WarmSkips
  <1>8. FileOK'
    BY DEF FileOK, fifo, daemon, script, history, WarmSkips
  <1>9. Printing'
    BY DEF Printing, Active, Waiting, fifo, daemon, script, history, WarmSkips
  <1>10. Room'
    BY DEF Room, Waiting, DataOK, TypeOK, fifo, daemon, script, history, WarmSkips
  <1>11. AnswerIsOwn'
    BY DEF AnswerIsOwn, fifo, daemon, script, history, WarmSkips
  <1>12. PrintedWhole'
    BY DEF PrintedWhole, fifo, daemon, script, history, WarmSkips
  <1> QED BY <1>1, <1>2, <1>3, <1>4, <1>5, <1>6, <1>7, <1>8, <1>9, <1>10, <1>11, <1>12

\* chatd sees nobody and is about to warm up.
LEMMA WarmLastLookInv == ASSUME AskInv, WarmLastLook PROVE AskInv'
  <1> USE AskAssumption DEF AskInv, Questions, WarmUp
  <1>1. TypeOK'
    BY DEF TypeOK, DataOK, Lines, Active, fifo, daemon, script, history, WarmLastLook
  <1>2. DataOK'
    BY DEF TypeOK, DataOK, Lines, Active, fifo, daemon, script, history, WarmLastLook
  <1>3. Fresh'
    BY DEF Fresh, Pipe, fifo, daemon, script, history, WarmLastLook
  <1>4. SentOnce'
    BY DEF SentOnce, Pipe, Fresh, fifo, daemon, script, history, WarmLastLook
  <1>5. Ended'
    BY DEF Ended, Active, Blurred, fifo, daemon, script, history, WarmLastLook
  <1>6. NewDone'
    BY DEF NewDone, Active, Blurred, TypeOK, fifo, daemon, script, history, WarmLastLook
  <1>7. Resending'
    BY DEF Resending, Waiting, fifo, daemon, script, history, WarmLastLook
  <1>8. FileOK'
    BY DEF FileOK, fifo, daemon, script, history, WarmLastLook
  <1>9. Printing'
    BY DEF Printing, Active, Waiting, fifo, daemon, script, history, WarmLastLook
  <1>10. Room'
    BY DEF Room, Waiting, DataOK, TypeOK, fifo, daemon, script, history, WarmLastLook
  <1>11. AnswerIsOwn'
    BY DEF AnswerIsOwn, fifo, daemon, script, history, WarmLastLook
  <1>12. PrintedWhole'
    BY DEF PrintedWhole, fifo, daemon, script, history, WarmLastLook
  <1> QED BY <1>1, <1>2, <1>3, <1>4, <1>5, <1>6, <1>7, <1>8, <1>9, <1>10, <1>11, <1>12

\* llmd is ready.
LEMMA LoadedInv == ASSUME AskInv, Loaded PROVE AskInv'
  <1> USE AskAssumption DEF AskInv, Questions, WarmUp
  <1>1. TypeOK'
    BY DEF TypeOK, DataOK, Lines, Active, fifo, daemon, script, history, Loaded
  <1>2. DataOK'
    BY DEF TypeOK, DataOK, Lines, Active, fifo, daemon, script, history, Loaded
  <1>3. Fresh'
    BY DEF Fresh, Pipe, fifo, daemon, script, history, Loaded
  <1>4. SentOnce'
    BY DEF SentOnce, Pipe, Fresh, fifo, daemon, script, history, Loaded
  <1>5. Ended'
    BY DEF Ended, Active, Blurred, fifo, daemon, script, history, Loaded
  <1>6. NewDone'
    BY DEF NewDone, Active, Blurred, TypeOK, fifo, daemon, script, history, Loaded
  <1>7. Resending'
    BY DEF Resending, Waiting, fifo, daemon, script, history, Loaded
  <1>8. FileOK'
    BY DEF FileOK, fifo, daemon, script, history, Loaded
  <1>9. Printing'
    BY DEF Printing, Active, Waiting, fifo, daemon, script, history, Loaded
  <1>10. Room'
    BY DEF Room, Waiting, DataOK, TypeOK, fifo, daemon, script, history, Loaded
  <1>11. AnswerIsOwn'
    BY DEF AnswerIsOwn, fifo, daemon, script, history, Loaded
  <1>12. PrintedWhole'
    BY DEF PrintedWhole, fifo, daemon, script, history, Loaded
  <1> QED BY <1>1, <1>2, <1>3, <1>4, <1>5, <1>6, <1>7, <1>8, <1>9, <1>10, <1>11, <1>12

\* ask.sh counts the DONE lines.
LEMMA LookInv == ASSUME AskInv, Look PROVE AskInv'
  <1> USE AskAssumption DEF AskInv, Questions, WarmUp
  <1>1. TypeOK'
    BY SMTT(40) DEF TypeOK, DataOK, Lines, Active, fifo, daemon, script, history, Look
  <1>2. DataOK'
    BY DEF TypeOK, DataOK, Lines, Active, fifo, daemon, script, history, Look
  <1>3. Fresh'
    BY DEF Fresh, Pipe, fifo, daemon, script, history, Look
  <1>4. SentOnce'
    BY DEF SentOnce, Pipe, Fresh, fifo, daemon, script, history, Look
  <1>5. Ended'
    BY DEF Ended, Active, Blurred, fifo, daemon, script, history, Look
  <1>6. NewDone'
    BY DEF NewDone, Active, Blurred, TypeOK, fifo, daemon, script, history, Look
  <1>7. Resending'
    BY DEF Resending, Waiting, fifo, daemon, script, history, Look
  <1>8. FileOK'
    BY DEF FileOK, fifo, daemon, script, history, Look
  <1>9. Printing'
    BY DEF Printing, Active, Waiting, fifo, daemon, script, history, Look
  <1>10. Room'
    BY DEF Room, Waiting, DataOK, TypeOK, fifo, daemon, script, history, Look
  <1>11. AnswerIsOwn'
    BY DEF AnswerIsOwn, fifo, daemon, script, history, Look
  <1>12. PrintedWhole'
    BY DEF PrintedWhole, fifo, daemon, script, history, Look
  <1> QED BY <1>1, <1>2, <1>3, <1>4, <1>5, <1>6, <1>7, <1>8, <1>9, <1>10, <1>11, <1>12

\* The warm-up question goes out.
LEMMA WarmWritesInv == ASSUME AskInv, WarmWrites PROVE AskInv'
  <1> USE AskAssumption DEF AskInv, Questions, WarmUp
  <1>0. /\ llm_in' \in Seq(Lines) /\ Len(llm_in') = Len(llm_in) + 1 /\ Len(llm_in) \in Nat
        /\ Elements(llm_in') = Elements(llm_in) \cup {WarmUp}
        /\ \A q : Double(llm_in', q) => Double(llm_in, q) \/ (WarmUp = q /\ q \in Elements(llm_in))
    <2>1. WarmUp \in Lines /\ llm_in \in Seq(Lines) /\ llm_in' = Append(llm_in, WarmUp)
      BY DEF Lines, DataOK, WarmWrites
    <2> QED BY <2>1, AppendFacts
  <1>1. TypeOK'
    BY <1>0 DEF TypeOK, DataOK, Lines, Active, fifo, daemon, script, history, WarmWrites
  <1>2. DataOK'
    BY <1>0 DEF TypeOK, DataOK, Lines, Active, fifo, daemon, script, history, WarmWrites
  <1>3. Fresh'
    BY <1>0 DEF Fresh, Pipe, fifo, daemon, script, history, WarmWrites
  <1>4. SentOnce'
    BY <1>0 DEF SentOnce, Pipe, Fresh, fifo, daemon, script, history, WarmWrites
  <1>5. Ended'
    BY <1>0 DEF Ended, Active, Blurred, fifo, daemon, script, history, WarmWrites
  <1>6. NewDone'
    BY <1>0 DEF NewDone, Active, Blurred, TypeOK, fifo, daemon, script, history, WarmWrites
  <1>7. Resending'
    BY <1>0 DEF Resending, Waiting, fifo, daemon, script, history, WarmWrites
  <1>8. FileOK'
    BY <1>0 DEF FileOK, fifo, daemon, script, history, WarmWrites
  <1>9. Printing'
    BY <1>0 DEF Printing, Active, Waiting, fifo, daemon, script, history, WarmWrites
  <1>10. Room'
    BY <1>0 DEF Room, Waiting, DataOK, TypeOK, fifo, daemon, script, history, WarmWrites
  <1>11. AnswerIsOwn'
    BY <1>0 DEF AnswerIsOwn, fifo, daemon, script, history, WarmWrites
  <1>12. PrintedWhole'
    BY <1>0 DEF PrintedWhole, fifo, daemon, script, history, WarmWrites
  <1> QED BY <1>1, <1>2, <1>3, <1>4, <1>5, <1>6, <1>7, <1>8, <1>9, <1>10, <1>11, <1>12

\* chatd starts llmd again, with an empty log.
LEMMA RespawnInv == ASSUME AskInv, RespawnLlmd PROVE AskInv'
  <1> USE AskAssumption DEF AskInv, Questions, WarmUp
  <1>1. TypeOK'
    BY EmptyFacts, SMTT(40) DEF TypeOK, DataOK, Lines, Active, fifo, daemon, script, history, RespawnLlmd
  <1>2. DataOK'
    BY EmptyFacts DEF TypeOK, DataOK, Lines, Active, fifo, daemon, script, history, RespawnLlmd
  <1>3. Fresh'
    BY EmptyFacts DEF Fresh, Pipe, fifo, daemon, script, history, RespawnLlmd
  <1>4. SentOnce'
    BY EmptyFacts DEF SentOnce, Pipe, Fresh, fifo, daemon, script, history, RespawnLlmd
  <1>5. Ended'
    BY EmptyFacts DEF Ended, Active, Blurred, fifo, daemon, script, history, RespawnLlmd
  <1>6. NewDone'
    BY EmptyFacts DEF NewDone, Active, Blurred, TypeOK, fifo, daemon, script, history, RespawnLlmd
  <1>7. Resending'
    BY EmptyFacts DEF Resending, Waiting, fifo, daemon, script, history, RespawnLlmd
  <1>8. FileOK'
    BY EmptyFacts DEF FileOK, fifo, daemon, script, history, RespawnLlmd
  <1>9. Printing'
    BY EmptyFacts DEF Printing, Active, Waiting, fifo, daemon, script, history, RespawnLlmd
  <1>10. Room'
    BY EmptyFacts DEF Room, Waiting, DataOK, TypeOK, fifo, daemon, script, history, RespawnLlmd
  <1>11. AnswerIsOwn'
    BY EmptyFacts DEF AnswerIsOwn, fifo, daemon, script, history, RespawnLlmd
  <1>12. PrintedWhole'
    BY EmptyFacts DEF PrintedWhole, fifo, daemon, script, history, RespawnLlmd
  <1> QED BY <1>1, <1>2, <1>3, <1>4, <1>5, <1>6, <1>7, <1>8, <1>9, <1>10, <1>11, <1>12

\* llmd takes all lines there are.
LEMMA TakeInv == ASSUME AskInv, Take PROVE AskInv'
  <1> USE AskAssumption DEF AskInv, Questions, WarmUp
  <1>1. TypeOK'
    BY EmptyFacts DEF TypeOK, DataOK, Lines, Active, fifo, daemon, script, history, Take
  <1>2. DataOK'
    BY EmptyFacts DEF TypeOK, DataOK, Lines, Active, fifo, daemon, script, history, Take
  <1>3. Fresh'
    BY EmptyFacts DEF Fresh, Pipe, fifo, daemon, script, history, Take
  <1>4. SentOnce'
    BY EmptyFacts DEF SentOnce, Pipe, Fresh, fifo, daemon, script, history, Take
  <1>5. Ended'
    BY EmptyFacts DEF Ended, Active, Blurred, fifo, daemon, script, history, Take
  <1>6. NewDone'
    BY EmptyFacts DEF NewDone, Active, Blurred, TypeOK, fifo, daemon, script, history, Take
  <1>7. Resending'
    BY EmptyFacts DEF Resending, Waiting, fifo, daemon, script, history, Take
  <1>8. FileOK'
    BY EmptyFacts DEF FileOK, fifo, daemon, script, history, Take
  <1>9. Printing'
    BY EmptyFacts DEF Printing, Active, Waiting, fifo, daemon, script, history, Take
  <1>10. Room'
    BY EmptyFacts DEF Room, Waiting, DataOK, TypeOK, fifo, daemon, script, history, Take
  <1>11. AnswerIsOwn'
    BY EmptyFacts DEF AnswerIsOwn, fifo, daemon, script, history, Take
  <1>12. PrintedWhole'
    BY EmptyFacts DEF PrintedWhole, fifo, daemon, script, history, Take
  <1> QED BY <1>1, <1>2, <1>3, <1>4, <1>5, <1>6, <1>7, <1>8, <1>9, <1>10, <1>11, <1>12

\* llmd begins an answer and empties the answer file.
LEMMA BeginAnswerInv == ASSUME AskInv, BeginAnswer PROVE AskInv'
  <1> USE AskAssumption DEF AskInv, Questions, WarmUp
  <1>0. /\ Head(taken) \in Lines /\ Head(taken) \in Elements(taken) /\ taken # <<>>
        /\ llmd' = "answering" /\ UNCHANGED <<llm_in, warm, pending, taken, died, log, asked, ask, LB, now, n, resent, shown>>
        /\ UNCHANGED <<printed, outcome, repeats, answered, lost>>
        /\ unseen' \in BOOLEAN /\ hurried' \in BOOLEAN /\ (~hurried' => ~hurried)
        /\ \/ /\ Head(taken) = WarmUp
              /\ whose' = whose /\ text' = text /\ unseen' = unseen /\ hurried' = hurried
           \/ /\ Head(taken) # WarmUp /\ whose' = Head(taken) /\ text' = 0
              /\ unseen' <=> shown > 0
              /\ ~hurried' => ~(whose = asked /\ shown < text)
    <2>1. Head(taken) \in Lines /\ Head(taken) \in Elements(taken) /\ taken # <<>>
      BY TailFacts DEF BeginAnswer, DataOK
    <2>2. UNCHANGED <<llm_in, warm, pending, taken, died, log, asked, ask, LB, now, n, resent, shown,
                      printed, outcome, repeats, answered, lost>> /\ llmd' = "answering"
      BY DEF BeginAnswer, fifo, script
    <2>3. unseen \in BOOLEAN /\ hurried \in BOOLEAN
      BY DEF DataOK
    <2>4. CASE Head(taken) = WarmUp
      <3>1. whose' = whose /\ text' = text /\ unseen' = unseen /\ hurried' = hurried
        BY <2>4 DEF BeginAnswer
      <3> QED BY <2>1, <2>2, <2>3, <2>4, <3>1
    <2>5. CASE Head(taken) # WarmUp
      <3>1. /\ whose' = Head(taken) /\ text' = 0 /\ unseen' = (shown > 0)
            /\ hurried' = (hurried \/ (whose = asked /\ shown < text))
        BY <2>5, Zenon DEF BeginAnswer
      <3>a. (shown > 0) \in BOOLEAN
        BY DEF TypeOK
      <3>b. hurried' \in BOOLEAN
        BY <3>1, Zenon
      <3>c. unseen' \in BOOLEAN
        BY <3>1, <3>a, Zenon
      <3>d. unseen' <=> shown > 0
        BY <3>1, Zenon
      <3>2. unseen' \in BOOLEAN /\ hurried' \in BOOLEAN /\ (unseen' <=> shown > 0)
        BY <3>b, <3>c, <3>d
      <3>3. (~hurried' => ~hurried) /\ (~hurried' => ~(whose = asked /\ shown < text))
        BY <3>1, Zenon
      <3> QED BY <2>1, <2>2, <2>5, <3>1, <3>2, <3>3
    <2> QED BY <2>4, <2>5
  <1>1. TypeOK'
    BY <1>0, Bounds DEF TypeOK, DataOK, Lines
  <1>2. DataOK'
    BY <1>0 DEF DataOK, Active
  <1>3. Fresh'
    BY <1>0 DEF Fresh, Pipe
  <1>4. SentOnce'
    BY <1>0 DEF SentOnce, Pipe, Fresh, fifo, daemon, script, history, BeginAnswer
  <1>5. Ended'
    BY <1>0 DEF Ended, Active, Blurred, fifo, daemon, script, history, BeginAnswer
  <1>6. NewDone'
    BY <1>0 DEF NewDone, Active, Blurred, TypeOK, fifo, daemon, script, history, BeginAnswer
  <1>7. Resending'
    BY <1>0 DEF Resending, Waiting, fifo, daemon, script, history, BeginAnswer
  <1>8. FileOK'
    BY <1>0 DEF FileOK
  <1>9. Printing'
    <2>1. CASE whose' = Head(taken) /\ text' = 0
      BY <1>0, <2>1, SMTT(40) DEF Printing, Active, Waiting, TypeOK, DataOK
    <2>2. CASE whose' = whose /\ text' = text /\ unseen' = unseen /\ hurried' = hurried
      BY <1>0, <2>2 DEF Printing, Active, Waiting
    <2> QED BY <1>0, <2>1, <2>2
  <1>10. Room'
    BY <1>0 DEF Room, Waiting, DataOK, TypeOK, fifo, daemon, script, history, BeginAnswer
  <1>11. AnswerIsOwn'
    BY <1>0 DEF AnswerIsOwn
  <1>12. PrintedWhole'
    BY <1>0 DEF PrintedWhole
  <1> QED BY <1>1, <1>2, <1>3, <1>4, <1>5, <1>6, <1>7, <1>8, <1>9, <1>10, <1>11, <1>12

\* llmd writes a word.
LEMMA WordInv == ASSUME AskInv, Word PROVE AskInv'
  <1> USE AskAssumption DEF AskInv, Questions, WarmUp
  <1>0. /\ text \in Nat /\ text' = text + 1 /\ text < Words /\ hurried' \in BOOLEAN
        /\ UNCHANGED <<llm_in, warm, pending, taken, llmd, died, log, whose, asked, ask, LB, now, n, resent, shown>>
        /\ UNCHANGED <<printed, outcome, repeats, answered, lost, unseen>>
        /\ ~hurried' => ~hurried /\ ask # "measure" /\ ~(unseen /\ text' >= shown)
    <2>1. /\ text' = text + 1 /\ text < Words /\ text \in Nat
          /\ UNCHANGED <<llm_in, warm, pending, taken, llmd, died, log, whose, asked, ask, LB, now, n,
                         resent, shown, printed, outcome, repeats, answered, lost, unseen>>
      BY DEF Word, TypeOK, fifo, script
    <2>2. hurried' = (hurried \/ ask = "measure" \/ (unseen /\ text' >= shown))
      BY Zenon DEF Word
    <2>3. hurried' \in BOOLEAN /\ (~hurried' => ~hurried /\ ask # "measure" /\ ~(unseen /\ text' >= shown))
      BY <2>2, Zenon
    <2> QED BY <2>1, <2>3
  <1>1. TypeOK'
    BY <1>0, Bounds DEF TypeOK
  <1>2. DataOK'
    BY <1>0 DEF DataOK, Active
  <1>3. Fresh'
    BY <1>0 DEF Fresh, Pipe, fifo, daemon, script, history, Word
  <1>4. SentOnce'
    BY <1>0 DEF SentOnce, Pipe, Fresh, fifo, daemon, script, history, Word
  <1>5. Ended'
    BY <1>0 DEF Ended, Active, Blurred, fifo, daemon, script, history, Word
  <1>6. NewDone'
    BY <1>0 DEF NewDone, Active, Blurred, TypeOK, fifo, daemon, script, history, Word
  <1>7. Resending'
    BY <1>0 DEF Resending, Waiting, fifo, daemon, script, history, Word
  <1>8. FileOK'
    BY <1>0 DEF FileOK, fifo, daemon, script, history, Word
  <1>9. Printing'
    <2>1. Active /\ ~hurried' => Active /\ ~hurried /\ asked \in Questions /\ shown \in Nat
      BY <1>0 DEF DataOK, TypeOK
    <2>2. Active /\ ~hurried' /\ ~Waiting => whose # asked
      BY <1>0, <2>1 DEF Active, Waiting, TypeOK, Fresh
    <2>3. Active /\ ~hurried' /\ unseen => text' < shown
      BY <1>0, <2>1
    <2>4. ~unseen /\ shown <= text /\ shown \in Nat => shown <= text'
      BY <1>0
    <2>5. text # Words
      BY <1>0, Bounds
    <2> QED BY <1>0, <2>1, <2>2, <2>3, <2>4, <2>5 DEF Printing, Active, Waiting
  <1>10. Room'
    BY <1>0 DEF Room, Waiting, DataOK, TypeOK, fifo, daemon, script, history, Word
  <1>11. AnswerIsOwn'
    BY <1>0 DEF AnswerIsOwn, fifo, daemon, script, history, Word
  <1>12. PrintedWhole'
    BY <1>0 DEF PrintedWhole
  <1> QED BY <1>1, <1>2, <1>3, <1>4, <1>5, <1>6, <1>7, <1>8, <1>9, <1>10, <1>11, <1>12

\* llmd dies with what it has taken.
LEMMA LlmdDiesInv == ASSUME AskInv, LlmdDies PROVE AskInv'
  <1> USE AskAssumption DEF AskInv, Questions, WarmUp
  <1>1. TypeOK'
    <2>1. pending' \in BOOLEAN /\ (pending' => pending)
      <3>1. pending' = pending \/ pending' = FALSE
        BY DEF LlmdDies
      <3>2. pending \in BOOLEAN
        BY DEF TypeOK
      <3>3. CASE pending' = pending
        BY <3>2, <3>3, Zenon
      <3>4. CASE pending' = FALSE
        BY <3>4, Zenon
      <3> QED BY <3>1, <3>3, <3>4
    <2> QED BY <2>1, EmptyFacts DEF TypeOK, LlmdDies, script
  <1>2. DataOK'
    BY EmptyFacts DEF TypeOK, DataOK, Lines, Active, fifo, daemon, script, history, LlmdDies
  <1>3. Fresh'
    BY EmptyFacts DEF Fresh, Pipe, fifo, daemon, script, history, LlmdDies
  <1>4. SentOnce'
    BY EmptyFacts DEF SentOnce, Pipe, Fresh, fifo, daemon, script, history, LlmdDies
  <1>5. Ended'
    BY EmptyFacts DEF Ended, Active, Blurred, fifo, daemon, script, history, LlmdDies
  <1>6. NewDone'
    BY EmptyFacts DEF NewDone, Active, Blurred, TypeOK, fifo, daemon, script, history, LlmdDies
  <1>7. Resending'
    BY EmptyFacts DEF Resending, Waiting, fifo, daemon, script, history, LlmdDies
  <1>8. FileOK'
    BY EmptyFacts DEF FileOK, fifo, daemon, script, history, LlmdDies
  <1>9. Printing'
    BY EmptyFacts DEF Printing, Active, Waiting, fifo, daemon, script, history, LlmdDies
  <1>10. Room'
    BY EmptyFacts DEF Room, Waiting, DataOK, TypeOK, fifo, daemon, script, history, LlmdDies
  <1>11. AnswerIsOwn'
    BY EmptyFacts DEF AnswerIsOwn, fifo, daemon, script, history, LlmdDies
  <1>12. PrintedWhole'
    BY EmptyFacts DEF PrintedWhole, fifo, daemon, script, history, LlmdDies
  <1> QED BY <1>1, <1>2, <1>3, <1>4, <1>5, <1>6, <1>7, <1>8, <1>9, <1>10, <1>11, <1>12

\* ask.sh takes the length of the answer file for what it has shown.
LEMMA MeasureInv == ASSUME AskInv, Measure PROVE AskInv'
  <1> USE AskAssumption DEF AskInv, Questions, WarmUp
  <1>1. TypeOK'
    <2>1. /\ n' = 0 /\ resent' = FALSE /\ shown' = text /\ ask' = "look" /\ UNCHANGED <<fifo, daemon, asked, LB, now>>
      BY DEF Measure
    <2>2. n' \in 0..GiveUpAt /\ shown' \in 0..Words
      BY <2>1, Bounds DEF TypeOK
    <2> QED BY <2>1, <2>2 DEF TypeOK, fifo, daemon
  <1>2. DataOK'
    BY DEF TypeOK, DataOK, Lines, Active, fifo, daemon, script, history, Measure
  <1>3. Fresh'
    BY DEF Fresh, Pipe, fifo, daemon, script, history, Measure
  <1>4. SentOnce'
    BY DEF SentOnce, Pipe, Fresh, fifo, daemon, script, history, Measure
  <1>5. Ended'
    BY DEF Ended, Active, Blurred, fifo, daemon, script, history, Measure
  <1>6. NewDone'
    BY DEF NewDone, Active, Blurred, TypeOK, fifo, daemon, script, history, Measure
  <1>7. Resending'
    BY DEF Resending, Waiting, fifo, daemon, script, history, Measure
  <1>8. FileOK'
    BY DEF FileOK, fifo, daemon, script, history, Measure
  <1>9. Printing'
    BY DEF Printing, Active, Waiting, fifo, daemon, script, history, Measure
  <1>10. Room'
    BY DEF Room, Waiting, DataOK, TypeOK, fifo, daemon, script, history, Measure
  <1>11. AnswerIsOwn'
    BY DEF AnswerIsOwn, fifo, daemon, script, history, Measure
  <1>12. PrintedWhole'
    BY DEF PrintedWhole, fifo, daemon, script, history, Measure
  <1> QED BY <1>1, <1>2, <1>3, <1>4, <1>5, <1>6, <1>7, <1>8, <1>9, <1>10, <1>11, <1>12

\* ask.sh gives up, after it has sent its question twice.
LEMMA GiveUpInv == ASSUME AskInv, GiveUp PROVE AskInv'
  <1> USE AskAssumption DEF AskInv, Questions, WarmUp
  <1>1. TypeOK'
    BY DEF TypeOK, DataOK, Lines, Active, fifo, daemon, script, history, GiveUp, Over
  <1>2. DataOK'
    BY DEF TypeOK, DataOK, Lines, Active, fifo, daemon, script, history, GiveUp, Over
  <1>3. Fresh'
    BY DEF Fresh, Pipe, fifo, daemon, script, history, GiveUp, Over
  <1>4. SentOnce'
    BY DEF SentOnce, Pipe, Fresh, fifo, daemon, script, history, GiveUp, Over
  <1>5. Ended'
    <2>1. asked \in Questions /\ asked \in repeats
      <3>1. asked \in Questions /\ n > ResendAt
        BY Bounds DEF GiveUp, DataOK, Active, TypeOK
      <3> QED BY <3>1 DEF GiveUp, Resending, Waiting
    <2>2. Blurred(asked)'
      BY <2>1, Bounds DEF Blurred, GiveUp
    <2>3. UNCHANGED <<answered, repeats, asked>> /\ ask' = "none" /\ outcome' = [outcome EXCEPT ![asked] = "gaveup"]
      BY DEF GiveUp, Over
    <2>4. \A q \in Questions : q # asked => outcome'[q] = outcome[q]
      BY <2>3 DEF DataOK
    <2> QED BY <2>1, <2>2, <2>3, <2>4, Bounds DEF Ended, Active, Blurred, GiveUp
  <1>6. NewDone'
    BY DEF NewDone, Active, Blurred, TypeOK, fifo, daemon, script, history, GiveUp, Over
  <1>7. Resending'
    BY DEF Resending, Waiting, fifo, daemon, script, history, GiveUp, Over
  <1>8. FileOK'
    BY DEF FileOK, fifo, daemon, script, history, GiveUp, Over
  <1>9. Printing'
    BY DEF Printing, Active, Waiting, fifo, daemon, script, history, GiveUp, Over
  <1>10. Room'
    BY DEF Room, Waiting, DataOK, TypeOK, fifo, daemon, script, history, GiveUp, Over
  <1>11. AnswerIsOwn'
    BY DEF AnswerIsOwn, fifo, daemon, script, history, GiveUp, Over
  <1>12. PrintedWhole'
    BY DEF PrintedWhole, fifo, daemon, script, history, GiveUp, Over
  <1> QED BY <1>1, <1>2, <1>3, <1>4, <1>5, <1>6, <1>7, <1>8, <1>9, <1>10, <1>11, <1>12

\* The next question is asked; nobody knows it.
LEMMA BeginInv == ASSUME AskInv, Begin PROVE AskInv'
  <1> USE AskAssumption DEF AskInv, Questions, WarmUp
  <1>0. asked \in Nat /\ asked' = asked + 1 /\ asked' \in Questions /\ asked' \in Nat
        
    BY Bounds DEF Begin, TypeOK
  <1>00. whose # asked' /\ asked' \notin answered
    BY <1>0 DEF Fresh
  <1>1. TypeOK'
    BY <1>0, SMTT(40) DEF TypeOK, DataOK, Lines, Active, fifo, daemon, script, history, Begin
  <1>2. DataOK'
    BY <1>0 DEF TypeOK, DataOK, Lines, Active, fifo, daemon, script, history, Begin
  <1>3. Fresh'
    BY <1>0 DEF Fresh, Pipe, fifo, daemon, script, history, Begin
  <1>4. SentOnce'
    BY <1>0 DEF SentOnce, Pipe, Fresh, fifo, daemon, script, history, Begin
  <1>5. Ended'
    BY <1>0 DEF Ended, Active, Blurred, fifo, daemon, script, history, Begin
  <1>6. NewDone'
    BY <1>0 DEF NewDone, Active, Blurred, TypeOK, fifo, daemon, script, history, Begin
  <1>7. Resending'
    BY <1>0 DEF Resending, Waiting, fifo, daemon, script, history, Begin
  <1>8. FileOK'
    BY <1>0 DEF FileOK, fifo, daemon, script, history, Begin
  <1>9. Printing'
    BY <1>0, <1>00 DEF Printing, Waiting, Begin, daemon
  <1>10. Room'
    BY <1>0 DEF Room, Waiting, DataOK, TypeOK, fifo, daemon, script, history, Begin
  <1>11. AnswerIsOwn'
    BY <1>0 DEF AnswerIsOwn, fifo, daemon, script, history, Begin
  <1>12. PrintedWhole'
    BY <1>0 DEF PrintedWhole, Ended, Active, Begin
  <1> QED BY <1>1, <1>2, <1>3, <1>4, <1>5, <1>6, <1>7, <1>8, <1>9, <1>10, <1>11, <1>12

\* ask.sh writes its question.
LEMMA WriteInv == ASSUME AskInv, Write PROVE AskInv'
  <1> USE AskAssumption DEF AskInv, Questions, WarmUp
  <1>0. /\ llm_in' \in Seq(Lines) /\ Len(llm_in') = Len(llm_in) + 1 /\ Len(llm_in) \in Nat
        /\ Elements(llm_in') = Elements(llm_in) \cup {asked}
        /\ \A q : Double(llm_in', q) => Double(llm_in, q) \/ (asked = q /\ q \in Elements(llm_in))
    <2>1. asked \in Lines /\ llm_in \in Seq(Lines) /\ llm_in' = Append(llm_in, asked)
      BY DEF Lines, DataOK, Write, Active
    <2> QED BY <2>1, AppendFacts
  <1>00. asked \in Questions /\ asked \notin Pipe \cup {whose} \cup answered \cup repeats
    <2>1. asked \in Questions /\ ask = "write"
      BY DEF Write, DataOK, Active
    <2> QED BY <2>1 DEF Fresh
  <1>1. TypeOK'
    BY <1>0, <1>00 DEF TypeOK, DataOK, Lines, Active, fifo, daemon, script, history, Write
  <1>2. DataOK'
    BY <1>0, <1>00 DEF TypeOK, DataOK, Lines, Active, fifo, daemon, script, history, Write
  <1>3. Fresh'
    BY <1>0, <1>00 DEF Fresh, Pipe, fifo, daemon, script, history, Write
  <1>4. SentOnce'
    BY <1>0, <1>00 DEF SentOnce, Pipe, Fresh, fifo, daemon, script, history, Write
  <1>5. Ended'
    BY <1>0, <1>00 DEF Ended, Active, Blurred, fifo, daemon, script, history, Write
  <1>6. NewDone'
    BY <1>0, <1>00 DEF NewDone, Active, Blurred, TypeOK, fifo, daemon, script, history, Write
  <1>7. Resending'
    BY <1>0, <1>00 DEF Resending, Waiting, fifo, daemon, script, history, Write
  <1>8. FileOK'
    BY <1>0, <1>00 DEF FileOK, fifo, daemon, script, history, Write
  <1>9. Printing'
    BY <1>0, <1>00 DEF Printing, Active, Waiting, fifo, daemon, script, history, Write
  <1>10. Room'
    BY <1>0, <1>00 DEF Room, Waiting, DataOK, TypeOK, fifo, daemon, script, history, Write
  <1>11. AnswerIsOwn'
    BY <1>0, <1>00 DEF AnswerIsOwn, fifo, daemon, script, history, Write
  <1>12. PrintedWhole'
    BY <1>0, <1>00 DEF PrintedWhole, fifo, daemon, script, history, Write
  <1> QED BY <1>1, <1>2, <1>3, <1>4, <1>5, <1>6, <1>7, <1>8, <1>9, <1>10, <1>11, <1>12

\* llmd logs that it has answered the first line it took.
LEMMA LogDoneInv == ASSUME AskInv, LogDone PROVE AskInv'
  <1> USE AskAssumption DEF AskInv, Questions, WarmUp
  <1> DEFINE d == Head(taken)
  <1>0. /\ d \in Lines /\ taken \in Seq(Lines) /\ log \in Seq(Lines)
        /\ d \in Elements(taken) /\ taken' \in Seq(Lines) /\ Len(taken') = Len(taken) - 1 /\ Len(taken) \in Nat
        /\ Elements(taken) = Elements(taken') \cup {d} /\ (\A q : Double(taken', q) => Double(taken, q))
        /\ (d \in Elements(taken') => Double(taken, d))
        /\ log' \in Seq(Lines) /\ Len(log') = Len(log) + 1 /\ Len(log) \in Nat
        /\ Elements(log') = Elements(log) \cup {d}
        /\ llmd = "answering" /\ llmd' = "waiting" /\ (d # 0 => text = Words)
        /\ answered' = answered \cup {d}
        /\ UNCHANGED <<llm_in, warm, pending, died, whose, text, asked, ask, LB, now, n, resent, shown>>
        /\ UNCHANGED <<printed, outcome, repeats, lost, unseen, hurried>>
    <2>1. taken # <<>> /\ taken \in Seq(Lines) /\ log \in Seq(Lines) /\ d \in Lines
      BY TailFacts DEF TypeOK, DataOK, LogDone
    <2>2. taken' = Tail(taken) /\ log' = Append(log, d)
      BY DEF LogDone
    <2>3. /\ taken' \in Seq(Lines) /\ Len(taken') = Len(taken) - 1 /\ Len(taken) \in Nat
          /\ Elements(taken) = Elements(taken') \cup {d} /\ (\A q : Double(taken', q) => Double(taken, q))
          /\ (d \in Elements(taken') => Double(taken, d))
      BY <2>1, <2>2, TailFacts
    <2>4. /\ log' \in Seq(Lines) /\ Len(log') = Len(log) + 1 /\ Len(log) \in Nat
          /\ Elements(log') = Elements(log) \cup {d}
      BY <2>1, <2>2, AppendFacts
    <2>5. /\ llmd = "answering" /\ llmd' = "waiting" /\ (d # 0 => text = Words) /\ answered' = answered \cup {d}
          /\ UNCHANGED <<llm_in, warm, pending, died, whose, text, asked, ask, LB, now, n, resent, shown>>
          /\ UNCHANGED <<printed, outcome, repeats, lost, unseen, hurried>>
      BY DEF LogDone, fifo, script
    <2> QED BY <2>1, <2>3, <2>4, <2>5
  <1>00. d # 0 => d \in Questions /\ d <= asked /\ (ask = "write" => d # asked) /\ asked \in Nat
    BY <1>0, Bounds DEF Lines, Fresh, Pipe, TypeOK
  <1> HIDE DEF d
  <1>1. TypeOK'
    <2>1. Len(log') + Len(taken') = Len(log) + Len(taken) /\ Len(taken') \in Nat
      BY <1>0, TailFacts, LenProperties
    <2>2. Len(llm_in) \in Nat /\ asked \in Nat /\ asked <= Asks
      BY LenProperties, Bounds DEF DataOK, TypeOK
    <2>3. Len(log') <= 2 * asked + 1
      BY <2>1, <2>2, <1>0, SMTT(40) DEF Room
    <2>4. Len(log') <= 2 * Asks + 1
      BY <2>2, <2>3, <1>0, Bounds
    <2> QED BY <1>0, <2>4 DEF TypeOK
  <1>2. DataOK'
    BY <1>0, <1>00 DEF TypeOK, DataOK, Lines, Active, fifo, daemon, script, history, LogDone
  <1>3. Fresh'
    BY <1>0, <1>00 DEF Fresh, Pipe, fifo, daemon, script, history, LogDone
  <1>4. SentOnce'
    BY <1>0, <1>00 DEF SentOnce, Pipe, Fresh, fifo, daemon, script, history, LogDone
  <1>5. Ended'
    BY <1>0, <1>00 DEF Ended, Active, Blurred
  <1>6. NewDone'
    <2>1. SUFFICES ASSUME Active' PROVE (asked \in answered \/ Blurred(asked - 1))'
      BY DEF NewDone
    <2>2. asked \in Questions /\ Active
      BY <2>1, <1>0 DEF DataOK, Active
    <2>3. CASE d = asked \/ d = 0
      BY <2>3, <1>0 DEF Blurred
    <2>4. CASE d # asked /\ d # 0
      <3>1. d \in Questions
        BY <2>4, <1>0 DEF Lines
      <3>2. CASE d \in repeats
        <4>1. d \in 1..(asked - 1)
          BY <2>2, <2>4, <3>1, <1>00, Bounds
        <4> QED BY <3>2, <4>1, <1>0 DEF Blurred
      <3>3. CASE d \notin repeats
        <4>1. d < asked /\ d \notin answered
          BY <2>4, <3>1, <3>3, <1>0, <1>00, <2>2, Bounds DEF SentOnce, Pipe
        <4>2. Blurred(d)
          BY <3>1, <4>1 DEF Ended
        <4>3. 1..d \subseteq 1..(asked - 1)
          BY <3>1, <4>1, <2>2, Bounds
        <4> QED BY <4>2, <4>3, <1>0 DEF Blurred
      <3> QED BY <3>2, <3>3
    <2> QED BY <2>3, <2>4
  <1>7. Resending'
    BY <1>0, <1>00 DEF Resending, Waiting, fifo, daemon, script, history, LogDone
  <1>8. FileOK'
    BY <1>0 DEF FileOK
  <1>9. Printing'
    <2>1. SUFFICES ASSUME Active, ~hurried, d = asked
                   PROVE  Waiting /\ whose = asked /\ text = Words
      BY <1>0 DEF Printing, Active, Waiting
    <2>2. asked \in Questions /\ text = Words /\ whose = asked
      BY <2>1, <1>0 DEF DataOK, FileOK, d
    <2>3. Waiting
      BY <2>1, <2>2, Bounds DEF Printing
    <2> QED BY <2>2, <2>3
  <1>10. Room'
    BY <1>0, <1>00 DEF Room, Waiting, DataOK, TypeOK, fifo, daemon, script, history, LogDone
  <1>11. AnswerIsOwn'
    BY <1>0, <1>00 DEF AnswerIsOwn, fifo, daemon, script, history, LogDone
  <1>12. PrintedWhole'
    BY <1>0, <1>00 DEF PrintedWhole, fifo, daemon, script, history, LogDone
  <1> QED BY <1>1, <1>2, <1>3, <1>4, <1>5, <1>6, <1>7, <1>8, <1>9, <1>10, <1>11, <1>12

\* ask.sh sees a DONE it has not seen before, prints the rest and ends.
LEMMA ShowInv == ASSUME AskInv, Show PROVE AskInv'
  <1> USE AskAssumption DEF AskInv, Questions, WarmUp
  <1>0. /\ asked \in Questions /\ asked \in Nat /\ Active /\ Waiting /\ ask = "show" /\ now > LB
        /\ pending' = FALSE /\ ask' = "none" /\ outcome' \in [Questions -> {"open", "own", "other", "gaveup"}]
        /\ outcome'[asked] = IF asked \in answered THEN "own" ELSE "other"
        /\ \A q \in Questions : q # asked => outcome'[q] = outcome[q]
        /\ UNCHANGED <<llm_in, warm, daemon, asked, LB, now, n, resent, repeats, answered, lost, hurried>>
    <2>1. asked \in Questions /\ asked \in Nat /\ Active /\ Waiting /\ ask = "show" /\ now > LB
      BY Bounds DEF Show, DataOK, Active, Waiting
    <2>2. /\ pending' = FALSE /\ ask' = "none"
          /\ outcome' = [outcome EXCEPT ![asked] = IF asked \in answered THEN "own" ELSE "other"]
          /\ UNCHANGED <<llm_in, warm, daemon, asked, LB, now, n, resent, repeats, answered, lost, hurried>>
      BY DEF Show, Over
    <2> QED BY <2>1, <2>2 DEF DataOK
  <1>000. /\ text \in 0..Words /\ shown \in 0..Words /\ ShownBefore \in 0..Words /\ shown' \in 0..Words
          /\ (text < shown => ShownBefore = 0) /\ (shown <= text => ShownBefore = shown)
          /\ shown' = text /\ unseen' = FALSE /\ printed' \subseteq 1..Words
          /\ printed \subseteq printed' /\ (whose = asked => printed' = printed \cup (ShownBefore + 1 .. text))
    BY Bounds DEF Show, ShowText, ShownBefore, TypeOK, DataOK
  <1>00. asked \in answered \/ Blurred(asked - 1)
    BY <1>0 DEF NewDone
  <1>1. TypeOK'
    BY <1>0, <1>000 DEF TypeOK, daemon
  <1>2. DataOK'
    BY <1>0, <1>000 DEF DataOK, Active, daemon
  <1>3. Fresh'
    BY <1>0, <1>00 DEF Fresh, Pipe, fifo, daemon, script, history, Show, Over, ShowText
  <1>4. SentOnce'
    BY <1>0, <1>00 DEF SentOnce, Pipe, Fresh, fifo, daemon, script, history, Show, Over, ShowText
  <1>5. Ended'
    BY <1>0, <1>00, Bounds DEF Ended, Active, Blurred
  <1>6. NewDone'
    BY <1>0, <1>00 DEF NewDone, Active, Blurred, TypeOK, fifo, daemon, script, history, Show, Over, ShowText
  <1>7. Resending'
    BY <1>0, <1>00 DEF Resending, Waiting, fifo, daemon, script, history, Show, Over, ShowText
  <1>8. FileOK'
    BY <1>0, <1>00 DEF FileOK, fifo, daemon, script, history, Show, Over, ShowText
  <1>9. Printing'
    BY <1>0, <1>00 DEF Printing, Active, Waiting, fifo, daemon, script, history, Show, Over, ShowText
  <1>10. Room'
    BY <1>0, <1>00 DEF Room, Waiting, DataOK, TypeOK, fifo, daemon, script, history, Show, Over, ShowText
  <1>11. AnswerIsOwn'
    BY <1>0, <1>00, Bounds DEF AnswerIsOwn, Blurred
  <1>12. PrintedWhole'
    <2>1. SUFFICES ASSUME asked \in answered, ~hurried PROVE printed' = 1..Words
      BY <1>0 DEF PrintedWhole, Ended, Active
    <2>2. 1..Words \subseteq printed \/ (whose = asked /\ text = Words)
      BY <2>1, <1>0 DEF Printing, Active
    <2>3. CASE 1..Words \subseteq printed
      BY <2>3, <1>000
    <2>4. CASE whose = asked /\ text = Words
      <3>1. ~unseen /\ shown <= text /\ 1..shown \subseteq printed
        BY <2>1, <2>4, <1>0, <1>000, Bounds DEF Printing
      <3>2. printed' = printed \cup (shown + 1 .. Words)
        BY <2>4, <3>1, <1>000
      <3>3. \A i \in 1..Words : i \in 1..shown \/ i \in shown + 1 .. Words
        BY <1>000, Bounds
      <3> QED BY <3>1, <3>2, <3>3, <1>000, Zenon
    <2> QED BY <2>2, <2>3, <2>4
  <1> QED BY <1>1, <1>2, <1>3, <1>4, <1>5, <1>6, <1>7, <1>8, <1>9, <1>10, <1>11, <1>12

\* ask.sh prints what there is and may send its question again.
LEMMA ShowMoreInv == ASSUME AskInv, ShowMore PROVE AskInv'
  <1> USE AskAssumption DEF AskInv, Questions, WarmUp
  <1>0. /\ asked \in Questions /\ asked \in Nat /\ Active /\ Waiting /\ ask = "show" /\ ask' = "look"
        /\ UNCHANGED <<warm, pending, daemon, asked, LB, now, outcome, answered, lost, hurried>>
        /\ n' = n + 1 /\ resent' \in BOOLEAN /\ n \in Nat
    <2>1. /\ asked \in Questions /\ asked \in Nat /\ Active /\ Waiting /\ ask = "show" /\ ask' = "look"
          /\ UNCHANGED <<warm, pending, daemon, asked, LB, now, outcome, answered, lost, hurried>>
          /\ n' = n + 1 /\ n \in Nat
      BY Bounds DEF ShowMore, DataOK, TypeOK, Active, Waiting
    <2>2. resent' \in BOOLEAN
      BY Zenon DEF ShowMore
    <2> QED BY <2>1, <2>2
  <1>00. \/ /\ n >= ResendAt /\ ~resent /\ resent'
            /\ llm_in' \in Seq(Lines) /\ Len(llm_in') = Len(llm_in) + 1 /\ Len(llm_in) \in Nat
            /\ Elements(llm_in') = Elements(llm_in) \cup {asked}
            /\ \A q : Double(llm_in', q) => Double(llm_in, q) \/ (asked = q /\ q \in Elements(llm_in))
            /\ repeats' = repeats \cup {asked}
         \/ ~(n >= ResendAt /\ ~resent) /\ (resent' <=> resent) /\ UNCHANGED <<llm_in, repeats>>
    <2>1. CASE MustResend
      <3>1. asked \in Lines /\ llm_in \in Seq(Lines) /\ llm_in' = Append(llm_in, asked)
            /\ repeats' = repeats \cup {asked}
        BY <2>1, <1>0 DEF Lines, DataOK, ShowMore
      <3>2. resent'
        BY <2>1, Zenon DEF ShowMore
      <3>3. n >= ResendAt /\ ~resent
        BY <2>1 DEF MustResend
      <3> QED BY <3>1, <3>2, <3>3, AppendFacts
    <2>2. CASE ~MustResend
      <3>1. resent' <=> resent
        BY <2>2, Zenon DEF ShowMore
      <3>2. UNCHANGED <<llm_in, repeats>>
        BY <2>2 DEF ShowMore
      <3> QED BY <2>2, <3>1, <3>2 DEF MustResend
    <2> QED BY <2>1, <2>2
  <1>000. /\ text \in 0..Words /\ shown \in 0..Words /\ ShownBefore \in 0..Words /\ shown' \in 0..Words
          /\ (text < shown => ShownBefore = 0) /\ (shown <= text => ShownBefore = shown)
          /\ shown' = text /\ unseen' = FALSE /\ printed' \subseteq 1..Words
          /\ printed \subseteq printed' /\ (whose = asked => printed' = printed \cup (ShownBefore + 1 .. text))
    BY Bounds DEF ShowMore, ShowText, ShownBefore, TypeOK, DataOK
  <1>1. TypeOK'
    <2>1. n' \in 0..GiveUpAt /\ n' = n + 1
      BY Bounds DEF ShowMore, TypeOK, Resending
    <2> QED BY <1>0, <1>00, <1>000, <2>1 DEF TypeOK, Lines, daemon, ShowMore
  <1>2. DataOK'
    BY <1>0, <1>00, <1>000 DEF DataOK, Active, daemon, ShowMore, Lines
  <1>3. Fresh'
    BY <1>0, <1>00 DEF Fresh, Pipe, fifo, daemon, script, history, ShowMore, ShowText
  <1>4. SentOnce'
    BY <1>0, <1>00 DEF SentOnce, Pipe, Fresh, fifo, daemon, script, history, ShowMore, ShowText
  <1>5. Ended'
    BY <1>0, <1>00 DEF Ended, Active, Blurred, fifo, daemon, script, history, ShowMore, ShowText
  <1>6. NewDone'
    BY <1>0, <1>00 DEF NewDone, Active, Blurred, TypeOK, fifo, daemon, script, history, ShowMore, ShowText
  <1>7. Resending'
    BY <1>0, <1>00 DEF Resending, Waiting, fifo, daemon, script, history, ShowMore, ShowText
  <1>8. FileOK'
    BY <1>0, <1>00 DEF FileOK, fifo, daemon, script, history, ShowMore, ShowText
  <1>9. Printing'
    <2>1. SUFFICES ASSUME ~hurried, Active
                   PROVE  /\ whose = asked => 1..text \subseteq printed'
                          /\ asked \in answered => 1..Words \subseteq printed' \/ (whose = asked /\ text = Words)
      BY <1>0, <1>000, SMTT(40) DEF Printing, Active, Waiting, daemon, ShowMore, TypeOK
    <2>2. asked \in answered => 1..Words \subseteq printed' \/ (whose = asked /\ text = Words)
      BY <2>1, <1>000 DEF Printing
    <2>3. ASSUME whose = asked PROVE 1..text \subseteq printed'
      <3>1. CASE text < shown
        BY <2>3, <3>1, <1>000, Bounds
      <3>2. CASE shown <= text
        <4>1. ~unseen /\ 1..shown \subseteq printed
          BY <2>1, <2>3, <3>2, <1>0, <1>000 DEF Printing, Active
        <4> QED BY <2>3, <3>2, <4>1, <1>000, Bounds
      <3> QED BY <3>1, <3>2, <1>000, Bounds
    <2> QED BY <2>2, <2>3
  <1>10. Room'
    <2>1. Len(llm_in) \in Nat /\ Len(log) \in Nat /\ Len(taken) \in Nat /\ resent \in BOOLEAN
      BY LenProperties DEF DataOK, TypeOK
    <2>2. log' = log /\ taken' = taken /\ warm' = warm /\ asked' = asked /\ ask' = "look"
      BY <1>0 DEF daemon
    <2>3. CASE ~resent /\ resent' /\ Len(llm_in') = Len(llm_in) + 1
      BY <1>0, <2>1, <2>2, <2>3 DEF Room, Waiting
    <2>4. CASE (resent' <=> resent) /\ llm_in' = llm_in
      BY <1>0, <2>1, <2>2, <2>4 DEF Room, Waiting
    <2> QED BY <1>00, <2>3, <2>4
  <1>11. AnswerIsOwn'
    BY <1>0, <1>00 DEF AnswerIsOwn, fifo, daemon, script, history, ShowMore, ShowText
  <1>12. PrintedWhole'
    BY <1>0 DEF PrintedWhole, Ended, Active
  <1> QED BY <1>1, <1>2, <1>3, <1>4, <1>5, <1>6, <1>7, <1>8, <1>9, <1>10, <1>11, <1>12

LEMMA AskNextInv == AskInv /\ [Next]_vars => AskInv'
  <1> SUFFICES ASSUME AskInv, [Next]_vars PROVE AskInv'
    OBVIOUS
  <1>1. CASE Daemon
    BY <1>1, LoadedInv, TakeInv, BeginAnswerInv, WordInv, LogDoneInv, RespawnInv DEF Daemon
  <1>2. CASE Script
    BY <1>2, WriteInv, MeasureInv, LookInv, ShowInv, ShowMoreInv, GiveUpInv DEF Script
  <1>3. CASE Warming
    BY <1>3, WarmSkipsInv, WarmLastLookInv, WarmWritesInv DEF Warming
  <1>4. CASE Begin \/ LlmdDies
    BY <1>4, BeginInv, LlmdDiesInv
  <1>5. CASE UNCHANGED vars
    <2> USE <1>5 DEF vars, fifo, daemon, script, history
    <2>1. TypeOK' /\ DataOK'
      BY DEF AskInv, TypeOK, DataOK, Active
    <2>2. Fresh' /\ SentOnce' /\ Ended' /\ NewDone'
      BY DEF AskInv, Fresh, SentOnce, Ended, NewDone, Pipe, Active, Blurred
    <2>3. Resending' /\ FileOK' /\ Printing' /\ Room'
      BY DEF AskInv, Resending, FileOK, Printing, Room, Active, Waiting
    <2>4. AnswerIsOwn' /\ PrintedWhole'
      BY DEF AskInv, AnswerIsOwn, PrintedWhole
    <2> QED BY <2>1, <2>2, <2>3, <2>4 DEF AskInv
  <1> QED BY <1>1, <1>2, <1>3, <1>4, <1>5 DEF Next

-----------------------------------------------------------------------------
(* The theorems. *)

\* The inductive invariant: where the lines are, whose the file is, and what an
\* ask may take for its answer (ask.sh, and llmd as its log shows it).
THEOREM AskInvHolds == Spec => []AskInv
  BY AskInitInv, AskNextInv, PTL DEF Spec

\* For any number of questions and deaths of llmd: an ask shows its own answer,
\* and all of it, but for the cases AnswerIsOwn and PrintedWhole name
\* (ask.sh:9-25).
THEOREM AnswersAlwaysApart == Spec => []AnswersAreApart
  <1>1. AskInv => AnswersAreApart
    BY DEF AskInv, AnswersAreApart
  <1> QED BY <1>1, AskInvHolds, PTL
=============================================================================
