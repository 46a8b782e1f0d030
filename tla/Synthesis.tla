------------------------------- MODULE Synthesis -------------------------------
(***************************************************************************)
(* How the tts daemon turns one line into one wav file (synth_matcha of       *)
(* tts/port/kpu_vits_runner.cc, est mode): words to tokens, tokens to mel      *)
(* frames, frames through windows of the estimator, mel through chunks of the  *)
(* vocoder.  Which lines come and what becomes of the files is module Speech.  *)
(*                                                                         *)
(* A frame is its number; sound is a sequence of slots of one hop, each the    *)
(* set of frames that are mixed in it.  The networks are external.             *)
(***************************************************************************)
EXTENDS Integers, SequencesExt

CONSTANTS
  Lexicon,    \* lines of the lexicon: [word, syls], word a sequence of characters
  TokenId,    \* tok2id: function from tokens to ids
  Lines,      \* texts that are asked for, sequences of characters
  Durations,  \* durations a token may be given, in halves of a frame
  TB,         \* MATCHA_TB: tokens the A model is compiled for
  WB,         \* MATCHA_WIN: frames of a window
  CH          \* MATCHA_VOC_CHUNK: frames of a chunk

\* No word of the lexicon file is empty.  A chunk holds more than the one frame that
\* it shares with the chunk before it.
ASSUME SynthAssumption ==
  /\ Lexicon \in Seq([word : Seq(STRING) \ {<<>>}, syls : Seq(STRING)])
  /\ DOMAIN TokenId \subseteq STRING /\ TokenId \in [DOMAIN TokenId -> Int]
  /\ Lines \subseteq Seq(STRING)
  /\ Durations \subseteq Nat /\ {TB, WB, CH} \subseteq Nat \ {0} /\ CH > 1

VARIABLES
  split,      \* MATCHA_SPLIT_COMMA
  aco,        \* the acoustic model of any length is loaded
  yp,         \* "read", "sentence", "window", "chunk", or "quit"
  line,       \* the text worked on
  sents, si,  \* its sentences; the one worked on
  dur, mm,    \* durations of its tokens; the token of every frame
  win, mel,   \* windows done; per frame what made it, or nothing yet
  c0, wave,   \* frames given to the vocoder; the sound so far
  audio_out,  \* the sentences whose sound is done, in order
  reply, file \* what the last line was answered; the file that was written for it

sentence == <<dur, mm, win, mel, c0, wave>>
synthVars == <<split, aco, yp, line, sents, si, sentence, audio_out, reply, file>>

Less(a, b) == IF a < b THEN a ELSE b

-----------------------------------------------------------------------------
(* Words. *)

\* The syllables that are tokens.
Known(syls) ==
  LET upto[k \in 0..Len(syls)] ==
        IF k = 0 THEN <<>>
        ELSE IF syls[k] \in DOMAIN TokenId THEN Append(upto[k - 1], syls[k]) ELSE upto[k - 1]
  IN  upto[Len(syls)]

\* w2ids: the first line of a word that gives it a token stays.
WordLines(w) == {k \in DOMAIN Lexicon : Lexicon[k].word = w /\ Known(Lexicon[k].syls) # <<>>}

WordIds(w) ==
  LET syls == Known(Lexicon[CHOOSE k \in WordLines(w) : \A l \in WordLines(w) : k <= l].syls)
  IN  [j \in DOMAIN syls |-> TokenId[syls[j]]]

LexWords == {w \in {Lexicon[k].word : k \in DOMAIN Lexicon} : WordLines(w) # {}}

Puncts == [stop |-> ".", bang |-> "!", ask |-> "?", semicolon |-> ";", comma |-> ","]

\* Fault: a comma that does not split loses what was said before it.
FaultAdvance(t, st) ==
  LET at == SubSeq(t, st.i, Len(t))
      fits == {w \in LexWords : IsPrefix(w, at)}
      longest == CHOOSE w \in fits : \A v \in fits : Len(v) <= Len(w)
      mark == IF t[st.i] \in DOMAIN Puncts THEN Known(<<Puncts[t[st.i]]>>) ELSE <<>>
      cur == st.cur \o [j \in DOMAIN mark |-> TokenId[mark[j]]]
      hard == t[st.i] # "comma" \/ split
  IN  IF fits # {}
      THEN [st EXCEPT !.i = @ + Len(longest), !.cur = @ \o WordIds(longest)]
      ELSE IF t[st.i] \notin DOMAIN Puncts THEN [st EXCEPT !.i = @ + 1]
      ELSE [i |-> st.i + 1, cur |-> <<>>,
            sents |-> IF cur # <<>> /\ hard THEN Append(st.sents, cur) ELSE st.sents]

\* One round of the loop: the longest word that fits, or a punctuation mark, which
\* may end the sentence, or a character that is left out.
Advance(t, st) ==
  LET at == SubSeq(t, st.i, Len(t))
      fits == {w \in LexWords : IsPrefix(w, at)}
      longest == CHOOSE w \in fits : \A v \in fits : Len(v) <= Len(w)
      mark == IF t[st.i] \in DOMAIN Puncts THEN Known(<<Puncts[t[st.i]]>>) ELSE <<>>
      cur == st.cur \o [j \in DOMAIN mark |-> TokenId[mark[j]]]
      hard == t[st.i] # "comma" \/ split
  IN  IF fits # {}
      THEN [st EXCEPT !.i = @ + Len(longest), !.cur = @ \o WordIds(longest)]
      ELSE IF t[st.i] \notin DOMAIN Puncts THEN [st EXCEPT !.i = @ + 1]
      ELSE IF cur # <<>> /\ hard
      THEN [i |-> st.i + 1, cur |-> <<>>, sents |-> Append(st.sents, cur)]
      ELSE [st EXCEPT !.i = @ + 1, !.cur = cur]

Segmented(t) ==
  LET round[k \in 0..Len(t)] ==
        IF k = 0 THEN [i |-> 1, cur |-> <<>>, sents |-> <<>>]
        ELSE IF round[k - 1].i > Len(t) THEN round[k - 1]
        ELSE Advance(t, round[k - 1])
      end == round[Len(t)]
  IN  IF end.cur = <<>> THEN end.sents ELSE Append(end.sents, end.cur)

Pad == IF "_" \in DOMAIN TokenId THEN TokenId["_"] ELSE 1

\* AddBlank: pads around every token.
AddBlank(s) == [j \in 1..(2 * Len(s) + 1) |-> IF j % 2 = 0 THEN s[j \div 2] ELSE Pad]

-----------------------------------------------------------------------------
(* The daemon loop. *)

SynthInit ==
  /\ split \in BOOLEAN /\ aco \in BOOLEAN
  /\ yp = "read" /\ line = <<>> /\ sents = <<>> /\ si = 0
  /\ dur = <<>> /\ mm = <<>> /\ win = 0 /\ mel = <<>> /\ c0 = 0 /\ wave = <<>>
  /\ audio_out = <<>> /\ reply = "none" /\ file = <<>>

\* Fault: a text without a token goes on to its first sentence.
FaultReadLine(t) ==
  /\ yp = "read"
  /\ line' = t
  /\ sents' = [k \in DOMAIN Segmented(t) |-> AddBlank(Segmented(t)[k])]
  /\ si' = 1 /\ audio_out' = <<>> /\ file' = <<>> /\ reply' = "none"
  /\ yp' = "sentence"
  /\ UNCHANGED <<split, aco, sentence>>

\* A text without a token is skipped: no file, no answer.
ReadLine(t) ==
  /\ yp = "read"
  /\ line' = t
  /\ sents' = [k \in DOMAIN Segmented(t) |-> AddBlank(Segmented(t)[k])]
  /\ si' = 1 /\ audio_out' = <<>> /\ file' = <<>> /\ reply' = "none"
  /\ yp' = IF sents' = <<>> THEN "read" ELSE "sentence"
  /\ UNCHANGED <<split, aco, sentence>>

ReadMalformed ==
  /\ yp = "read"
  /\ reply' = "ERROR protocol" /\ file' = <<>>
  /\ UNCHANGED <<split, aco, yp, line, sents, si, sentence, audio_out>>

ReadQuit ==
  /\ yp = "read" /\ yp' = "quit"
  /\ UNCHANGED <<split, aco, line, sents, si, sentence, audio_out, reply, file>>

Sum(d, n) ==
  LET upto[k \in 0..n] == IF k = 0 THEN 0 ELSE upto[k - 1] + d[k]
  IN  upto[n]

\* Fault: every duration is cut to whole frames before they are added.
FaultBound(d, n) == FoldLeft(LAMBDA a, x : a + x \div 2, 0, SubSeq(d, 1, n))

\* hi of token n, and lo of the next: the sum of the durations, cut to frames.
Bound(d, n) == Sum(d, n) \div 2

\* The token of each frame.
FrameTokens(d) ==
  [t \in 1..Bound(d, Len(d)) |-> CHOOSE n \in DOMAIN d : Bound(d, n - 1) < t /\ t <= Bound(d, n)]

\* Fault: a sentence that is too long is left out.
FaultTooLong ==
  /\ yp = "sentence" /\ Len(sents[si]) > TB /\ ~aco
  /\ si' = si + 1
  /\ yp' = IF si = Len(sents) THEN "read" ELSE "sentence"
  /\ IF si = Len(sents) THEN reply' = "DONE" /\ file' = audio_out ELSE UNCHANGED <<reply, file>>
  /\ UNCHANGED <<split, aco, line, sents, sentence, audio_out>>

\* No model takes so many tokens: the whole line fails.
TooLong ==
  /\ yp = "sentence" /\ Len(sents[si]) > TB /\ ~aco
  /\ reply' = "ERROR synth" /\ yp' = "read"
  /\ UNCHANGED <<split, aco, line, sents, si, sentence, audio_out, file>>

\* A and B, by the A model and here, or by the acoustic model.
Expand ==
  /\ yp = "sentence" /\ (Len(sents[si]) <= TB \/ aco)
  /\ dur' \in [1..Len(sents[si]) -> Durations]
  /\ mm' = FrameTokens(dur')
  /\ mel' = [t \in DOMAIN mm' |-> [tok |-> 0, real |-> 0]]
  /\ win' = 0 /\ c0' = 0 /\ wave' = <<>>
  /\ yp' = "window"
  /\ UNCHANGED <<split, aco, line, sents, si, audio_out, reply, file>>

\* Fault: the last window begins where the one before ends.
FaultStarts(Lp) ==
  LET whole == (Lp - 1) \div WB
  IN  [k \in 1..(IF Lp = 0 THEN 1 ELSE whole + 1) |-> (k - 1) * WB]

\* Where the windows begin; the last is aligned with the end.
Starts(Lp) ==
  LET whole == IF Lp = 0 THEN 0 ELSE (Lp - 1) \div WB
  IN  Append([k \in 1..whole |-> (k - 1) * WB], IF Lp > WB THEN Lp - WB ELSE 0)

\* One window: "real" counts its frames that are not padding.
Window ==
  LET Lp == Len(mm)
      from == Starts(Lp)[win + 1]
      f == Less(WB, Lp - from)
  IN  /\ yp = "window"
      /\ mel' = [t \in DOMAIN mel |->
                   IF from < t /\ t <= from + f THEN [tok |-> mm[t], real |-> f] ELSE mel[t]]
      /\ win' = win + 1
      /\ yp' = IF win + 1 = Len(Starts(Lp)) THEN "chunk" ELSE "window"
      /\ UNCHANGED <<split, aco, line, sents, si, dur, mm, c0, wave, audio_out, reply, file>>

\* Fault: the head that was mixed in is put behind as well.
FaultCrossfaded(old, new) ==
  IF old = <<>> THEN new
  ELSE Front(old) \o <<Last(old) \cup new[1]>> \o new

\* The last hop of the sound is mixed with the first of the chunk.
Crossfaded(old, new) ==
  IF old = <<>> THEN new
  ELSE Front(old) \o <<Last(old) \cup new[1]>> \o SubSeq(new, 2, Len(new))

Chunk ==
  LET f == Less(CH, Len(mel) - c0)
  IN  /\ yp = "chunk" /\ c0 < Len(mel)
      /\ wave' = Crossfaded(wave, [k \in 1..f |-> {c0 + k}])
      /\ c0' = c0 + CH
      /\ UNCHANGED <<split, aco, yp, line, sents, si, dur, mm, win, mel, audio_out, reply, file>>

\* The end of a sentence; after the last one the file is written.
EndSentence ==
  /\ yp = "chunk" /\ c0 >= Len(mel)
  /\ audio_out' = Append(audio_out, si)
  /\ IF si = Len(sents)
     THEN file' = audio_out' /\ reply' = "DONE" /\ yp' = "read" /\ UNCHANGED si
     ELSE si' = si + 1 /\ yp' = "sentence" /\ UNCHANGED <<file, reply>>
  /\ dur' = <<>> /\ mm' = <<>> /\ win' = 0 /\ mel' = <<>> /\ c0' = 0 /\ wave' = <<>>
  /\ UNCHANGED <<split, aco, line, sents>>

SynthNext ==
  \/ \E t \in Lines : ReadLine(t)
  \/ ReadMalformed \/ ReadQuit \/ TooLong \/ Expand \/ Window \/ Chunk \/ EndSentence

SynthSpec == SynthInit /\ [][SynthNext]_synthVars

-----------------------------------------------------------------------------
(* Properties. *)

SynthTypeOK ==
  /\ split \in BOOLEAN /\ aco \in BOOLEAN
  /\ yp \in {"read", "sentence", "window", "chunk", "quit"}
  /\ yp \in {"sentence", "window", "chunk"} => si \in DOMAIN sents
  /\ DOMAIN mel = DOMAIN mm /\ win \in 0..Len(Starts(Len(mm)))
  /\ \A t \in DOMAIN mm : mm[t] \in DOMAIN dur

\* Where the longest word that begins at p ends, p - 1 if none does.
WordEnd(t, p) ==
  LET ends == {q \in p..Len(t) : SubSeq(t, p, q) \in LexWords}
  IN  IF ends = {} THEN p - 1 ELSE CHOOSE q \in ends : \A r \in ends : r <= q

\* What is to be said at p: the word, or the mark, or nothing.
TokensAt(t, p) ==
  IF WordEnd(t, p) >= p THEN WordIds(SubSeq(t, p, WordEnd(t, p)))
  ELSE IF t[p] \in DOMAIN Puncts /\ Puncts[t[p]] \in DOMAIN TokenId THEN <<TokenId[Puncts[t[p]]]>>
  ELSE <<>>

\* Without the pads.
Bare(s) == [j \in 1..(Len(s) \div 2) |-> s[2 * j]]

\* Every word and every mark that can be said is said, in order, however the line
\* is split (kpu_vits_runner.cc:2047-2087): the tokens are those of the one way to
\* read the text whose words cannot be made longer.  No sentence is empty.
NothingUnsaid ==
  LET from[p \in 1..(Len(line) + 1)] ==
        IF p > Len(line) THEN <<>>
        ELSE TokensAt(line, p) \o from[IF WordEnd(line, p) >= p THEN WordEnd(line, p) + 1 ELSE p + 1]
  IN  /\ FlattenSeq([k \in DOMAIN sents |-> Bare(sents[k])]) = from[1]
      /\ \A k \in DOMAIN sents : Len(sents[k]) >= 3

\* The frames never run away from the durations: each token begins and ends within
\* one frame of where the exact sum of the durations puts it (2144-2152).
NoDrift ==
  yp = "window" => \A n \in DOMAIN dur :
    LET frames == Cardinality({t \in DOMAIN mm : mm[t] <= n})
    IN  2 * frames <= Sum(dur, n) /\ Sum(dur, n) < 2 * frames + 2

\* "every window with Lp>WB is FULL of real frames" (2192-2194): the estimator made
\* each frame from its own token, in a window with as few pads as can be.
WindowsAreFull ==
  yp = "chunk" => \A t \in DOMAIN mm :
    mel[t] = [tok |-> mm[t], real |-> Less(WB, Len(mm))]

\* Each frame of the mel is heard once and in its place; two are mixed in one hop
\* only where two chunks meet (2391-2397).
EveryFrameHeard ==
  yp = "chunk" =>
    /\ UNION {wave[k] : k \in DOMAIN wave} = 1..Less(c0, Len(mel))
    /\ \A k, l \in DOMAIN wave : k < l => \A t \in wave[k], u \in wave[l] : t < u
    /\ \A k \in DOMAIN wave : Cardinality(wave[k]) > 1 =>
         \E t \in wave[k] : t % CH = 0 /\ wave[k] = {t, t + 1}

\* DONE stands for a file with the sound of every sentence of the line, in order;
\* no other answer, and no answer, leaves one.
DoneIsWhole ==
  IF reply = "DONE"
  THEN file = [k \in DOMAIN sents |-> k]
  ELSE file = <<>>

\* Every frame is made from its own token, in a full window, and heard once.
FramesInPlace == NoDrift /\ WindowsAreFull /\ EveryFrameHeard

\* A line is said as a whole, from its words to its file, or not at all.
LineIsSaid == SynthTypeOK /\ NothingUnsaid /\ DoneIsWhole
=============================================================================
