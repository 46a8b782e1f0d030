------------------------------- MODULE ChatDemo -------------------------------
(***************************************************************************)
(* One turn of chat_service/chat_demo.sh (25-102): the script polls the       *)
(* answer file that llmd makes longer, cuts it into pieces at the marks,      *)
(* sends complete pieces to the tts daemon and plays the files one after the  *)
(* other.  llmd and the daemon run meanwhile; what they do is external here    *)
(* (see Speech and Synthesis for the daemon).                                 *)
(*                                                                         *)
(* An answer is a sequence of words (strings), "mark", "blank" and "smile",    *)
(* the last for what is not blank but cannot be said.                         *)
(***************************************************************************)
EXTENDS Integers, SequencesExt

CONSTANTS
  Answers,   \* what llmd may answer
  OldText,   \* what the turn before left in the variable clean
  Rounds,    \* rounds of the loop (240)
  SENT_MAX, QUEUE_MAX

ASSUME DemoAssumption ==
  /\ Answers \subseteq Seq(STRING) /\ OldText \in Seq(STRING)
  /\ {Rounds, SENT_MAX, QUEUE_MAX} \subseteq Nat

VARIABLES
  answer, grown, llmDone,  \* the answer, how much of it is written, DONE is logged
  dp,        \* "poll", "measure", "tail", "queue", "send", "rest", "play", "over"
  round, size, pofs, pend, clean,
  piece,     \* k: the piece looked at, or the file to be played
  pieceSent, \* sent
  sayings,   \* the lines sent to tts_in: [no, words]
  said,      \* how many of them the daemon is through with
  wavs,      \* numbers of the pieces with a DONE, and so with a file
  heard,     \* history: files given to aplay
  demoRaced  \* history: the file grew between its two looks at it

turn == <<answer, grown, llmDone>>
reader == <<round, size, pofs, pend, clean>>
voicing == <<sayings, said, wavs>>
demoVars == <<turn, dp, reader, piece, pieceSent, voicing, heard, demoRaced>>

\* Where the line ends that begins at p: at its mark, or with the text.
LineEnd(t, p) ==
  LET ends == {q \in p..Len(t) : t[q] = "mark"}
  IN  IF ends = {} THEN Len(t) ELSE CHOOSE q \in ends : \A r \in ends : q <= r

\* The lines of a text: it is cut behind every mark.
Pieces(t) ==
  LET from[p \in 1..(Len(t) + 1)] ==
        IF p > Len(t) THEN <<>>
        ELSE <<SubSeq(t, p, LineEnd(t, p))>> \o from[LineEnd(t, p) + 1]
  IN  from[1]

Blank(s) == \A j \in DOMAIN s : s[j] = "blank"

Sayable(s) == \E j \in DOMAIN s : s[j] \notin {"blank", "smile", "mark"}

-----------------------------------------------------------------------------
(* llmd and the daemon. *)

Grow ==
  /\ grown < Len(answer) /\ grown' = grown + 1
  /\ UNCHANGED <<answer, llmDone, dp, reader, piece, pieceSent, voicing, heard, demoRaced>>

LlmIsDone ==
  /\ grown = Len(answer) /\ ~llmDone /\ llmDone' = TRUE
  /\ UNCHANGED <<answer, grown, dp, reader, piece, pieceSent, voicing, heard, demoRaced>>

\* A line without a word gets no file and no DONE.
Say ==
  /\ said < Len(sayings)
  /\ said' = said + 1
  /\ wavs' = IF Sayable(sayings[said + 1].words) THEN wavs \cup {sayings[said + 1].no} ELSE wavs
  /\ UNCHANGED <<turn, dp, reader, piece, pieceSent, sayings, heard, demoRaced>>

-----------------------------------------------------------------------------
(* The script. *)

DemoInit ==
  /\ answer \in Answers /\ grown = 0 /\ llmDone = FALSE
  /\ dp = "poll" /\ round = 0 /\ size = 0 /\ pofs = 0 /\ pend = <<>> /\ clean = OldText
  /\ piece = 0 /\ pieceSent = 0
  /\ sayings = <<>> /\ said = 0 /\ wavs = {} /\ heard = <<>> /\ demoRaced = FALSE

Poll ==
  /\ dp = "poll"
  /\ IF ~llmDone /\ round < Rounds
     THEN round' = round + 1 /\ dp' = "measure"
     ELSE UNCHANGED round /\ dp' = "rest"
  /\ UNCHANGED <<turn, size, pofs, pend, clean, piece, pieceSent, voicing, heard, demoRaced>>

\* wc -c
MeasureFile ==
  /\ dp = "measure" /\ size' = grown /\ dp' = "tail"
  /\ UNCHANGED <<turn, round, pofs, pend, clean, piece, pieceSent, voicing, heard, demoRaced>>

\* Fault: the place is not kept.
FaultTailFile ==
  /\ dp = "tail"
  /\ pend' = IF size > pofs THEN pend \o SubSeq(answer, pofs + 1, grown) ELSE pend
  /\ clean' = pend' /\ dp' = "queue" /\ demoRaced' = (demoRaced \/ grown # size)
  /\ UNCHANGED <<turn, round, size, pofs, piece, pieceSent, voicing, heard>>

\* tail -c: all that is there by now, though only the size measured is noted.
TailFile ==
  /\ dp = "tail"
  /\ IF size > pofs
     THEN pend' = pend \o SubSeq(answer, pofs + 1, grown) /\ pofs' = size
     ELSE UNCHANGED <<pend, pofs>>
  /\ clean' = pend' /\ dp' = "queue" /\ demoRaced' = (demoRaced \/ grown # size)
  /\ UNCHANGED <<turn, round, size, piece, pieceSent, voicing, heard>>

\* Fault: waits for one number more.
FaultQueueHasRoom ==
  /\ dp = "queue" /\ pieceSent - Cardinality(wavs) < QUEUE_MAX - 1
  /\ piece' = pieceSent
  /\ dp' = IF Len(Pieces(clean)) > pieceSent /\ Len(Pieces(clean)) > 1 THEN "send" ELSE "poll"
  /\ UNCHANGED <<turn, reader, pieceSent, voicing, heard, demoRaced>>

\* Waits until fewer than QUEUE_MAX numbers are without a DONE.
QueueHasRoom ==
  /\ dp = "queue" /\ pieceSent - Cardinality(wavs) < QUEUE_MAX
  /\ piece' = pieceSent
  /\ dp' = IF Len(Pieces(clean)) > pieceSent /\ Len(Pieces(clean)) > 1 THEN "send" ELSE "poll"
  /\ UNCHANGED <<turn, reader, pieceSent, voicing, heard, demoRaced>>

\* Fault: the last piece is sent though it is not complete.
FaultSendPiece ==
  /\ dp = "send" /\ piece < Len(Pieces(clean)) /\ piece < SENT_MAX
  /\ piece' = piece + 1
  /\ pieceSent' = piece'
  /\ sayings' = Append(sayings, [no |-> piece', words |-> Pieces(clean)[piece']])
  /\ UNCHANGED <<turn, dp, reader, said, wavs, heard, demoRaced>>

\* Fault: the number moves on by two.
FaultSkipLast ==
  /\ dp = "send" /\ piece < Len(Pieces(clean)) - 1 /\ piece < SENT_MAX
  /\ piece' = piece + 2
  /\ pieceSent' = piece'
  /\ sayings' = Append(sayings, [no |-> piece + 1, words |-> Pieces(clean)[piece + 1]])
  /\ UNCHANGED <<turn, dp, reader, said, wavs, heard, demoRaced>>

\* All complete pieces, the blank ones left out.
SendPiece ==
  /\ dp = "send" /\ piece < Len(Pieces(clean)) - 1 /\ piece < SENT_MAX
  /\ piece' = piece + 1
  /\ IF Blank(Pieces(clean)[piece'])
     THEN UNCHANGED <<pieceSent, sayings>>
     ELSE /\ pieceSent' = piece'
          /\ sayings' = Append(sayings, [no |-> piece', words |-> Pieces(clean)[piece']])
  /\ UNCHANGED <<turn, dp, reader, said, wavs, heard, demoRaced>>

SendEnds ==
  /\ dp = "send" /\ ~(piece < Len(Pieces(clean)) - 1 /\ piece < SENT_MAX)
  /\ dp' = "poll"
  /\ UNCHANGED <<turn, reader, piece, pieceSent, voicing, heard, demoRaced>>

\* After the loop: one more piece, of the text as it was read last.
SendRest ==
  /\ dp = "rest"
  /\ LET k == pieceSent + 1
     IN  IF pieceSent < SENT_MAX /\ k <= Len(Pieces(clean)) /\ ~Blank(Pieces(clean)[k])
         THEN /\ pieceSent' = k
              /\ sayings' = Append(sayings, [no |-> k, words |-> Pieces(clean)[k]])
         ELSE UNCHANGED <<pieceSent, sayings>>
  /\ piece' = 1 /\ dp' = "play"
  /\ UNCHANGED <<turn, reader, said, wavs, heard, demoRaced>>

\* Fault: the next file that is there is played.
FaultPlayNext ==
  /\ dp = "play"
  /\ \E k \in wavs : ~Contains(heard, k) /\ heard' = Append(heard, k)
  /\ piece' = piece + 1
  /\ dp' = IF piece' > pieceSent THEN "over" ELSE "play"
  /\ UNCHANGED <<turn, reader, pieceSent, voicing, demoRaced>>

\* wait_done and aplay; a number that has no DONE in its time is skipped.
PlayNext ==
  /\ dp = "play"
  /\ IF piece > pieceSent
     THEN dp' = "over" /\ UNCHANGED <<piece, heard>>
     ELSE /\ piece' = piece + 1 /\ UNCHANGED dp
          /\ \/ piece \in wavs /\ heard' = Append(heard, piece)
             \/ piece \notin wavs /\ UNCHANGED heard
  /\ UNCHANGED <<turn, reader, pieceSent, voicing, demoRaced>>

External == Grow \/ LlmIsDone \/ Say
DemoScript == Poll \/ MeasureFile \/ TailFile \/ QueueHasRoom \/ SendPiece \/ SendEnds
              \/ SendRest \/ PlayNext

DemoNext == External \/ DemoScript

DemoSpec ==
  DemoInit /\ [][DemoNext]_demoVars /\ WF_demoVars(External) /\ WF_demoVars(DemoScript)

-----------------------------------------------------------------------------
(* Properties. *)

\* What is read is the beginning of the answer, once: unless llmd writes between
\* wc and tail, when what it writes is read again in the next round (39-43).
ReadOnce == ~demoRaced => pend = SubSeq(answer, 1, pofs)

\* A piece that is sent is the piece of that number of the whole answer, complete
\* unless it is the last one sent; if the loop has run at all, for else it is a piece
\* of the answer before (chat_demo.sh:58-84).
PiecesAreOfTheAnswer ==
  round > 0 /\ ~demoRaced => \A j \in DOMAIN sayings :
    LET s == sayings[j]
    IN  /\ s.no <= Len(Pieces(answer))
        /\ IsPrefix(s.words, Pieces(answer)[s.no])
        /\ s.words = Pieces(answer)[s.no] \/ (j = Len(sayings) /\ dp \in {"play", "over"})
        /\ j > 1 => sayings[j - 1].no < s.no

\* The script sends all it has read, piece by piece: what is missing when the
\* playing begins is blank, or the last piece with only blank ones between it and
\* the last that was sent (58-84).  Of a turn that never looks, nothing was read.
ReadIsSent ==
  LET p == Pieces(clean)
      sentOnes == {sayings[j].no : j \in DOMAIN sayings}
  IN  dp = "play" /\ round > 0 => \A k \in DOMAIN p :
        \/ k > SENT_MAX \/ k \in sentOnes \/ Blank(p[k])
        \/ k = Len(p) /\ k > 1 /\ Blank(p[k - 1])

\* The pieces are heard in the order of the text, each at most once, whatever the
\* pace of the daemon (87-101).
HeardInOrder ==
  \A j \in DOMAIN heard : heard[j] \in wavs /\ (j > 1 => heard[j - 1] < heard[j])

\* When the answer is complete the turn ends, unless so many pieces were sent that
\* cannot be said, and so have no DONE, that the queue counts as full for good (53-57).
TurnEnds ==
  llmDone ~>
    \/ dp = "over"
    \/ dp = "queue" /\ said = Len(sayings) /\ pieceSent - Cardinality(wavs) >= QUEUE_MAX

\* What is sent to be spoken is what was written: read once, cut at its marks, all
\* that was read, and in the order of its numbers.
SpokenAsWritten == ReadOnce /\ PiecesAreOfTheAnswer /\ ReadIsSent

\* "the last piece is sent as well" (chat_demo.sh:71): when the playing begins,
\* every piece of an answer that is not too long was sent, but for blank ones.
RestIsSent ==
  dp = "play" /\ round \in 1..(Rounds - 1) /\ Len(Pieces(answer)) <= SENT_MAX /\ ~demoRaced =>
    \A k \in DOMAIN Pieces(answer) :
      Blank(Pieces(answer)[k]) \/ Contains(sayings, [no |-> k, words |-> Pieces(answer)[k]])
=============================================================================
