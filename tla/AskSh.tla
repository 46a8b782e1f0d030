-------------------------------- MODULE AskSh --------------------------------
(***************************************************************************)
(* From a question to its answer: chat_service/ask.sh writes a question to  *)
(* the FIFO llm_in, counts the DONE lines of llmd's log to learn that it    *)
(* was answered, prints the answer as it grows, asks a second time when     *)
(* nothing came, and gives up in the end.  One ask at a time, as one user   *)
(* does.  chatd's warm-up question comes the same way; chatd empties the    *)
(* log when it restarts llmd.                                               *)
(*                                                                         *)
(* llmd itself is not in the repository: it reads lines with getline,       *)
(* empties the answer file, writes word after word, and logs DONE.          *)
(***************************************************************************)
EXTENDS Naturals, Sequences, FiniteSets

CONSTANTS
  Asks,      \* bound: how many questions the user asks
  Words,     \* length of an answer
  ResendAt,  \* rounds of the loop until the question is sent again (90)
  GiveUpAt,  \* rounds until it is given up (480)
  Deaths     \* bound: how often llmd dies

ASSUME AskAssumption ==
  /\ {Asks, Words, ResendAt, GiveUpAt, Deaths} \subseteq Nat \ {0}
  /\ ResendAt < GiveUpAt

WarmUp == 0
Questions == 1..Asks

VARIABLES
  llm_in,   \* lines in the FIFO
  warm,     \* the warm-up writer: "waiting", "due" or "over"
  pending,  \* the file ask_pending exists
  taken,    \* lines in llmd's stdin buffer; the first is worked on
  llmd,     \* "loading", "waiting", "answering" or "dead"
  died,     \* how often it died
  log,      \* the DONE lines of llm_out.log
  whose,    \* the question whose answer is in ask_out.txt
  text,     \* its words so far
  asked,    \* the question asked last
  ask,      \* "none", "write", "measure", "look" or "show"
  LB, now,  \* DONE lines at the beginning, and counted last
  n, resent, shown,
  printed,  \* history: words of the own answer this ask printed
  outcome,  \* history: "open", "own", "other" or "gaveup"
  repeats,  \* history: questions that were sent twice
  answered, \* history: questions that were answered
  lost,     \* history: questions llmd took with it after they were sent twice
  unseen,   \* history: ask_out.txt was emptied since ask.sh looked at it
  hurried   \* history: it grew past that mark, or was emptied, before ask.sh looked

fifo == <<llm_in, warm, pending>>
daemon == <<taken, llmd, died, log, whose, text>>
script == <<asked, ask, LB, now, n, resent, shown>>
history == <<printed, outcome, repeats, answered, lost, unseen, hurried>>
vars == <<fifo, daemon, script, history>>

Elements(s) == {s[i] : i \in DOMAIN s}

-----------------------------------------------------------------------------
(* The warm-up of chatd: sixty looks for ask_pending, then the question.     *)

WarmSkips ==
  /\ warm = "waiting" /\ pending
  /\ warm' = "over"
  /\ UNCHANGED <<llm_in, pending, daemon, script, history>>

WarmLastLook ==
  /\ warm = "waiting" /\ ~pending
  /\ warm' = "due"
  /\ UNCHANGED <<llm_in, pending, daemon, script, history>>

WarmWrites ==
  /\ warm = "due"
  /\ llm_in' = Append(llm_in, WarmUp)
  /\ warm' = "over"
  /\ UNCHANGED <<pending, daemon, script, history>>

-----------------------------------------------------------------------------
(* llmd, and chatd that restarts it. *)

Loaded ==
  /\ llmd = "loading"
  /\ llmd' = "waiting"
  /\ UNCHANGED <<fifo, taken, died, log, whose, text, script, history>>

Take ==
  /\ llmd = "waiting" /\ taken = <<>> /\ llm_in # <<>>
  /\ taken' = llm_in
  /\ llm_in' = <<>>
  /\ UNCHANGED <<warm, pending, llmd, died, log, whose, text, script, history>>

\* The warm-up has an answer file of its own.
BeginAnswer ==
  /\ llmd = "waiting" /\ taken # <<>>
  /\ llmd' = "answering"
  /\ IF Head(taken) = WarmUp THEN UNCHANGED <<whose, text, unseen, hurried>>
     ELSE /\ whose' = Head(taken) /\ text' = 0
          /\ unseen' = (shown > 0)
          /\ hurried' = (hurried \/ (whose = asked /\ shown < text))
  /\ UNCHANGED <<fifo, taken, died, log, script>>
  /\ UNCHANGED <<printed, outcome, repeats, answered, lost>>

Word ==
  /\ llmd = "answering" /\ Head(taken) # WarmUp /\ text < Words
  /\ text' = text + 1
  /\ hurried' = (hurried \/ ask = "measure" \/ (unseen /\ text' >= shown))
  /\ UNCHANGED <<fifo, taken, llmd, died, log, whose, script>>
  /\ UNCHANGED <<printed, outcome, repeats, answered, lost, unseen>>

LogDone ==
  /\ llmd = "answering" /\ (Head(taken) = WarmUp \/ text = Words)
  /\ log' = Append(log, Head(taken))
  /\ taken' = Tail(taken)
  /\ llmd' = "waiting"
  /\ answered' = answered \cup {Head(taken)}
  /\ UNCHANGED <<fifo, died, whose, text, script>>
  /\ UNCHANGED <<printed, outcome, repeats, lost, unseen, hurried>>

\* What llmd had read is lost with it, the question it works on included. The
\* watchdog that kills it removes ask_pending as well.
LlmdDies ==
  /\ llmd # "dead" /\ died < Deaths
  /\ llmd' = "dead"
  /\ died' = died + 1
  /\ taken' = <<>>
  /\ lost' = lost \cup ((Elements(taken) \cap repeats) \ Elements(llm_in))
  /\ pending' \in {pending, FALSE}
  /\ UNCHANGED <<llm_in, warm, log, whose, text, script>>
  /\ UNCHANGED <<printed, outcome, repeats, answered, unseen, hurried>>

RespawnLlmd ==
  /\ llmd = "dead"
  /\ llmd' = "loading"
  /\ log' = <<>>
  /\ UNCHANGED <<fifo, taken, died, whose, text, script, history>>

-----------------------------------------------------------------------------
(* ask.sh *)

\* Fault: every DONE of the log counts as an answer.
FaultBegin ==
  /\ ask = "none" /\ asked < Asks
  /\ asked' = asked + 1
  /\ LB' = 0
  /\ pending' = TRUE
  /\ ask' = "write"
  /\ printed' = {} /\ hurried' = FALSE
  /\ UNCHANGED <<llm_in, warm, daemon, now, n, resent, shown>>
  /\ UNCHANGED <<outcome, repeats, answered, lost, unseen>>

Begin ==
  /\ ask = "none" /\ asked < Asks
  /\ asked' = asked + 1
  /\ LB' = Len(log)
  /\ pending' = TRUE
  /\ ask' = "write"
  /\ printed' = {} /\ hurried' = FALSE
  /\ UNCHANGED <<llm_in, warm, daemon, now, n, resent, shown>>
  /\ UNCHANGED <<outcome, repeats, answered, lost, unseen>>

Write ==
  /\ ask = "write"
  /\ llm_in' = Append(llm_in, asked)
  /\ ask' = "measure"
  /\ UNCHANGED <<warm, pending, daemon, asked, LB, now, n, resent, shown, history>>

Measure ==
  /\ ask = "measure"
  /\ n' = 0 /\ resent' = FALSE /\ shown' = text
  /\ ask' = "look"
  /\ unseen' = FALSE
  /\ UNCHANGED <<fifo, daemon, asked, LB, now>>
  /\ UNCHANGED <<printed, outcome, repeats, answered, lost, hurried>>

Over(how) ==
  /\ pending' = FALSE
  /\ ask' = "none"
  /\ outcome' = [outcome EXCEPT ![asked] = how]

Look ==
  /\ ask = "look" /\ n < GiveUpAt
  /\ now' = Len(log)
  /\ ask' = "show"
  /\ UNCHANGED <<fifo, daemon, asked, LB, n, resent, shown, history>>

GiveUp ==
  /\ ask = "look" /\ n >= GiveUpAt
  /\ Over("gaveup")
  /\ UNCHANGED <<llm_in, warm, daemon, asked, LB, now, n, resent, shown>>
  /\ UNCHANGED <<printed, repeats, answered, lost, unseen, hurried>>

\* Fault: an answer file that was emptied is not noticed.
FaultShownBefore == shown

\* The words printed before, none if the file has become shorter.
ShownBefore == IF text < shown THEN 0 ELSE shown

ShowText ==
  /\ shown' = IF text > ShownBefore THEN text ELSE ShownBefore
  /\ printed' = IF whose = asked THEN printed \cup (ShownBefore + 1 .. text) ELSE printed
  /\ unseen' = FALSE

Show ==
  /\ ask = "show" /\ now > LB
  /\ ShowText
  /\ Over(IF asked \in answered THEN "own" ELSE "other")
  /\ UNCHANGED <<llm_in, warm, daemon, asked, LB, now, n, resent>>
  /\ UNCHANGED <<repeats, answered, lost, hurried>>

\* Fault: the question is never sent again.
FaultNeverResend == FALSE

\* Fault: the question is sent again in every round.
FaultAlwaysResend == n >= ResendAt

MustResend == n >= ResendAt /\ ~resent

ShowMore ==
  /\ ask = "show" /\ now <= LB
  /\ ShowText
  /\ resent' = (resent \/ MustResend)
  /\ IF MustResend
     THEN llm_in' = Append(llm_in, asked) /\ repeats' = repeats \cup {asked}
     ELSE UNCHANGED <<llm_in, repeats>>
  /\ n' = n + 1
  /\ ask' = "look"
  /\ UNCHANGED <<warm, pending, daemon, asked, LB, now, outcome, answered, lost, hurried>>

-----------------------------------------------------------------------------
Init ==
  /\ llm_in = <<>> /\ warm \in {"waiting", "over"} /\ pending = FALSE
  /\ taken = <<>> /\ llmd = "loading" /\ died = 0
  /\ log = <<>> /\ whose = 0 /\ text = 0
  /\ asked = 0 /\ ask = "none" /\ LB = 0 /\ now = 0
  /\ n = 0 /\ resent = FALSE /\ shown = 0
  /\ printed = {} /\ outcome = [q \in Questions |-> "open"]
  /\ repeats = {} /\ answered = {} /\ lost = {}
  /\ unseen = FALSE /\ hurried = FALSE

Daemon == Loaded \/ Take \/ BeginAnswer \/ Word \/ LogDone \/ RespawnLlmd
Script == Write \/ Measure \/ Look \/ Show \/ ShowMore \/ GiveUp
Warming == WarmSkips \/ WarmLastLook \/ WarmWrites

Next == Daemon \/ Script \/ Warming \/ Begin \/ LlmdDies

Spec == Init /\ [][Next]_vars

\* llmd and ask.sh get the CPU, llmd is restarted (Chatd, KeepsPromise).
LiveSpec == Spec /\ WF_vars(Daemon) /\ WF_vars(Script)

-----------------------------------------------------------------------------
(* Properties. *)

Lines == Questions \cup {WarmUp}

TypeOK ==
  /\ Elements(llm_in) \cup Elements(taken) \cup Elements(log) \subseteq Lines
  /\ warm \in {"waiting", "due", "over"}
  /\ pending \in BOOLEAN /\ (pending => ask # "none")
  /\ llmd \in {"loading", "waiting", "answering", "dead"}
  /\ llmd = "answering" => taken # <<>>
  /\ whose \in {0} \cup Questions /\ text \in 0..Words /\ shown \in 0..Words
  /\ asked \in {0} \cup Questions
  /\ ask \in {"none", "write", "measure", "look", "show"}
  /\ LB \in Nat /\ now \in Nat /\ n \in 0..GiveUpAt /\ resent \in BOOLEAN
  /\ Len(log) <= 2 * Asks + 1

\* ask.sh takes another question's answer for its own only if some earlier
\* question was sent twice, or the warm-up was under way: no
\* restart of llmd, at whatever moment, can do that (ask.sh:9, 23).
AnswerIsOwn ==
  \A q \in Questions :
    outcome[q] = "other" =>
      \/ \E p \in 1..(q - 1) : p \in repeats
      \/ WarmUp \in answered

\* An ask that ends on its own answer has printed all of it, restarts and
\* second answers included, unless between two looks llmd emptied the file of
\* words not printed yet, or emptied it and made it as long again (ask.sh:16-23).
PrintedWhole ==
  \A q \in Questions :
    (q = asked /\ outcome[q] = "own" /\ ~hurried) => printed = 1..Words

\* Each ask shows its own answer, and all of it.
AnswersAreApart == TypeOK /\ AnswerIsOwn /\ PrintedWhole

\* A question is answered in the end, though llmd dies, unless llmd took it
\* away after it had been sent twice, or another answer ended its ask before
\* it could be sent twice (docs 03, line 664).
QuestionSurvives ==
  \A q \in Questions :
    (asked = q) ~> (q \in answered \cup lost \/ outcome[q] = "other")

\* An ask whose answer is in the log ends (drill.sh:11, D1: llmd is killed,
\* the question is sent again and answered).
AnsweredAskEnds ==
  (ask = "look" /\ asked \in Elements(log)) => Len(log) > LB
=============================================================================
