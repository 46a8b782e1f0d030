------------------------------- MODULE Speech -------------------------------
(***************************************************************************)
(* From sentences to sound: llmd writes sentences to the FIFO tts_in, the   *)
(* daemon loop of tts/port/kpu_vits_runner.cc synthesises them one by one   *)
(* and logs DONE, chat_service/player.sh counts the DONE lines and plays.   *)
(* chatd restarts what dies, and empties tts_out.log when it restarts tts.  *)
(*                                                                         *)
(* Sentences are numbered in the order they are sent; the number also       *)
(* stands for the name of the wav file.                                     *)
(***************************************************************************)
EXTENDS Naturals, Sequences, FiniteSets

CONSTANTS
  Sentences,     \* how many sentences are sent
  TtsDeaths,     \* bound: how often the runner dies
  PlayerDeaths   \* bound: how often the player dies

ASSUME SpeechAssumption == {Sentences, TtsDeaths, PlayerDeaths} \subseteq Nat

Sent == 1..Sentences

VARIABLES
  sent,      \* sentences written to the FIFO so far
  tts_in,    \* lines in the FIFO
  taken,     \* lines in the runner's stdin buffer; the first is worked on
  runner,    \* "loading", "reading", "synth", "written" or "dead"
  ttsDied,   \* how often it died
  log,       \* the DONE lines of tts_out.log
  files,     \* the wav files
  player,    \* "count", "pick", "play", "remove" or "dead"
  playerDied,
  n,         \* DONE lines the player is through with
  now,       \* DONE lines it counted
  wav,       \* the file it picked
  played,    \* history: files given to aplay, in order
  excused,   \* history: sentences that need not be heard: without sound, read by a
             \* runner that died, or in the log when it was emptied or passed over
  raced      \* history: the log changed between the two greps of the player

queue == <<sent, tts_in>>
tts == <<taken, runner, ttsDied>>
voice == <<player, playerDied, n, now, wav, played>>
speechVars == <<queue, tts, log, files, voice, excused, raced>>

-----------------------------------------------------------------------------
(* llmd and the runner. *)

Dispatch ==
  /\ sent < Sentences
  /\ sent' = sent + 1
  /\ tts_in' = Append(tts_in, sent + 1)
  /\ UNCHANGED <<tts, log, files, voice, excused, raced>>

Ready ==
  /\ runner = "loading"
  /\ runner' = "reading"
  /\ UNCHANGED <<queue, taken, ttsDied, log, files, voice, excused, raced>>

\* getline on std::cin: one read takes all that the pipe holds.
Fill ==
  /\ runner = "reading" /\ taken = <<>> /\ tts_in # <<>>
  /\ taken' = tts_in
  /\ tts_in' = <<>>
  /\ UNCHANGED <<sent, runner, ttsDied, log, files, voice, excused, raced>>

Begin ==
  /\ runner = "reading" /\ taken # <<>>
  /\ runner' = "synth"
  /\ UNCHANGED <<queue, taken, ttsDied, log, files, voice, excused, raced>>

\* An empty line or a comment, a protocol error, text without a word in the
\* lexicon, a sentence too long: no file and no DONE.
SkipText ==
  /\ runner = "synth"
  /\ taken' = Tail(taken)
  /\ runner' = "reading"
  /\ excused' = excused \cup {Head(taken)}
  /\ UNCHANGED <<queue, ttsDied, log, files, voice, raced>>

WriteWave ==
  /\ runner = "synth"
  /\ files' = files \cup {Head(taken)}
  /\ runner' = "written"
  /\ UNCHANGED <<queue, taken, ttsDied, log, voice, excused, raced>>

\* Fault: the oldest of all lines instead of the oldest new one.
FaultPickOldest == IF log = <<>> THEN 0 ELSE log[1]

\* Fault: counted from the wrong end.
FaultPickBackwards ==
  IF log = <<>> THEN 0 ELSE IF now - n > Len(log) THEN log[1] ELSE log[now - n]

\* grep, tail -n $((now - n)), head -1, of the log as it is by then.
Picked ==
  LET new == now - n
  IN  IF log = <<>> \/ new = 0 THEN 0
      ELSE IF Len(log) <= new THEN log[1] ELSE log[Len(log) - new + 1]

\* The lines the player will be through with after its present round.
Through == IF player \in {"pick", "play", "remove"} THEN n + 1 ELSE n

\* A line that lands at or before the player's count is not a new one to it:
\* that happens only after the log was emptied. A line that lands between the
\* player's two looks at the log pushes out the one whose turn it was.
PrintDone ==
  /\ runner = "written"
  /\ log' = Append(log, Head(taken))
  /\ taken' = Tail(taken)
  /\ runner' = "reading"
  /\ excused' = excused
       \cup (IF Len(log) + 1 <= Through THEN {Head(taken)} ELSE {})
       \cup (IF player = "pick" THEN {Picked} ELSE {})
  /\ raced' = (raced \/ player = "pick")
  /\ UNCHANGED <<queue, ttsDied, files, voice>>

Elements(s) == {s[i] : i \in DOMAIN s}

\* What the runner had read is lost with it.
TtsDies ==
  /\ runner # "dead" /\ ttsDied < TtsDeaths
  /\ runner' = "dead"
  /\ ttsDied' = ttsDied + 1
  /\ taken' = <<>>
  /\ excused' = excused \cup Elements(taken)
  /\ UNCHANGED <<queue, log, files, voice, raced>>

\* spawn_child truncates the log; lines the player has not come to are gone.
Respawn ==
  /\ runner = "dead"
  /\ runner' = "loading"
  /\ log' = <<>>
  /\ excused' = excused \cup Elements(log)
  /\ raced' = (raced \/ player = "pick")
  /\ UNCHANGED <<queue, taken, ttsDied, files, voice>>

-----------------------------------------------------------------------------
(* player.sh *)

\* Fault: no new line is taken for one.
FaultCount ==
  /\ player = "count"
  /\ now' = Len(log)
  /\ IF Len(log) >= n THEN player' = "pick" /\ UNCHANGED n
     ELSE UNCHANGED player /\ n' = Len(log)
  /\ UNCHANGED <<queue, tts, log, files, playerDied, wav, played, excused, raced>>

Count ==
  /\ player = "count"
  /\ now' = Len(log)
  /\ IF Len(log) > n THEN player' = "pick" /\ UNCHANGED n
     ELSE UNCHANGED player /\ n' = Len(log)
  /\ UNCHANGED <<queue, tts, log, files, playerDied, wav, played, excused, raced>>

PickWav ==
  /\ player = "pick"
  /\ wav' = Picked
  /\ IF Picked \in files THEN player' = "play" /\ UNCHANGED n
                         ELSE player' = "count" /\ n' = n + 1
  /\ UNCHANGED <<queue, tts, log, files, playerDied, now, played, excused, raced>>

Play ==
  /\ player = "play"
  /\ played' = Append(played, wav)
  /\ player' = "remove"
  /\ UNCHANGED <<queue, tts, log, files, playerDied, n, now, wav, excused, raced>>

\* Fault: the file stays.
FaultKeep ==
  /\ player = "remove"
  /\ n' = n + 1
  /\ player' = "count"
  /\ UNCHANGED <<queue, tts, log, files, playerDied, now, wav, played, excused, raced>>

RemoveWav ==
  /\ player = "remove"
  /\ files' = files \ {wav}
  /\ n' = n + 1
  /\ player' = "count"
  /\ UNCHANGED <<queue, tts, log, playerDied, now, wav, played, excused, raced>>

PlayerDies ==
  /\ player # "dead" /\ playerDied < PlayerDeaths
  /\ player' = "dead"
  /\ playerDied' = playerDied + 1
  /\ UNCHANGED <<queue, tts, log, files, n, now, wav, played, excused, raced>>

\* A new player takes the present number of lines for its start.
PlayerStarts ==
  /\ player = "dead"
  /\ player' = "count"
  /\ n' = Len(log)
  /\ excused' = excused \cup Elements(log)
  /\ UNCHANGED <<queue, tts, log, files, playerDied, now, wav, played, raced>>

-----------------------------------------------------------------------------
SpeechInit ==
  /\ sent = 0 /\ tts_in = <<>>
  /\ taken = <<>> /\ runner = "loading" /\ ttsDied = 0
  /\ log = <<>> /\ files = {}
  /\ player = "count" /\ playerDied = 0 /\ n = 0 /\ now = 0 /\ wav = 0
  /\ played = <<>> /\ excused = {} /\ raced = FALSE

Runner == Ready \/ Fill \/ Begin \/ SkipText \/ WriteWave \/ PrintDone \/ Respawn
Player == Count \/ PickWav \/ Play \/ RemoveWav \/ PlayerStarts

SpeechNext == Dispatch \/ Runner \/ Player \/ TtsDies \/ PlayerDies

SpeechSpec == SpeechInit /\ [][SpeechNext]_speechVars

\* Both processes get the CPU, and chatd restarts them (Chatd, KeepsPromise).
SpeechLiveSpec == SpeechSpec /\ WF_speechVars(Runner) /\ WF_speechVars(Player)

-----------------------------------------------------------------------------
(* Properties. *)

SpeechTypeOK ==
  /\ sent \in 0..Sentences
  /\ Elements(tts_in) \cup Elements(taken) \cup Elements(log) \cup files \subseteq Sent
  /\ runner \in {"loading", "reading", "synth", "written", "dead"}
  /\ runner \in {"synth", "written"} => taken # <<>>
  /\ player \in {"count", "pick", "play", "remove", "dead"}
  /\ n \in Nat /\ now \in Nat /\ wav \in {0} \cup Sent
  /\ n <= Cardinality(Sent)

\* No sentence is heard twice: not when the log was emptied under the player,
\* and not when the player died between aplay and rm.
PlayedOnce == \A i, j \in DOMAIN played : played[i] = played[j] => i = j

\* As long as no line comes between the two greps of the player, sentences are
\* heard in the order they were spoken, whoever dies (player.sh:3).
PlayedInOrder ==
  ~raced => \A i, j \in DOMAIN played : i < j => played[i] < played[j]

\* A sentence that was sent is heard, unless it gave no sound, was lost with the
\* runner that had read it, its line was written off by a restart of tts or of
\* the player, or it was pushed out by a line between the two greps: whatever
\* happens, no further sentence goes missing.
EverySentenceIsHeard ==
  \A s \in Sent :
    s <= sent ~> (s \in Elements(played) \cup excused)

\* What is heard is what was said: each sentence once, and in its turn.
PlayedAsSaid == SpeechTypeOK /\ PlayedOnce /\ PlayedInOrder
=============================================================================
