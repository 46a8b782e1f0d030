------------------------------ MODULE BoardProofs ------------------------------
(***************************************************************************)
(* The services of the board that are not chatd.                              *)
(*                                                                          *)
(* What is heard is what was said: by the runner and the player behind the    *)
(* FIFO, for any number of sentences and deaths, and by a turn of             *)
(* chat_demo.sh, for every answer, every pace of llmd and of the daemon and   *)
(* all limits.                                                                *)
(*                                                                          *)
(* kpud and its clients never disagree on where a message begins, its cache   *)
(* holds what it counts, and no call sees what another left in a tile: for    *)
(* all clients, kernels, sizes and caps.                                     *)
(***************************************************************************)
EXTENDS Speech, ChatDemo, Kpud, SequenceTheorems, FiniteSetTheorems, SetInductions, TLAPS

-----------------------------------------------------------------------------
(* Queues of sentences. *)

Rises(s) == \A i, j \in DOMAIN s : i < j => s[i] < s[j]

Below(A, B) == \A a \in A, b \in B : a < b

\* An element appended to a rising queue, above all that is in it.
LEMMA AppendFacts ==
  ASSUME NEW s \in Seq(Sent), NEW x \in Sent
  PROVE  /\ Append(s, x) \in Seq(Sent) /\ Len(Append(s, x)) = Len(s) + 1 /\ Len(s) \in Nat
         /\ Elements(Append(s, x)) = Elements(s) \cup {x}
         /\ DOMAIN s = 1..Len(s) /\ DOMAIN Append(s, x) = 1..(Len(s) + 1)
         /\ \A i \in DOMAIN Append(s, x) :
              \/ i \in DOMAIN s /\ Append(s, x)[i] = s[i]
              \/ i = Len(s) + 1 /\ Append(s, x)[i] = x
         /\ Rises(s) /\ Below(Elements(s), {x}) => Rises(Append(s, x))
  <1> DEFINE t == Append(s, x)
  <1>1. /\ t \in Seq(Sent) /\ Len(t) = Len(s) + 1 /\ Len(s) \in Nat
        /\ \A i \in 1..Len(s) : t[i] = s[i]
        /\ t[Len(s) + 1] = x
    BY AppendProperties
  <1>2. DOMAIN t = 1..(Len(s) + 1) /\ DOMAIN s = 1..Len(s)
    BY <1>1, LenProperties
  <1> HIDE DEF t
  <1>3. \A i \in DOMAIN t : \/ i \in DOMAIN s /\ t[i] = s[i]
                            \/ i = Len(s) + 1 /\ t[i] = x
    BY <1>1, <1>2
  <1>4. DOMAIN s \subseteq DOMAIN t /\ Len(s) + 1 \in DOMAIN t
    BY <1>1, <1>2
  <1>5. Elements(t) = Elements(s) \cup {x}
    BY <1>1, <1>2, <1>3, <1>4 DEF Elements
  <1>6. ASSUME Rises(s), Below(Elements(s), {x}) PROVE Rises(t)
    <2>1. SUFFICES ASSUME NEW i \in DOMAIN t, NEW j \in DOMAIN t, i < j PROVE t[i] < t[j]
      BY DEF Rises
    <2>2. i \in DOMAIN s /\ t[i] = s[i]
      BY <1>1, <1>2, <1>3, <2>1
    <2>3. s[i] \in Elements(s)
      BY <2>2 DEF Elements
    <2> QED BY <1>3, <1>6, <2>1, <2>2, <2>3 DEF Rises, Below
  <1> QED BY <1>1, <1>2, <1>3, <1>5, <1>6 DEF t

\* The head of a rising queue is below the rest.
LEMMA TailFacts ==
  ASSUME NEW s \in Seq(Sent), s # <<>>
  PROVE  /\ Tail(s) \in Seq(Sent) /\ Len(Tail(s)) = Len(s) - 1 /\ Len(s) \in Nat /\ Head(s) \in Sent
         /\ Elements(s) = Elements(Tail(s)) \cup {Head(s)}
         /\ Rises(s) => Rises(Tail(s)) /\ Below({Head(s)}, Elements(Tail(s)))
  <1> DEFINE t == Tail(s)
  <1>1. /\ t \in Seq(Sent) /\ Len(t) = Len(s) - 1 /\ Len(s) \in Nat /\ Len(s) >= 1
        /\ \A i \in 1..Len(t) : t[i] = s[i + 1]
        /\ Head(s) = s[1] /\ Head(s) \in Sent
    BY HeadTailProperties, EmptySeq, ElementOfSeq
  <1>2. DOMAIN t = 1..(Len(s) - 1) /\ DOMAIN s = 1..Len(s)
    BY <1>1, LenProperties
  <1> HIDE DEF t
  <1>3. \A i \in DOMAIN t : i + 1 \in DOMAIN s /\ 1 < i + 1 /\ t[i] = s[i + 1]
    BY <1>1, <1>2
  <1>4. \A i \in DOMAIN s : i = 1 \/ (i - 1 \in DOMAIN t /\ t[i - 1] = s[i])
    BY <1>1, <1>2
  <1>5. 1 \in DOMAIN s
    BY <1>1, <1>2
  <1>6. Elements(s) = Elements(t) \cup {Head(s)}
    <2>1. Elements(s) \subseteq Elements(t) \cup {Head(s)}
      BY <1>1, <1>4 DEF Elements
    <2>2. Elements(t) \cup {Head(s)} \subseteq Elements(s)
      BY <1>1, <1>3, <1>5 DEF Elements
    <2> QED BY <2>1, <2>2
  <1>7. \A i, j \in DOMAIN t : i < j => i + 1 < j + 1
    BY <1>2
  <1>8. ASSUME Rises(s) PROVE Rises(t) /\ Below({Head(s)}, Elements(t))
    BY <1>1, <1>3, <1>5, <1>7, <1>8 DEF Rises, Below, Elements
  <1> QED BY <1>1, <1>6, <1>8 DEF t

LEMMA EmptyFacts ==
  /\ \A S : <<>> \in Seq(S)
  /\ Len(<<>>) = 0 /\ Elements(<<>>) = {} /\ DOMAIN <<>> = {} /\ Rises(<<>>)
  BY DEF Elements, Rises

LEMMA Bounds ==
  /\ Sentences \in Nat /\ Sent \in SUBSET Nat /\ Sent = 1..Sentences /\ 0 \notin Sent
  BY SpeechAssumption DEF Sent

LEMMA PickIndex ==
  ASSUME NEW a \in Nat, NEW b \in Nat, NEW c \in Nat, a = b
  PROVE  a - (b - c) + 1 = c + 1 /\ (a <= b - c => 1 = c + 1)
  OBVIOUS

-----------------------------------------------------------------------------
(* The inductive invariant. *)

\* The sentences the player is through with, or is about to give to aplay.
Spent == Elements(played) \cup (IF player = "play" THEN {wav} ELSE {})

\* The lines of the log the player will not look at again.
Passed == IF player \in {"play", "remove"} THEN n + 1 ELSE n

TypesOK ==
  /\ sent \in 0..Sentences /\ files \subseteq Sent
  /\ log \in Seq(Sent) /\ taken \in Seq(Sent) /\ tts_in \in Seq(Sent) /\ played \in Seq(Sent)
  /\ runner \in {"loading", "reading", "synth", "written", "dead"}
  /\ runner \in {"synth", "written"} => taken # <<>>
  /\ player \in {"count", "pick", "play", "remove", "dead"}
  /\ n \in 0..Sentences /\ now \in 0..Sentences /\ wav \in {0} \cup Sent
  /\ raced \in BOOLEAN
  /\ player \in {"pick", "play", "remove"} => n < now
  /\ player = "play" => wav \in Sent

\* The sentences on their way stand in the order they were sent.
Queues ==
  /\ Rises(log) /\ Rises(taken) /\ Rises(tts_in)
  /\ Below(Elements(log), Elements(taken) \cup Elements(tts_in))
  /\ Below(Elements(taken), Elements(tts_in))
  /\ \A x \in Elements(log) \cup Elements(taken) \cup Elements(tts_in) \cup Spent : x <= sent
  /\ Len(log) + Len(taken) + Len(tts_in) <= sent

\* What was played is behind the player: a file of it that is still there, because
\* the player died before rm, stands in no line that can be picked.
Behind ==
  /\ Below(Spent, Elements(taken) \cup Elements(tts_in))
  /\ player = "pick" /\ now > Len(log) => Spent \cap Elements(log) = {}
  /\ player = "play" => wav \notin Elements(played)
  /\ player # "dead" =>
       \A x \in Elements(played) \cap files :
         \/ player = "remove" /\ wav = x
         \/ \A i \in DOMAIN log : log[i] = x => i <= n

\* While nothing came between the two greps, the lines to come are of later sentences.
InTurn ==
  ~raced =>
    /\ player = "pick" => now = Len(log)
    /\ player = "play" => Below(Elements(played), {wav})
    /\ player # "dead" => \A x \in Spent, i \in DOMAIN log : i > Passed => x < log[i]
    /\ Rises(played)

SpeechInv == TypesOK /\ Queues /\ Behind /\ InTurn /\ PlayedOnce

LEMMA SpeechInitInv == SpeechInit => SpeechInv
  <1> SUFFICES ASSUME SpeechInit PROVE SpeechInv
    OBVIOUS
  <1>1. TypesOK
    <2>1. 0 \in 0..Sentences /\ Sentences \in Nat
      BY Bounds
    <2> QED BY <2>1, EmptyFacts DEF SpeechInit, TypesOK
  <1>2. Queues /\ Behind /\ InTurn /\ PlayedOnce
    BY EmptyFacts DEF SpeechInit, Queues, Behind, InTurn, PlayedOnce, Spent, Below
  <1> QED BY <1>1, <1>2 DEF SpeechInv

-----------------------------------------------------------------------------
(* One lemma per action, or for a few that are alike. *)

\* llmd says one more sentence.
LEMMA DispatchInv == ASSUME SpeechInv, Dispatch PROVE SpeechInv'
  <1> USE DEF SpeechInv
  <1>0. /\ sent \in Nat /\ sent' = sent + 1 /\ sent' \in Sent
        /\ tts_in' \in Seq(Sent) /\ Len(tts_in') = Len(tts_in) + 1 /\ Len(tts_in) \in Nat
        /\ Elements(tts_in') = Elements(tts_in) \cup {sent'} /\ Rises(tts_in')
        /\ UNCHANGED <<taken, runner, log, files, player, n, now, wav, played, raced>>
    <2>1. sent \in Nat /\ sent' = sent + 1 /\ sent' \in Sent /\ tts_in' = Append(tts_in, sent')
      BY Bounds DEF Dispatch, TypesOK
    <2>2. Rises(tts_in) /\ Below(Elements(tts_in), {sent'})
      <3>1. \A x \in Elements(tts_in) : x \in Sent
        BY DEF TypesOK, Elements
      <3> QED BY <2>1, <3>1, Bounds DEF Queues, Below
    <2>3. UNCHANGED <<taken, runner, log, files, player, n, now, wav, played, raced>>
      BY DEF Dispatch, tts, voice
    <2> QED BY <2>1, <2>2, <2>3, AppendFacts, Bounds DEF TypesOK
  <1>00. Elements(log) \cup Elements(taken) \cup Elements(tts_in) \cup Spent \subseteq Nat
    BY Bounds, SMTT(40) DEF TypesOK, Elements, Spent
  <1>1. TypesOK'
    BY <1>0, <1>00, Bounds DEF TypesOK
  <1>2. Queues'
    BY <1>0, <1>00, LenProperties, SMTT(40) DEF Queues, Spent, Below, TypesOK
  <1>3. Behind'
    <2>1. \A x \in Spent : x < sent'
      BY <1>0, <1>00 DEF Queues
    <2> QED BY <1>0, <2>1 DEF Behind, Spent, Below
  <1>4. InTurn'
    BY <1>0, <1>00, Bounds DEF InTurn, Spent, Passed, Below
  <1>5. PlayedOnce'
    BY <1>0, <1>00, Bounds DEF PlayedOnce
  <1> QED BY <1>1, <1>2, <1>3, <1>4, <1>5

\* The runner is loaded.
LEMMA ReadyInv == ASSUME SpeechInv, Ready PROVE SpeechInv'
  <1> USE DEF SpeechInv
  <1>1. TypesOK'
    BY Bounds DEF TypesOK, queue, tts, voice, Ready
  <1>2. Queues'
    BY Bounds DEF Queues, Spent, TypesOK, queue, tts, voice, Ready
  <1>3. Behind'
    BY Bounds DEF Behind, Spent, Below, queue, tts, voice, Ready
  <1>4. InTurn'
    BY Bounds DEF InTurn, Spent, Passed, Below, queue, tts, voice, Ready
  <1>5. PlayedOnce'
    BY Bounds DEF PlayedOnce, queue, tts, voice, Ready
  <1> QED BY <1>1, <1>2, <1>3, <1>4, <1>5

\* The runner begins a sentence.
LEMMA BeginInv == ASSUME SpeechInv, Begin PROVE SpeechInv'
  <1> USE DEF SpeechInv
  <1>1. TypesOK'
    BY Bounds DEF TypesOK, queue, tts, voice, Begin
  <1>2. Queues'
    BY Bounds DEF Queues, Spent, TypesOK, queue, tts, voice, Begin
  <1>3. Behind'
    BY Bounds DEF Behind, Spent, Below, queue, tts, voice, Begin
  <1>4. InTurn'
    BY Bounds DEF InTurn, Spent, Passed, Below, queue, tts, voice, Begin
  <1>5. PlayedOnce'
    BY Bounds DEF PlayedOnce, queue, tts, voice, Begin
  <1> QED BY <1>1, <1>2, <1>3, <1>4, <1>5

\* The runner reads all there is.
LEMMA FillInv == ASSUME SpeechInv, Fill PROVE SpeechInv'
  <1> USE DEF SpeechInv
  <1>1. TypesOK'
    BY EmptyFacts, Bounds DEF TypesOK, queue, tts, voice, Fill
  <1>2. Queues'
    BY EmptyFacts, LenProperties DEF Queues, Below, Spent, TypesOK, queue, voice, Fill
  <1>3. Behind'
    BY EmptyFacts, Bounds DEF Behind, Spent, Below, queue, tts, voice, Fill
  <1>4. InTurn'
    BY EmptyFacts, Bounds DEF InTurn, Spent, Passed, Below, queue, tts, voice, Fill
  <1>5. PlayedOnce'
    BY EmptyFacts, Bounds DEF PlayedOnce, queue, tts, voice, Fill
  <1> QED BY <1>1, <1>2, <1>3, <1>4, <1>5

\* A sentence without sound.
LEMMA SkipTextInv == ASSUME SpeechInv, SkipText PROVE SpeechInv'
  <1> USE DEF SpeechInv
  <1> DEFINE h == Head(taken)
  <1>0. /\ h \in Sent /\ taken' \in Seq(Sent) /\ Len(taken') = Len(taken) - 1 /\ Len(taken) \in Nat
        /\ Elements(taken) = Elements(taken') \cup {h} /\ Rises(taken') /\ Below({h}, Elements(taken'))
    BY TailFacts, Bounds DEF SkipText, TypesOK, Queues
  <1> HIDE DEF h
  <1>1. TypesOK'
    BY <1>0, Bounds DEF TypesOK, queue, tts, voice, SkipText
  <1>2. Queues'
    BY <1>0, LenProperties, Bounds DEF Queues, Spent, Below, TypesOK, queue, voice, SkipText
  <1>3. Behind'
    BY <1>0, Bounds DEF Behind, Spent, Below, queue, tts, voice, SkipText
  <1>4. InTurn'
    BY <1>0, Bounds DEF InTurn, Spent, Passed, Below, queue, tts, voice, SkipText
  <1>5. PlayedOnce'
    BY <1>0, Bounds DEF PlayedOnce, queue, tts, voice, SkipText
  <1> QED BY <1>1, <1>2, <1>3, <1>4, <1>5

\* The runner writes a file.
LEMMA WriteWaveInv == ASSUME SpeechInv, WriteWave PROVE SpeechInv'
  <1> USE DEF SpeechInv
  <1>0. Head(taken) \in Sent /\ Head(taken) \in Elements(taken) /\ Head(taken) \notin Elements(played)
    <2>1. Head(taken) \in Sent /\ Head(taken) \in Elements(taken)
      BY TailFacts, Bounds DEF TypesOK, WriteWave
    <2> QED BY <2>1, Bounds DEF Behind, Below, Spent
  <1>1. TypesOK'
    BY <1>0, Bounds DEF TypesOK, queue, tts, voice, WriteWave
  <1>2. Queues'
    BY <1>0, Bounds DEF Queues, Spent, TypesOK, queue, tts, voice, WriteWave
  <1>3. Behind'
    BY <1>0, Bounds DEF Behind, Spent, Below, queue, tts, voice, WriteWave
  <1>4. InTurn'
    BY <1>0, Bounds DEF InTurn, Spent, Passed, Below, queue, tts, voice, WriteWave
  <1>5. PlayedOnce'
    BY <1>0, Bounds DEF PlayedOnce, queue, tts, voice, WriteWave
  <1> QED BY <1>1, <1>2, <1>3, <1>4, <1>5

\* The runner logs DONE.
LEMMA PrintDoneInv == ASSUME SpeechInv, PrintDone PROVE SpeechInv'
  <1> USE DEF SpeechInv
  <1> DEFINE h == Head(taken)
  <1>0. /\ h \in Sent /\ taken' \in Seq(Sent) /\ Len(taken') = Len(taken) - 1 /\ Len(taken) \in Nat
        /\ Elements(taken) = Elements(taken') \cup {h} /\ Rises(taken') /\ Below({h}, Elements(taken'))
    BY TailFacts, Bounds DEF PrintDone, TypesOK, Queues
  <1> HIDE DEF h
  <1>1a. /\ log' \in Seq(Sent) /\ Len(log') = Len(log) + 1 /\ Len(log) \in Nat
         /\ Elements(log') = Elements(log) \cup {h} /\ Rises(log')
         /\ \A i \in DOMAIN log' : (i \in DOMAIN log /\ log'[i] = log[i]) \/ (i = Len(log) + 1 /\ log'[i] = h)
    <2>1. log' = Append(log, h) /\ Rises(log) /\ Below(Elements(log), {h}) /\ log \in Seq(Sent)
      BY <1>0 DEF PrintDone, Queues, Below, TypesOK, h
    <2>2. /\ Append(log, h) \in Seq(Sent) /\ Len(Append(log, h)) = Len(log) + 1 /\ Len(log) \in Nat
          /\ Elements(Append(log, h)) = Elements(log) \cup {h}
      BY <2>1, <1>0, AppendFacts
    <2>3. Rises(Append(log, h))
      BY <2>1, <1>0, AppendFacts
    <2>4. \A i \in DOMAIN Append(log, h) :
            \/ i \in DOMAIN log /\ Append(log, h)[i] = log[i]
            \/ i = Len(log) + 1 /\ Append(log, h)[i] = h
      BY <2>1, <1>0, AppendFacts
    <2>5. /\ log' \in Seq(Sent) /\ Len(log') = Len(log) + 1 /\ Len(log) \in Nat
          /\ Elements(log') = Elements(log) \cup {h} /\ Rises(log')
      BY <2>1, <2>2, <2>3
    <2>6. \A i \in DOMAIN log' :
            \/ i \in DOMAIN log /\ log'[i] = log[i]
            \/ i = Len(log) + 1 /\ log'[i] = h
      BY <2>1, <2>4, Zenon
    <2> QED BY <2>5, <2>6, Zenon
  <1>2a. /\ UNCHANGED <<sent, tts_in, files, player, n, now, wav, played>>
         /\ runner' = "reading" /\ raced' \in BOOLEAN /\ (~raced' => ~raced /\ player # "pick")
    <2>1. UNCHANGED <<sent, tts_in, files, player, n, now, wav, played>> /\ runner' = "reading"
      BY DEF PrintDone, queue, voice
    <2>2. raced' = (raced \/ player = "pick")
      BY DEF PrintDone
    <2>3. raced' \in BOOLEAN /\ (~raced' => ~raced /\ player # "pick")
      BY <2>2, Zenon
    <2> QED BY <2>1, <2>3
  <1>3a. \A x \in Spent : x < h
    BY <1>0 DEF Behind, Below
  <1>1. TypesOK'
    BY <1>0, <1>1a, <1>2a, <1>3a, Bounds DEF TypesOK
  <1>2. Queues'
    <2>1. Spent' = Spent
      BY <1>2a DEF Spent
    <2>2. Below(Elements(log'), Elements(taken') \cup Elements(tts_in))
      BY <1>0, <1>1a DEF Queues, Below
    <2>3. Below(Elements(taken'), Elements(tts_in))
      BY <1>0 DEF Queues, Below
    <2>4. \A x \in Elements(log') \cup Elements(taken') \cup Elements(tts_in) \cup Spent : x <= sent
      BY <1>0, <1>1a DEF Queues
    <2>5. Len(log') + Len(taken') + Len(tts_in) = Len(log) + Len(taken) + Len(tts_in)
      BY <1>0, <1>1a, LenProperties DEF TypesOK
    <2> QED BY <1>0, <1>1a, <1>2a, <2>1, <2>2, <2>3, <2>4, <2>5 DEF Queues
  <1>3. Behind'
    <2>1. Below(Spent', (Elements(taken) \cup Elements(tts_in))')
      BY <1>0, <1>2a DEF Behind, Spent, Below
    <2>2. (player = "pick" /\ now > Len(log) => Spent \cap Elements(log) = {})'
      BY <1>0, <1>1a, <1>2a, <1>3a, Bounds, SMTT(40) DEF Behind, Spent, TypesOK
    <2>3. ASSUME player # "dead", NEW x \in Elements(played) \cap files, ~(player = "remove" /\ wav = x),
                 NEW i \in DOMAIN log', log'[i] = x
          PROVE  i <= n
      <3>1. x # h
        BY <1>3a, <1>0, Bounds DEF Spent
      <3> QED BY <1>1a, <2>3, <3>1 DEF Behind
    <2> QED BY <1>2a, <2>1, <2>2, <2>3 DEF Behind
  <1>4. InTurn'
    BY <1>0, <1>1a, <1>2a, <1>3a, Bounds, SMTT(40) DEF InTurn, Spent, Passed, Below
  <1>5. PlayedOnce'
    BY <1>0, <1>1a, <1>2a, <1>3a, Bounds DEF PlayedOnce
  <1> QED BY <1>1, <1>2, <1>3, <1>4, <1>5

\* The runner dies with what it has read.
LEMMA TtsDiesInv == ASSUME SpeechInv, TtsDies PROVE SpeechInv'
  <1> USE DEF SpeechInv
  <1>1. TypesOK'
    BY EmptyFacts, Bounds DEF TypesOK, queue, tts, voice, TtsDies
  <1>2. Queues'
    BY EmptyFacts, LenProperties DEF Queues, Spent, Below, TypesOK, queue, voice, TtsDies
  <1>3. Behind'
    BY EmptyFacts, Bounds DEF Behind, Spent, Below, queue, tts, voice, TtsDies
  <1>4. InTurn'
    BY EmptyFacts, Bounds DEF InTurn, Spent, Passed, Below, queue, tts, voice, TtsDies
  <1>5. PlayedOnce'
    BY EmptyFacts, Bounds DEF PlayedOnce, queue, tts, voice, TtsDies
  <1> QED BY <1>1, <1>2, <1>3, <1>4, <1>5

\* chatd starts the runner again, with an empty log.
LEMMA RespawnInv == ASSUME SpeechInv, Respawn PROVE SpeechInv'
  <1> USE DEF SpeechInv
  <1>0. /\ log' = <<>> /\ runner' = "loading" /\ UNCHANGED <<sent, tts_in, taken, files, player, n, now, wav, played>>
        /\ raced' \in BOOLEAN /\ (~raced' => ~raced /\ player # "pick")
    <2>1. /\ log' = <<>> /\ runner' = "loading" /\ UNCHANGED <<sent, tts_in, taken, files, player, n, now, wav, played>>
      BY DEF Respawn, queue, voice
    <2>2. raced' = (raced \/ player = "pick")
      BY DEF Respawn
    <2>3. raced' \in BOOLEAN /\ (~raced' => ~raced /\ player # "pick")
      BY <2>2, Zenon
    <2> QED BY <2>1, <2>3
  <1>1. TypesOK'
    BY <1>0, EmptyFacts, Bounds DEF TypesOK
  <1>2. Queues'
    BY <1>0, EmptyFacts, LenProperties DEF Queues, Spent, Below, TypesOK
  <1>3. Behind'
    BY <1>0, EmptyFacts, Bounds DEF Behind, Spent, Below
  <1>4. InTurn'
    BY <1>0, EmptyFacts, Bounds DEF InTurn, Spent, Passed, Below
  <1>5. PlayedOnce'
    BY <1>0, EmptyFacts, Bounds DEF PlayedOnce
  <1> QED BY <1>1, <1>2, <1>3, <1>4, <1>5

\* The player counts.
LEMMA CountInv == ASSUME SpeechInv, Count PROVE SpeechInv'
  <1> USE DEF SpeechInv
  <1>0. /\ UNCHANGED <<sent, tts_in, taken, runner, log, files, wav, played, raced>>
        /\ player = "count" /\ now' = Len(log) /\ Len(log) \in 0..Sentences
        /\ \/ Len(log) > n /\ player' = "pick" /\ n' = n
           \/ Len(log) <= n /\ player' = "count" /\ n' = Len(log)
        /\ DOMAIN log = 1..Len(log)
    BY LenProperties, Bounds DEF Count, queue, tts, TypesOK, Queues
  <1>1. TypesOK'
    BY <1>0, Bounds DEF TypesOK
  <1>2. Queues'
    BY <1>0, Bounds DEF Queues, Spent, TypesOK
  <1>3. Behind'
    BY <1>0, Bounds DEF Behind, Spent, Below
  <1>4. InTurn'
    BY <1>0, Bounds DEF InTurn, Spent, Passed, Below
  <1>5. PlayedOnce'
    BY <1>0, Bounds DEF PlayedOnce
  <1> QED BY <1>1, <1>2, <1>3, <1>4, <1>5

\* The player picks the oldest new line; its file may be gone.
LEMMA PickWavInv == ASSUME SpeechInv, PickWav PROVE SpeechInv'
  <1> USE DEF SpeechInv
  <1>0. /\ UNCHANGED <<sent, tts_in, taken, runner, log, files, now, played, raced>>
        /\ player = "pick" /\ wav' = Picked /\ n \in 0..Sentences /\ now \in 0..Sentences /\ n < now
        /\ \/ Picked \in files /\ player' = "play" /\ n' = n
           \/ Picked \notin files /\ player' = "count" /\ n' = n + 1
    BY Bounds DEF PickWav, queue, tts, TypesOK
  <1>00. \/ Picked = 0 /\ log = <<>>
         \/ \E k \in DOMAIN log : /\ Picked = log[k]
                                  /\ now <= Len(log) => k > n
                                  /\ now = Len(log) => k = n + 1
    <2>1. /\ Len(log) \in Nat /\ DOMAIN log = 1..Len(log) /\ n \in Nat /\ now \in Nat /\ n < now
          /\ now - n \in Nat /\ now - n # 0 /\ (log # <<>> => Len(log) # 0)
      BY <1>0, LenProperties, EmptySeq, Bounds DEF TypesOK
    <2>2. CASE log = <<>>
      BY <2>2 DEF Picked
    <2>3. CASE log # <<>> /\ Len(log) <= now - n
      <3>2. Picked = log[1]
        BY <2>1, <2>3 DEF Picked
      <3>3. 1 \in DOMAIN log /\ (now <= Len(log) => 1 > n) /\ (now = Len(log) => 1 = n + 1)
        <4>1. 1 \in DOMAIN log
          BY <2>1, <2>3
        <4>2. now <= Len(log) => 1 > n
          BY <2>1, <2>3
        <4>3. now = Len(log) => 1 = n + 1
          BY <2>1, <2>3, PickIndex, ZenonT(60)
        <4> QED BY <4>1, <4>2, <4>3
      <3> QED BY <3>2, <3>3
    <2>4. CASE log # <<>> /\ Len(log) > now - n
      <3> DEFINE spot == Len(log) - (now - n) + 1
      <3>2. Picked = log[spot]
        BY <2>1, <2>4 DEF Picked
      <3>3. spot \in DOMAIN log /\ (now <= Len(log) => spot > n) /\ (now = Len(log) => spot = n + 1)
        <4>1. spot \in 1..Len(log)
          BY <2>1, <2>4
        <4>2. now <= Len(log) => spot > n
          BY <2>1, <2>4
        <4>3. now = Len(log) => spot = n + 1
          BY <2>1, PickIndex, Zenon
        <4> QED BY <2>1, <4>1, <4>2, <4>3
      <3> QED BY <3>2, <3>3
    <2>5. log = <<>> \/ Len(log) <= now - n \/ Len(log) > now - n
      BY <2>1
    <2> QED BY <2>2, <2>3, <2>4, <2>5, Zenon
  <1>000. /\ Picked \in Elements(log) \/ (Picked = 0 /\ log = <<>>)
          /\ Picked \in {0} \cup Sent /\ (Picked \in files => Picked \in Elements(log))
    BY <1>00, Bounds DEF Elements, TypesOK
  <1>a. Picked \in files => Picked \notin Elements(played)
    <2>1. SUFFICES ASSUME Picked \in files, Picked \in Elements(played) PROVE FALSE
      OBVIOUS
    <2>2. PICK k \in DOMAIN log : Picked = log[k] /\ (now <= Len(log) => k > n)
      BY <1>00, <1>000, <2>1, EmptyFacts
    <2>3. CASE now > Len(log)
      BY <2>1, <2>3, <1>0, <1>000 DEF Behind, Spent
    <2>4. CASE now <= Len(log)
      <3>1. k > n /\ k <= n
        BY <2>1, <2>2, <2>4, <1>0 DEF Behind
      <3>2. k \in Nat
        BY LenProperties DEF TypesOK
      <3> QED BY <3>1, <3>2, <1>0, Bounds
    <2> QED BY <2>3, <2>4, <1>0, LenProperties, Bounds DEF TypesOK
  <1>1. TypesOK'
    BY <1>0, <1>000, <1>a, Bounds, SMTT(40) DEF TypesOK
  <1>2. Queues'
    <2>1. Spent' \subseteq Spent \cup Elements(log)
      BY <1>0, <1>000 DEF Spent
    <2> QED BY <1>0, <2>1 DEF Queues
  <1>3. Behind'
    <2>1. Below(Spent', Elements(taken) \cup Elements(tts_in))
      <3>1. Spent' \subseteq Spent \cup Elements(log)
        BY <1>0, <1>000 DEF Spent
      <3>2. Below(Elements(log), Elements(taken) \cup Elements(tts_in)) /\ Below(Spent, Elements(taken) \cup Elements(tts_in))
        BY DEF Queues, Behind
      <3> QED BY <3>1, <3>2 DEF Below
    <2>2. n' \in Nat /\ n <= n' /\ n \in Nat /\ player' # "pick"
      BY <1>0, Bounds
    <2>3. \A x \in Elements(played) \cap files : \A i \in DOMAIN log : log[i] = x => i <= n
      BY <1>0 DEF Behind
    <2>4. \A i \in DOMAIN log : i \in Nat
      BY LenProperties DEF TypesOK
    <2>5. \A x \in Elements(played) \cap files : \A i \in DOMAIN log : log[i] = x => i <= n'
      BY <2>2, <2>3, <2>4
    <2>6. player' = "play" => wav' \notin Elements(played)
      BY <1>0, <1>a
    <2> QED BY <1>0, <2>1, <2>2, <2>5, <2>6 DEF Behind
  <1>4. InTurn'
    <2>1. SUFFICES ASSUME ~raced PROVE InTurn'
      BY <1>0 DEF InTurn
    <2>2. now = Len(log) /\ Rises(played) /\ \A x \in Elements(played), i \in DOMAIN log : i > n => x < log[i]
      BY <2>1, <1>0 DEF InTurn, Spent, Passed
    <2>3. \A i \in DOMAIN log : i \in Nat /\ (i > n + 1 => i > n)
      BY <1>0, LenProperties, Bounds, SMTT(40) DEF TypesOK
    <2>4. CASE Picked \in files
      <3>1. PICK k \in DOMAIN log : Picked = log[k] /\ k = n + 1
        BY <1>00, <1>000, <2>2, <2>4, EmptyFacts
      <3>2. \A x \in Elements(played) : x < Picked
        BY <2>2, <3>1, <1>0, Bounds
      <3>3. \A i \in DOMAIN log : i > n + 1 => Picked < log[i]
        BY <3>1 DEF Queues, Rises
      <3>4. Spent' = Elements(played) \cup {Picked} /\ Passed' = n + 1
        BY <2>4, <1>0 DEF Spent, Passed
      <3> QED BY <2>2, <2>3, <2>4, <3>2, <3>3, <3>4, <1>0 DEF InTurn, Below
    <2>5. CASE Picked \notin files
      <3>1. Spent' = Elements(played) /\ Passed' = n + 1
        BY <2>5, <1>0 DEF Spent, Passed
      <3> QED BY <2>2, <2>3, <2>5, <3>1, <1>0 DEF InTurn
    <2> QED BY <2>4, <2>5
  <1>5. PlayedOnce'
    BY <1>0, <1>000, <1>a, Bounds DEF PlayedOnce
  <1> QED BY <1>1, <1>2, <1>3, <1>4, <1>5

\* aplay.
LEMMA PlayInv == ASSUME SpeechInv, Play PROVE SpeechInv'
  <1> USE DEF SpeechInv
  <1>0. /\ UNCHANGED <<sent, tts_in, taken, runner, log, files, n, now, wav, raced>>
        /\ player = "play" /\ player' = "remove" /\ wav \in Sent /\ wav \notin Elements(played)
    BY DEF Play, queue, tts, TypesOK, Behind
  <1>00. /\ played' \in Seq(Sent) /\ Elements(played') = Elements(played) \cup {wav}
         /\ DOMAIN played = 1..Len(played) /\ DOMAIN played' = 1..(Len(played) + 1) /\ Len(played) \in Nat
         /\ \A i \in DOMAIN played' : (i \in DOMAIN played /\ played'[i] = played[i]) \/ (i = Len(played) + 1 /\ played'[i] = wav)
         /\ Rises(played) /\ Below(Elements(played), {wav}) => Rises(played')
    <2>1. played' = Append(played, wav) /\ played \in Seq(Sent)
      BY DEF Play, TypesOK
    <2>2. /\ Append(played, wav) \in Seq(Sent) /\ Elements(Append(played, wav)) = Elements(played) \cup {wav}
          /\ DOMAIN played = 1..Len(played) /\ DOMAIN Append(played, wav) = 1..(Len(played) + 1)
          /\ Len(played) \in Nat
      BY <2>1, <1>0, AppendFacts
    <2>3. Rises(played) /\ Below(Elements(played), {wav}) => Rises(Append(played, wav))
      BY <2>1, <1>0, AppendFacts
    <2>4. \A i \in DOMAIN Append(played, wav) :
            \/ i \in DOMAIN played /\ Append(played, wav)[i] = played[i]
            \/ i = Len(played) + 1 /\ Append(played, wav)[i] = wav
      BY <2>1, <1>0, AppendFacts
    <2> QED BY <2>1, <2>2, <2>3, <2>4, Zenon
  <1>000. Spent' = Spent
    BY <1>0, <1>00 DEF Spent
  <1>1. TypesOK'
    BY <1>0, <1>00, <1>000, Bounds DEF TypesOK
  <1>2. Queues'
    BY <1>0, <1>000 DEF Queues
  <1>3. Behind'
    BY <1>0, <1>00, <1>000 DEF Behind
  <1>4. InTurn'
    BY <1>0, <1>00, <1>000 DEF InTurn, Passed
  <1>5. PlayedOnce'
    <2>1. \A i \in DOMAIN played : played[i] # wav
      BY <1>0 DEF Elements
    <2> QED BY <1>0, <1>00, <2>1 DEF PlayedOnce
  <1> QED BY <1>1, <1>2, <1>3, <1>4, <1>5

\* rm.
LEMMA RemoveWavInv == ASSUME SpeechInv, RemoveWav PROVE SpeechInv'
  <1> USE DEF SpeechInv
  <1>1. TypesOK'
    BY Bounds DEF TypesOK, queue, tts, voice, RemoveWav
  <1>2. Queues'
    <2>1. Spent' = Spent /\ UNCHANGED <<sent, tts_in, taken, log>>
      BY DEF Spent, RemoveWav, queue, tts
    <2> QED BY <2>1 DEF Queues
  <1>3. Behind'
    <2>1. /\ Spent' = Spent /\ UNCHANGED <<sent, tts_in, taken, log, now, wav, played>>
          /\ files' = files \ {wav} /\ player = "remove" /\ player' = "count" /\ n' = n + 1 /\ n \in Nat
      BY Bounds DEF Spent, RemoveWav, queue, tts, TypesOK
    <2>2. \A i \in DOMAIN log : i \in Nat
      BY LenProperties DEF TypesOK
    <2>3. \A x \in Elements(played) \cap files' : \A i \in DOMAIN log : log[i] = x => i <= n'
      BY <2>1, <2>2 DEF Behind
    <2> QED BY <2>1, <2>3 DEF Behind
  <1>4. InTurn'
    BY Bounds DEF InTurn, Spent, Passed, Below, queue, tts, voice, RemoveWav
  <1>5. PlayedOnce'
    BY Bounds DEF PlayedOnce, queue, tts, voice, RemoveWav
  <1> QED BY <1>1, <1>2, <1>3, <1>4, <1>5

\* The player dies.
LEMMA PlayerDiesInv == ASSUME SpeechInv, PlayerDies PROVE SpeechInv'
  <1> USE DEF SpeechInv
  <1>1. TypesOK'
    BY Bounds DEF TypesOK, queue, tts, voice, PlayerDies
  <1>2. Queues'
    BY Bounds DEF Queues, Spent, TypesOK, queue, tts, voice, PlayerDies
  <1>3. Behind'
    BY Bounds DEF Behind, Spent, Below, queue, tts, voice, PlayerDies
  <1>4. InTurn'
    BY Bounds DEF InTurn, Spent, Passed, Below, queue, tts, voice, PlayerDies
  <1>5. PlayedOnce'
    BY Bounds DEF PlayedOnce, queue, tts, voice, PlayerDies
  <1> QED BY <1>1, <1>2, <1>3, <1>4, <1>5

\* chatd starts a new player.
LEMMA PlayerStartsInv == ASSUME SpeechInv, PlayerStarts PROVE SpeechInv'
  <1> USE DEF SpeechInv
  <1>0. /\ UNCHANGED <<sent, tts_in, taken, runner, log, files, now, wav, played, raced>>
        /\ player = "dead" /\ player' = "count" /\ n' = Len(log) /\ Len(log) \in 0..Sentences
        /\ DOMAIN log = 1..Len(log)
    BY LenProperties, Bounds DEF PlayerStarts, queue, tts, TypesOK, Queues
  <1>1. TypesOK'
    BY <1>0, Bounds DEF TypesOK
  <1>2. Queues'
    BY <1>0, Bounds DEF Queues, Spent, TypesOK
  <1>3. Behind'
    BY <1>0, Bounds DEF Behind, Spent, Below
  <1>4. InTurn'
    BY <1>0, Bounds DEF InTurn, Spent, Passed, Below
  <1>5. PlayedOnce'
    BY <1>0, Bounds DEF PlayedOnce
  <1> QED BY <1>1, <1>2, <1>3, <1>4, <1>5

LEMMA SpeechNextInv == SpeechInv /\ [SpeechNext]_speechVars => SpeechInv'
  <1> SUFFICES ASSUME SpeechInv, [SpeechNext]_speechVars PROVE SpeechInv'
    OBVIOUS
  <1>1. CASE Runner
    BY <1>1, ReadyInv, FillInv, BeginInv, SkipTextInv, WriteWaveInv, PrintDoneInv, RespawnInv DEF Runner
  <1>2. CASE Player
    BY <1>2, CountInv, PickWavInv, PlayInv, RemoveWavInv, PlayerStartsInv DEF Player
  <1>3. CASE Dispatch \/ TtsDies \/ PlayerDies
    BY <1>3, DispatchInv, TtsDiesInv, PlayerDiesInv
  <1>4. CASE UNCHANGED speechVars
    BY <1>4 DEF speechVars, queue, tts, voice, SpeechInv, TypesOK, Queues, Behind, InTurn,
               PlayedOnce, Spent, Passed
  <1> QED BY <1>1, <1>2, <1>3, <1>4 DEF SpeechNext

-----------------------------------------------------------------------------
(* The theorems. *)

\* The inductive invariant: the order of all queues, and what the player is
\* through with (kpu_vits_runner.cc and player.sh by way of tts_out.log).
THEOREM SpeechInvHolds == SpeechSpec => []SpeechInv
  BY SpeechInitInv, SpeechNextInv, PTL DEF SpeechSpec

\* No sentence is heard twice, whoever dies, and they are heard in their order
\* unless a line came between the two greps (player.sh:11-17).
THEOREM AlwaysPlayedAsSaid == SpeechSpec => []PlayedAsSaid
  <1>1. SpeechInv => PlayedAsSaid
    <2> SUFFICES ASSUME SpeechInv PROVE PlayedAsSaid
      OBVIOUS
    <2>1. Cardinality(Sent) = Sentences
      BY FS_Interval, Bounds
    <2>2. Elements(tts_in) \cup Elements(taken) \cup Elements(log) \cup files \subseteq Sent
      BY DEF SpeechInv, TypesOK, Elements
    <2>3. SpeechTypeOK
      BY <2>1, <2>2, Bounds DEF SpeechTypeOK, SpeechInv, TypesOK
    <2>4. PlayedInOrder
      BY DEF PlayedInOrder, SpeechInv, InTurn, Rises
    <2> QED BY <2>3, <2>4 DEF PlayedAsSaid, SpeechInv
  <1> QED BY <1>1, SpeechInvHolds, PTL

-----------------------------------------------------------------------------
(* The lines of a text: Pieces is the function its recursion describes.      *)

Texts == Seq(STRING)

\* What begins as x does has x as a prefix.
LEMMA PrefixIs ==
  ASSUME NEW S, NEW x \in Seq(S), NEW y \in Seq(S), Len(x) <= Len(y),
         \A i \in 1..Len(x) : x[i] = y[i]
  PROVE  IsPrefix(x, y)
  <1> DEFINE l == Len(x)
             u == SubSeq(y, 1, l)
  <1>1. l \in Nat /\ 1 \in Nat /\ 1 <= 1 /\ 1 <= l + 1 /\ l <= Len(y) /\ l - 1 + 1 = l
    OBVIOUS
  <1>2. u \in Seq(S) /\ Len(u) = l /\ \A k \in 1..l : u[k] = y[k]
    <2> HIDE DEF l
    <2>1. u \in Seq(S) /\ Len(u) = l - 1 + 1 /\ \A k \in 1..(l - 1 + 1) : u[k] = y[1 + k - 1]
      BY <1>1, PartFacts, ZenonT(60)
    <2>2. \A k \in 1..l : 1 + k - 1 = k
      BY <1>1
    <2> HIDE DEF u
    <2> QED BY <1>1, <2>1, <2>2
  <1>3. SubSeq(x, 1, l) = x
    OBVIOUS
  <1> HIDE DEF u
  <1>4. u = x
    BY <1>2, SeqEqual
  <1> QED BY <1>1, <1>3, <1>4 DEF IsPrefix, u

LEMMA EndFacts ==
  ASSUME NEW t \in Texts, NEW p \in 1..Len(t)
  PROVE  /\ LineEnd(t, p) \in p..Len(t)
         /\ \A i \in p..(LineEnd(t, p) - 1) : t[i] # "mark"
         /\ LineEnd(t, p) < Len(t) => t[LineEnd(t, p)] = "mark"
  <1> DEFINE ends == {q \in p..Len(t) : t[q] = "mark"}
  <1>0. Len(t) \in Nat
    BY DEF Texts
  <1>1. CASE ends = {}
    <2>1. LineEnd(t, p) = Len(t)
      BY <1>1 DEF LineEnd
    <2> QED BY <1>0, <1>1, <2>1
  <1>2. CASE ends # {}
    <2>1. ends \subseteq Nat
      BY <1>0
    <2>2. \E q \in ends : \A r \in ends : q <= r
      BY <1>2, <2>1, LeastNat
    <2>3. LineEnd(t, p) = CHOOSE q \in ends : \A r \in ends : q <= r
      BY <1>2 DEF LineEnd
    <2>4. LineEnd(t, p) \in ends /\ \A r \in ends : LineEnd(t, p) <= r
      BY <2>2, <2>3, Zenon
    <2>5. LineEnd(t, p) \in p..Len(t) /\ t[LineEnd(t, p)] = "mark"
      BY <2>4
    <2>6. \A i \in p..(LineEnd(t, p) - 1) : t[i] # "mark"
      BY <1>0, <2>4, <2>5
    <2> QED BY <2>5, <2>6
  <1> QED BY <1>1, <1>2

\* f is the recursion on the places from l on.
CutsFrom(f, t, l) ==
  f = [p \in l..(Len(t) + 1) |->
         IF p > Len(t) THEN <<>>
         ELSE <<SubSeq(t, p, LineEnd(t, p))>> \o f[LineEnd(t, p) + 1]]

LEMMA CutsExist == ASSUME NEW t \in Texts PROVE \E f : CutsFrom(f, t, 1)
  <1> DEFINE T == {d \in Nat : d <= Len(t) => \E f : CutsFrom(f, t, Len(t) + 1 - d)}
  <1>0. Len(t) \in Nat
    BY DEF Texts
  <1>1. 0 \in T
    <2> DEFINE f == [p \in (Len(t) + 1)..(Len(t) + 1) |-> <<>>]
    <2>1. f = [p \in (Len(t) + 1)..(Len(t) + 1) |->
                IF p > Len(t) THEN <<>>
                ELSE <<SubSeq(t, p, LineEnd(t, p))>> \o f[LineEnd(t, p) + 1]]
      BY <1>0
    <2>2. CutsFrom(f, t, Len(t) + 1 - 0)
      BY <1>0, <2>1 DEF CutsFrom
    <2> QED BY <2>2
  <1>2. ASSUME NEW d \in Nat, d \in T PROVE d + 1 \in T
    <2> SUFFICES ASSUME d + 1 <= Len(t) PROVE \E f : CutsFrom(f, t, Len(t) + 1 - (d + 1))
      BY DEF T
    <2> DEFINE l == Len(t) - d
    <2>0. l \in 1..Len(t) /\ Len(t) + 1 - (d + 1) = l /\ Len(t) + 1 - d = l + 1
      BY <1>0
    <2>1. PICK f : CutsFrom(f, t, l + 1)
      BY <1>0, <1>2, <2>0
    <2> HIDE DEF l
    <2> DEFINE g == [p \in l..(Len(t) + 1) |->
                       IF p = l THEN <<SubSeq(t, p, LineEnd(t, p))>> \o f[LineEnd(t, p) + 1] ELSE f[p]]
    <2>2. \A p \in (l + 1)..(Len(t) + 1) :
            f[p] = IF p > Len(t) THEN <<>>
                   ELSE <<SubSeq(t, p, LineEnd(t, p))>> \o f[LineEnd(t, p) + 1]
      BY <2>1, Zenon DEF CutsFrom
    <2>3. ASSUME NEW p \in l..(Len(t) + 1)
          PROVE  g[p] = IF p > Len(t) THEN <<>>
                        ELSE <<SubSeq(t, p, LineEnd(t, p))>> \o g[LineEnd(t, p) + 1]
      <3>1. CASE p > Len(t)
        <4>1. p \in (l + 1)..(Len(t) + 1) /\ p # l
          BY <1>0, <2>0, <3>1
        <4> QED BY <2>2, <3>1, <4>1
      <3>2. CASE ~(p > Len(t))
        <4>1. p \in 1..Len(t)
          BY <1>0, <2>0, <3>2
        <4>2. LineEnd(t, p) + 1 \in (l + 1)..(Len(t) + 1) /\ LineEnd(t, p) + 1 # l
              /\ LineEnd(t, p) + 1 \in l..(Len(t) + 1)
          BY <1>0, <2>0, <4>1, EndFacts, SMTT(40)
        <4>3. g[LineEnd(t, p) + 1] = f[LineEnd(t, p) + 1]
          BY <4>2
        <4>4. CASE p = l
          BY <3>2, <4>3, <4>4
        <4>5. CASE p # l
          <5>1. p \in (l + 1)..(Len(t) + 1)
            BY <1>0, <2>0, <4>5
          <5> QED BY <2>2, <3>2, <4>3, <4>5, <5>1
        <4> QED BY <4>4, <4>5
      <3> QED BY <3>1, <3>2
    <2>4. g = [p \in l..(Len(t) + 1) |-> g[p]]
      OBVIOUS
    <2> HIDE DEF g
    <2>5. CutsFrom(g, t, l)
      BY <2>3, <2>4, Zenon DEF CutsFrom
    <2> QED BY <2>0, <2>5
  <1>3. Nat \subseteq T
    <2> HIDE DEF T
    <2> QED BY <1>1, <1>2, SetInduction
  <1>4. Len(t) \in T /\ Len(t) + 1 - Len(t) = 1
    BY <1>0, <1>3
  <1> QED BY <1>0, <1>4

\* The lines from the place p on.
PiecesFrom(t) == CHOOSE f : CutsFrom(f, t, 1)

LEMMA PiecesFollow ==
  ASSUME NEW t \in Texts
  PROVE  /\ Pieces(t) = PiecesFrom(t)[1]
         /\ PiecesFrom(t)[Len(t) + 1] = <<>>
         /\ \A p \in 1..Len(t) :
              PiecesFrom(t)[p] = <<SubSeq(t, p, LineEnd(t, p))>> \o PiecesFrom(t)[LineEnd(t, p) + 1]
  <1>1. Pieces(t) = PiecesFrom(t)[1]
    BY Zenon DEF Pieces, PiecesFrom, CutsFrom
  <1>2. CutsFrom(PiecesFrom(t), t, 1)
    BY CutsExist, Zenon DEF PiecesFrom
  <1> DEFINE f == PiecesFrom(t)
  <1>3. \A p \in 1..(Len(t) + 1) :
              f[p] = IF p > Len(t) THEN <<>>
                     ELSE <<SubSeq(t, p, LineEnd(t, p))>> \o f[LineEnd(t, p) + 1]
    BY <1>2, Zenon DEF CutsFrom
  <1> HIDE DEF f
  <1>4. Len(t) \in Nat
    BY DEF Texts
  <1>5. f[Len(t) + 1] = <<>>
    <2>1. Len(t) + 1 \in 1..(Len(t) + 1) /\ Len(t) + 1 > Len(t)
      BY <1>4
    <2> QED BY <1>3, <2>1, Zenon
  <1>6. ASSUME NEW p \in 1..Len(t)
        PROVE  f[p] = <<SubSeq(t, p, LineEnd(t, p))>> \o f[LineEnd(t, p) + 1]
    <2>1. p \in 1..(Len(t) + 1) /\ ~(p > Len(t))
      BY <1>4
    <2> QED BY <1>3, <2>1
  <1> QED BY <1>1, <1>5, <1>6 DEF f

\* The lines are texts.
LEMMA PiecesType ==
  ASSUME NEW t \in Texts
  PROVE  /\ \A p \in 1..(Len(t) + 1) : PiecesFrom(t)[p] \in Seq(Texts)
         /\ Pieces(t) \in Seq(Texts)
  <1> DEFINE f == PiecesFrom(t)
             T == {p \in 1..(Len(t) + 1) : f[p] \in Seq(Texts)}
  <1>0. Len(t) \in Nat
    BY DEF Texts
  <1> HIDE DEF f
  <1>1. ASSUME NEW p \in 1..(Len(t) + 1), \A q \in (p + 1)..(Len(t) + 1) : q \in T PROVE p \in T
    <2>1. CASE p > Len(t)
      <3>1. p = Len(t) + 1 /\ <<>> \in Seq(Texts)
        BY <1>0, <2>1
      <3> QED BY <3>1, PiecesFollow DEF f
    <2>2. CASE ~(p > Len(t))
      <3>1. p \in 1..Len(t)
        BY <1>0, <2>2
      <3>2. LineEnd(t, p) \in p..Len(t)
        BY <3>1, EndFacts
      <3>3. LineEnd(t, p) + 1 \in (p + 1)..(Len(t) + 1)
        BY <1>0, <3>1, <3>2
      <3>4. f[LineEnd(t, p) + 1] \in Seq(Texts)
        BY <1>1, <3>3
      <3>5. SubSeq(t, p, LineEnd(t, p)) \in Texts
        BY <1>0, <3>1, <3>2, SubSeqProperties DEF Texts
      <3>6. f[p] = <<SubSeq(t, p, LineEnd(t, p))>> \o f[LineEnd(t, p) + 1]
        BY <3>1, PiecesFollow DEF f
      <3>7. <<SubSeq(t, p, LineEnd(t, p))>> \in Seq(Texts)
        BY <3>5
      <3> QED BY <3>4, <3>6, <3>7, ConcatProperties
    <2> QED BY <2>1, <2>2
  <1>2. 1..(Len(t) + 1) \subseteq T
    <2> HIDE DEF T
    <2> QED BY <1>0, <1>1, DownInduction
  <1>3. 1 \in 1..(Len(t) + 1)
    BY <1>0
  <1> QED BY <1>2, <1>3, PiecesFollow DEF f

\* u begins as t.
Extends(u, t) == Len(t) <= Len(u) /\ \A i \in 1..Len(t) : u[i] = t[i]

\* The lines of a text that goes on: all but the last stay, the last one grows.
Grown(p, q) ==
  /\ Len(p) <= Len(q)
  /\ \A k \in 1..Len(p) : k < Len(p) => q[k] = p[k]
  /\ Len(p) > 0 => IsPrefix(p[Len(p)], q[Len(p)])

\* One more line in front.
LEMMA GrownCons ==
  ASSUME NEW x \in Texts, NEW p \in Seq(Texts), NEW q \in Seq(Texts), Grown(p, q),
         p # <<>>
  PROVE  Grown(<<x>> \o p, <<x>> \o q)
  <1>1. /\ Len(<<x>> \o p) = Len(p) + 1 /\ Len(<<x>> \o q) = Len(q) + 1
        /\ \A k \in 1..(Len(p) + 1) : (<<x>> \o p)[k] = IF k = 1 THEN x ELSE p[k - 1]
        /\ \A k \in 1..(Len(q) + 1) : (<<x>> \o q)[k] = IF k = 1 THEN x ELSE q[k - 1]
    BY ConcatProperties
  <1>2. Len(p) \in Nat \ {0} /\ Len(q) \in Nat /\ Len(p) <= Len(q)
    BY EmptySeq DEF Grown
  <1> DEFINE a == <<x>> \o p
             b == <<x>> \o q
  <1>3. ASSUME NEW k \in 1..Len(a), k < Len(a) PROVE b[k] = a[k]
    <2>1. k \in 1..(Len(p) + 1) /\ k \in 1..(Len(q) + 1)
          /\ (k # 1 => k - 1 \in 1..Len(p) /\ k - 1 < Len(p))
      BY <1>1, <1>2, <1>3
    <2>2. k # 1 => q[k - 1] = p[k - 1]
      BY <2>1 DEF Grown
    <2> QED BY <1>1, <2>1, <2>2
  <1>4. a[Len(a)] = p[Len(p)] /\ b[Len(a)] = q[Len(p)]
    BY <1>1, <1>2
  <1> QED BY <1>1, <1>2, <1>3, <1>4 DEF Grown

LEMMA PiecesGrow ==
  ASSUME NEW t \in Texts, NEW u \in Texts, Extends(u, t)
  PROVE  Grown(Pieces(t), Pieces(u))
  <1> DEFINE f == PiecesFrom(t)
             g == PiecesFrom(u)
             T == {p \in 1..(Len(t) + 1) : Grown(f[p], g[p])}
  <1>0. Len(t) \in Nat /\ Len(u) \in Nat /\ Len(t) <= Len(u)
    BY DEF Texts, Extends
  <1>1. /\ \A p \in 1..(Len(t) + 1) : f[p] \in Seq(Texts)
        /\ \A p \in 1..(Len(u) + 1) : g[p] \in Seq(Texts)
        /\ f[Len(t) + 1] = <<>>
    BY PiecesFollow, PiecesType
  <1>6. /\ \A p \in 1..Len(t) : f[p] = <<SubSeq(t, p, LineEnd(t, p))>> \o f[LineEnd(t, p) + 1]
        /\ \A p \in 1..Len(u) : g[p] = <<SubSeq(u, p, LineEnd(u, p))>> \o g[LineEnd(u, p) + 1]
    BY PiecesFollow
  <1>2. Pieces(t) = f[1] /\ Pieces(u) = g[1]
    BY PiecesFollow
  <1> HIDE DEF f, g
  <1>3. ASSUME NEW p \in 1..(Len(t) + 1), \A q \in (p + 1)..(Len(t) + 1) : q \in T PROVE p \in T
    <2>0. p \in 1..(Len(u) + 1)
      BY <1>0
    <2>1. CASE p > Len(t)
      <3>1. p = Len(t) + 1 /\ g[p] \in Seq(Texts)
        BY <1>0, <1>1, <2>0, <2>1
      <3>2. f[p] = <<>> /\ Len(g[p]) \in Nat
        BY <1>1, <3>1
      <3> QED BY <3>2 DEF Grown
    <2>2. CASE ~(p > Len(t))
      <3> DEFINE e == LineEnd(t, p)
                 d == LineEnd(u, p)
                 x == SubSeq(t, p, e)
                 y == SubSeq(u, p, d)
      <3>1. p \in 1..Len(t) /\ p \in 1..Len(u)
        BY <1>0, <2>2
      <3>2. /\ e \in p..Len(t) /\ (\A i \in p..(e - 1) : t[i] # "mark") /\ (e < Len(t) => t[e] = "mark")
            /\ d \in p..Len(u) /\ (\A i \in p..(d - 1) : u[i] # "mark") /\ (d < Len(u) => u[d] = "mark")
        BY <3>1, EndFacts
      <3>3. f[p] = <<x>> \o f[e + 1] /\ g[p] = <<y>> \o g[d + 1]
        BY <1>6, <3>1
      <3>4. x \in Texts /\ y \in Texts /\ Len(x) = e - p + 1 /\ Len(y) = d - p + 1
            /\ (\A i \in 1..(e - p + 1) : x[i] = t[p + i - 1])
            /\ (\A i \in 1..(d - p + 1) : y[i] = u[p + i - 1])
        BY <1>0, <3>1, <3>2, SubSeqProperties DEF Texts
      <3> HIDE DEF e, d, x, y
      <3>5. \A i \in 1..Len(t) : u[i] = t[i]
        BY DEF Extends
      <3>6. e < Len(t) => e = d
        BY <1>0, <3>1, <3>2, <3>5
      <3>7. e = Len(t) => d >= e
        BY <1>0, <3>1, <3>2, <3>5
      <3>8. CASE e < Len(t)
        <4>1. x = y
          <5>1. Len(x) = Len(y) /\ \A i \in 1..Len(x) : x[i] = y[i]
            <6>1. e = d
              BY <3>6, <3>8
            <6>2. ASSUME NEW i \in 1..(e - p + 1) PROVE x[i] = y[i]
              <7>1. p + i - 1 \in 1..Len(t)
                BY <1>0, <3>1, <3>2
              <7> QED BY <3>4, <3>5, <6>1, <7>1
            <6> QED BY <3>4, <6>1, <6>2
          <5> QED BY <3>4, <5>1, SeqEqual, Zenon DEF Texts
        <4>2. e + 1 \in (p + 1)..(Len(t) + 1) /\ e + 1 \in 1..Len(t)
          BY <1>0, <3>1, <3>2, <3>8
        <4>3. Grown(f[e + 1], g[e + 1]) /\ f[e + 1] \in Seq(Texts) /\ g[e + 1] \in Seq(Texts)
          <5>1. e + 1 \in T
            BY <1>3, <4>2
          <5>2. e + 1 \in 1..(Len(t) + 1) /\ e + 1 \in 1..(Len(u) + 1)
            BY <1>0, <4>2
          <5> QED BY <1>1, <5>1, <5>2
        <4>4. f[e + 1] # <<>>
          <5>1. f[e + 1] = <<SubSeq(t, e + 1, LineEnd(t, e + 1))>> \o f[LineEnd(t, e + 1) + 1]
            BY <1>6, <4>2
          <5>2. LineEnd(t, e + 1) + 1 \in 1..(Len(t) + 1)
            BY <1>0, <4>2, EndFacts, SMTT(40)
          <5>3. f[LineEnd(t, e + 1) + 1] \in Seq(Texts) /\ SubSeq(t, e + 1, LineEnd(t, e + 1)) \in Texts
            <6>1. e + 1 \in 1..Len(t) /\ LineEnd(t, e + 1) \in 1..Len(t)
              BY <1>0, <4>2, EndFacts
            <6>2. SubSeq(t, e + 1, LineEnd(t, e + 1)) \in Texts
              BY <1>0, <6>1, SubSeqProperties DEF Texts
            <6> QED BY <1>1, <5>2, <6>2
          <5>4. Len(f[e + 1]) >= 1
            BY <5>1, <5>3, ConcatProperties
          <5> QED BY <5>4
        <4> QED BY <3>3, <3>4, <3>6, <3>8, <4>1, <4>3, <4>4, GrownCons
      <3>9. CASE e = Len(t)
        <4>1. f[p] = <<x>>
          <5>1. f[e + 1] = <<>>
            BY <1>1, <3>9
          <5> QED BY <3>3, <3>4, <5>1, ConcatEmptySeq
        <4>2. g[d + 1] \in Seq(Texts)
          <5>1. d + 1 \in 1..(Len(u) + 1)
            BY <1>0, <3>1, <3>2
          <5> QED BY <1>1, <5>1
        <4>3. Len(g[p]) >= 1 /\ g[p][1] = y
          BY <3>3, <3>4, <4>2, ConcatProperties
        <4>4. IsPrefix(x, y)
          <5>1. Len(x) <= Len(y) /\ \A i \in 1..Len(x) : x[i] = y[i]
            <6>1. Len(x) <= Len(y)
              BY <1>0, <3>1, <3>2, <3>4, <3>7, <3>9
            <6>2. ASSUME NEW i \in 1..(e - p + 1) PROVE x[i] = y[i]
              <7>1. p + i - 1 \in 1..Len(t) /\ i \in 1..(d - p + 1)
                BY <1>0, <3>1, <3>2, <3>7, <3>9
              <7> QED BY <3>4, <3>5, <7>1
            <6> QED BY <3>4, <6>1, <6>2
          <5> QED BY <3>4, <5>1, PrefixIs, Zenon DEF Texts
        <4>5. Len(f[p]) = 1 /\ f[p][1] = x
          BY <4>1
        <4>6. IsPrefix(f[p][Len(f[p])], g[p][Len(f[p])])
          BY <4>3, <4>4, <4>5, Zenon
        <4>7. Len(f[p]) <= Len(g[p])
          BY <4>3, <4>5
        <4>8. \A k \in 1..Len(f[p]) : ~(k < Len(f[p]))
          BY <4>5
        <4>9. Grown(f[p], g[p])
          BY <4>6, <4>7, <4>8, Zenon DEF Grown
        <4> QED BY <4>9
      <3> QED BY <1>0, <3>1, <3>2, <3>8, <3>9
    <2> QED BY <2>1, <2>2
  <1>4. 1..(Len(t) + 1) \subseteq T
    <2> HIDE DEF T
    <2> QED BY <1>0, <1>3, DownInduction
  <1>5. 1 \in 1..(Len(t) + 1)
    BY <1>0
  <1> QED BY <1>2, <1>4, <1>5

-----------------------------------------------------------------------------
(* The inductive invariant. *)

Saying == [no : Nat, words : Texts]

DemoTypes ==
  /\ answer \in Texts /\ grown \in 0..Len(answer)
  /\ dp \in {"poll", "measure", "tail", "queue", "send", "rest", "play", "over"}
  /\ round \in Nat /\ (dp \in {"measure", "tail", "queue", "send"} => round > 0)
  /\ size \in 0..grown /\ pofs \in 0..size
  /\ pend \in Texts /\ clean \in Texts
  /\ piece \in Nat /\ pieceSent \in Nat
  /\ sayings \in Seq(Saying) /\ said \in Nat
  /\ wavs \subseteq Nat /\ heard \in Seq(Nat)

\* The numbers that are heard rise, and stay below the one that is played next.
HeardSoFar ==
  /\ dp \notin {"play", "over"} => heard = <<>>
  /\ \A j \in DOMAIN heard : heard[j] < piece

\* Nothing of this turn was read yet.
Fresh == round = 0 \/ (round = 1 /\ dp \in {"measure", "tail"})

Spoken == dp \in {"play", "over"}

\* clean is the old text until something is read, and nothing of it is sent but by
\* a turn that never looks.
CleanIsRead ==
  /\ ~Fresh => clean = pend
  /\ Fresh /\ ~Spoken => sayings = <<>> /\ pieceSent = 0

\* The lines have rising numbers up to the last one sent.
Numbered ==
  \A j \in DOMAIN sayings :
    sayings[j].no \in 1..pieceSent /\ (j > 1 => sayings[j - 1].no < sayings[j].no)

\* Piece k was sent, or has nothing to be sent.
Settled(k) == (\E j \in DOMAIN sayings : sayings[j].no = k) \/ Blank(Pieces(clean)[k])

\* Up to the last one sent all pieces are settled, and none of them was the last
\* of the text; behind the sending, all but the last are.
SentSoFar ==
  /\ ~Fresh /\ ~Spoken => /\ pieceSent = 0 \/ pieceSent < Len(Pieces(clean))
                          /\ \A k \in 1..pieceSent : Settled(k)
  /\ dp = "send" => /\ pieceSent <= piece /\ (piece = 0 \/ piece < Len(Pieces(clean)))
                    /\ \A k \in 1..piece : Settled(k)
  /\ ~Fresh /\ dp \in {"poll", "measure", "tail", "rest"} =>
       \A k \in 1..(Len(Pieces(clean)) - 1) : k > SENT_MAX \/ Settled(k)

\* A line is the piece of its number.
WordsAreRight ==
  round > 0 /\ ~demoRaced => \A j \in DOMAIN sayings :
    LET s == sayings[j]
    IN  /\ s.no <= Len(Pieces(answer))
        /\ IsPrefix(s.words, Pieces(answer)[s.no])
        /\ s.words = Pieces(answer)[s.no] \/ (j = Len(sayings) /\ Spoken)

DemoInv == /\ DemoTypes /\ HeardSoFar /\ HeardInOrder /\ ReadOnce /\ CleanIsRead
           /\ Numbered /\ SentSoFar /\ WordsAreRight /\ ReadIsSent

LEMMA DemoInitInv == DemoInit => DemoInv
  <1> SUFFICES ASSUME DemoInit PROVE DemoInv
    OBVIOUS
  <1>1. answer \in Texts /\ clean \in Texts
    BY DemoAssumption DEF DemoInit, Texts
  <1>2. DemoTypes
    <2>1. Len(answer) \in Nat /\ \A S : <<>> \in Seq(S)
      BY <1>1 DEF Texts
    <2> QED BY <1>1, <2>1 DEF DemoInit, DemoTypes, Texts
  <1>3. DOMAIN sayings = {} /\ DOMAIN heard = {}
    BY DEF DemoInit
  <1>4. ReadOnce
    BY <1>1, SubSeqEmpty DEF DemoInit, ReadOnce
  <1> QED BY <1>2, <1>3, <1>4 DEF DemoInit, DemoInv, HeardSoFar, HeardInOrder, CleanIsRead, Fresh, Spoken, Numbered,
                                  SentSoFar, WordsAreRight, ReadIsSent

-----------------------------------------------------------------------------
(* Its parts, step by step. *)

\* A line that is sent, in the queue to the daemon.
LEMMA SentFacts ==
  ASSUME DemoTypes, NEW k \in Nat, NEW w \in Texts,
         sayings' = Append(sayings, [no |-> k, words |-> w])
  PROVE  /\ sayings' \in Seq(Saying) /\ Len(sayings') = Len(sayings) + 1 /\ Len(sayings) \in Nat
         /\ DOMAIN sayings = 1..Len(sayings) /\ DOMAIN sayings' = 1..(Len(sayings) + 1)
         /\ \A j \in 1..Len(sayings) : sayings'[j] = sayings[j]
         /\ sayings'[Len(sayings) + 1] = [no |-> k, words |-> w]
         /\ sayings'[Len(sayings) + 1].no = k /\ sayings'[Len(sayings) + 1].words = w
  <1>1. [no |-> k, words |-> w] \in Saying
    BY DEF Saying
  <1>2. sayings \in Seq(Saying)
    BY DEF DemoTypes
  <1> QED BY <1>1, <1>2, AppendProperties, LenProperties

LEMMA PieceIsText ==
  ASSUME DemoTypes, NEW k \in 1..Len(Pieces(clean))
  PROVE  Pieces(clean)[k] \in Texts
  BY PiecesType, ElementOfSeq DEF DemoTypes

LEMMA LenFacts ==
  ASSUME DemoTypes
  PROVE  /\ Len(Pieces(clean)) \in Nat /\ Len(Pieces(answer)) \in Nat /\ Len(answer) \in Nat
         /\ DOMAIN Pieces(clean) = 1..Len(Pieces(clean)) /\ DOMAIN Pieces(answer) = 1..Len(Pieces(answer))
         /\ SENT_MAX \in Nat /\ Rounds \in Nat
  BY PiecesType, DemoAssumption DEF DemoTypes, Texts

LEMMA DemoTypesStep == ASSUME DemoTypes, [DemoNext]_demoVars PROVE DemoTypes'
  <1> USE DEF DemoTypes, turn, reader, voicing
  <1>0. Len(answer) \in Nat
    BY LenFacts
  <1>1. CASE Grow \/ LlmIsDone
    <2>1. grown' \in 0..Len(answer) /\ grown <= grown' /\ UNCHANGED <<answer, dp, reader, piece, pieceSent, voicing, heard>>
      BY <1>0, <1>1 DEF Grow, LlmIsDone
    <2>2. size \in 0..grown'
      BY <1>0, <2>1
    <2> QED BY <2>1, <2>2
  <1>2. CASE Say
    <2>1. sayings[said + 1] \in Saying
      <3>1. said + 1 \in 1..Len(sayings)
        BY <1>2 DEF Say
      <3> QED BY <3>1, ElementOfSeq
    <2>2. sayings[said + 1].no \in Nat
      BY <2>1 DEF Saying
    <2>3. wavs' \subseteq Nat
      BY <1>2, <2>2 DEF Say
    <2>4. said' \in Nat /\ UNCHANGED <<turn, dp, reader, piece, pieceSent, sayings, heard>>
      BY <1>2 DEF Say
    <2> QED BY <2>3, <2>4
  <1>3. CASE Poll \/ MeasureFile \/ QueueHasRoom \/ SendEnds
    <2>1. round' \in Nat /\ (dp' \in {"measure", "tail", "queue", "send"} => round' > 0)
          /\ dp' \in {"poll", "measure", "tail", "queue", "send", "rest"}
      BY <1>3, SMTT(40) DEF Poll, MeasureFile, QueueHasRoom, SendEnds
    <2>2. size' \in 0..grown /\ pofs \in 0..size' /\ piece' \in Nat
      BY <1>0, <1>3, SMTT(40) DEF Poll, MeasureFile, QueueHasRoom, SendEnds
    <2>3. UNCHANGED <<turn, pofs, pend, clean, pieceSent, voicing, heard>>
      BY <1>3 DEF Poll, MeasureFile, QueueHasRoom, SendEnds
    <2> QED BY <2>1, <2>2, <2>3
  <1>4. CASE TailFile
    <2>1. SubSeq(answer, pofs + 1, grown) \in Texts
      BY <1>0, SubSeqProperties DEF Texts
    <2>2. pend' \in Texts
      BY <1>4, <2>1, ConcatProperties DEF TailFile, Texts
    <2>3. pofs' \in 0..size' /\ dp' = "queue" /\ UNCHANGED <<turn, round, size, piece, pieceSent, voicing, heard>>
          /\ clean' = pend' /\ dp = "tail"
      BY <1>4 DEF TailFile
    <2> QED BY <2>2, <2>3
  <1>5. CASE SendPiece
    <2>1. piece + 1 \in 1..Len(Pieces(clean)) /\ piece' = piece + 1
      BY <1>5, LenFacts DEF SendPiece
    <2>2. sayings' \in Seq(Saying) /\ pieceSent' \in Nat
      BY <1>5, <2>1, SentFacts, PieceIsText, SMTT(40) DEF SendPiece
    <2>3. UNCHANGED <<turn, dp, reader, said, wavs, heard>>
      BY <1>5 DEF SendPiece
    <2> QED BY <2>1, <2>2, <2>3
  <1>6. CASE SendRest
    <2> DEFINE k == pieceSent + 1
    <2>1. sayings' \in Seq(Saying) /\ pieceSent' \in Nat
      <3>1. CASE pieceSent < SENT_MAX /\ k <= Len(Pieces(clean)) /\ ~Blank(Pieces(clean)[k])
        <4>1. pieceSent' = k /\ sayings' = Append(sayings, [no |-> k, words |-> Pieces(clean)[k]])
          BY <1>6, <3>1 DEF SendRest
        <4>2. k \in 1..Len(Pieces(clean))
          BY <3>1, LenFacts
        <4> QED BY <4>1, <4>2, SentFacts, PieceIsText
      <3>2. CASE ~(pieceSent < SENT_MAX /\ k <= Len(Pieces(clean)) /\ ~Blank(Pieces(clean)[k]))
        BY <1>6, <3>2 DEF SendRest
      <3> QED BY <3>1, <3>2
    <2>2. piece' = 1 /\ dp' = "play" /\ UNCHANGED <<turn, reader, said, wavs, heard>>
      BY <1>6 DEF SendRest
    <2> QED BY <2>1, <2>2
  <1>7. CASE PlayNext
    <2>1. Append(heard, piece) \in Seq(Nat)
      BY AppendProperties
    <2>2. heard' \in Seq(Nat) /\ piece' \in Nat /\ dp' \in {"play", "over"}
      <3>1. CASE piece > pieceSent
        BY <1>7, <3>1 DEF PlayNext
      <3>2. CASE ~(piece > pieceSent)
        <4>1. (heard' = heard \/ heard' = Append(heard, piece)) /\ piece' = piece + 1 /\ dp' = "play"
          BY <1>7, <3>2 DEF PlayNext
        <4> QED BY <2>1, <4>1, SMTT(40)
      <3> QED BY <3>1, <3>2
    <2> QED BY <1>7, <2>2 DEF PlayNext
  <1>8. CASE UNCHANGED demoVars
    BY <1>8 DEF demoVars
  <1> QED BY <1>1, <1>2, <1>3, <1>4, <1>5, <1>6, <1>7, <1>8 DEF DemoNext, External, DemoScript

\* What is heard: a file is played once the number before it was looked at.
LEMMA HeardStep ==
  ASSUME DemoTypes, HeardSoFar, HeardInOrder, [DemoNext]_demoVars
  PROVE  HeardSoFar' /\ HeardInOrder'
  <1> USE DEF turn, reader, voicing
  <1>1. CASE Grow \/ LlmIsDone \/ Poll \/ MeasureFile \/ TailFile \/ QueueHasRoom \/ SendEnds \/ UNCHANGED demoVars
    <2>1. UNCHANGED <<heard, wavs>> /\ (dp' \in {"play", "over"} <=> dp \in {"play", "over"})
          /\ (dp \in {"play", "over"} => piece' = piece)
      BY <1>1 DEF Grow, LlmIsDone, Poll, MeasureFile, TailFile, QueueHasRoom, SendEnds, demoVars
    <2>2. dp \notin {"play", "over"} => DOMAIN heard = {}
      BY DEF HeardSoFar
    <2> QED BY <2>1, <2>2 DEF HeardSoFar, HeardInOrder
  <1>2. CASE Say
    BY <1>2 DEF Say, HeardSoFar, HeardInOrder
  <1>3. CASE SendPiece \/ SendRest
    <2>1. heard' = <<>> /\ DOMAIN heard' = {}
      BY <1>3 DEF SendPiece, SendRest, HeardSoFar
    <2> QED BY <2>1 DEF HeardSoFar, HeardInOrder
  <1>4. CASE PlayNext
    <2>1. dp = "play" /\ UNCHANGED wavs /\ dp' \in {"play", "over"}
      <3>1. CASE piece > pieceSent
        BY <1>4, <3>1 DEF PlayNext
      <3>2. CASE ~(piece > pieceSent)
        BY <1>4, <3>2 DEF PlayNext
      <3> QED BY <3>1, <3>2
    <2>2. heard \in Seq(Nat) /\ piece \in Nat /\ DOMAIN heard = 1..Len(heard) /\ Len(heard) \in Nat
      BY DEF DemoTypes
    <2>3. CASE heard' = heard
      <3>1. piece' >= piece
        BY <1>4, <2>2 DEF PlayNext
      <3>2. \A j \in DOMAIN heard : heard[j] \in Nat
        BY <2>2, ElementOfSeq
      <3>3. piece' \in Nat
        BY <1>4, <2>2 DEF PlayNext
      <3> QED BY <2>1, <2>2, <2>3, <3>1, <3>2, <3>3 DEF HeardSoFar, HeardInOrder
    <2>4. CASE heard' # heard
      <3>1. piece \in wavs /\ heard' = Append(heard, piece) /\ piece' = piece + 1
        BY <1>4, <2>4 DEF PlayNext
      <3>2. /\ DOMAIN heard' = 1..(Len(heard) + 1) /\ heard'[Len(heard) + 1] = piece
            /\ \A j \in 1..Len(heard) : heard'[j] = heard[j] /\ heard[j] \in Nat
        BY <2>2, <3>1, AppendProperties, LenProperties, ElementOfSeq
      <3>3. ASSUME NEW j \in DOMAIN heard' PROVE heard'[j] < piece' /\ heard'[j] \in wavs'
                                                 /\ (j > 1 => heard'[j - 1] < heard'[j])
        <4>1. CASE j \in 1..Len(heard)
          <5>1. j > 1 => j - 1 \in 1..Len(heard)
            BY <2>2, <4>1
          <5>2. heard[j] < piece /\ heard[j] \in wavs /\ (j > 1 => heard[j - 1] < heard[j])
            BY <2>2, <4>1 DEF HeardSoFar, HeardInOrder
          <5> QED BY <2>1, <2>2, <3>1, <3>2, <4>1, <5>1, <5>2
        <4>2. CASE j = Len(heard) + 1
          <5>1. j > 1 => j - 1 \in 1..Len(heard) /\ j - 1 \in DOMAIN heard
            BY <2>2, <4>2
          <5>2. j > 1 => heard'[j - 1] < piece
            <6>1. j > 1 => heard'[j - 1] = heard[j - 1]
              BY <3>2, <5>1
            <6>2. j > 1 => heard[j - 1] < piece
              BY <5>1 DEF HeardSoFar
            <6> QED BY <6>1, <6>2
          <5>3. heard'[j] = piece /\ piece < piece'
            BY <2>2, <3>1, <3>2, <4>2
          <5> QED BY <2>1, <3>1, <5>2, <5>3
        <4> QED BY <2>2, <3>2, <3>3, <4>1, <4>2
      <3> QED BY <2>1, <3>3 DEF HeardSoFar, HeardInOrder
    <2> QED BY <2>3, <2>4
  <1> QED BY <1>1, <1>2, <1>3, <1>4 DEF DemoNext, External, DemoScript

\* What is read: the place moves on by what was appended, if the size measured is
\* still the size.
LEMMA ReadStep ==
  ASSUME DemoTypes, ReadOnce, CleanIsRead, [DemoNext]_demoVars
  PROVE  ReadOnce' /\ CleanIsRead'
  <1> USE DEF turn, reader, voicing
  <1>1. CASE Grow \/ LlmIsDone \/ Say \/ UNCHANGED demoVars
    BY <1>1 DEF Grow, LlmIsDone, Say, demoVars, ReadOnce, CleanIsRead, Fresh, Spoken
  <1>2. CASE Poll \/ MeasureFile \/ QueueHasRoom \/ SendPiece \/ SendEnds \/ SendRest \/ PlayNext
    <2>1. UNCHANGED <<answer, pofs, pend, clean, demoRaced>>
      BY <1>2 DEF Poll, MeasureFile, QueueHasRoom, SendPiece, SendEnds, SendRest, PlayNext
    <2>2. Fresh' /\ ~Spoken' => Fresh /\ ~Spoken /\ UNCHANGED <<sayings, pieceSent>>
      BY <1>2, SMTT(40) DEF Poll, MeasureFile, QueueHasRoom, SendPiece, SendEnds, SendRest, PlayNext, Fresh, Spoken, DemoTypes
    <2>3. ~Fresh' => ~Fresh
      BY <1>2 DEF Poll, MeasureFile, QueueHasRoom, SendPiece, SendEnds, SendRest, PlayNext, Fresh, Spoken, DemoTypes
    <2> QED BY <2>1, <2>2, <2>3 DEF ReadOnce, CleanIsRead
  <1>3. CASE TailFile
    <2>1. ~Fresh' /\ clean' = pend'
      BY <1>3 DEF TailFile, Fresh, DemoTypes
    <2>2. ASSUME ~demoRaced' PROVE pend' = SubSeq(answer, 1, pofs')
      <3>1. ~demoRaced /\ grown = size
        BY <1>3, <2>2 DEF TailFile
      <3>2. pend = SubSeq(answer, 1, pofs)
        BY <3>1 DEF ReadOnce
      <3>3. CASE size > pofs
        <4>1. pend' = SubSeq(answer, 1, pofs) \o SubSeq(answer, pofs + 1, size) /\ pofs' = size
          BY <1>3, <3>1, <3>2, <3>3 DEF TailFile
        <4>2. 0 <= pofs /\ pofs <= size /\ size <= Len(answer) /\ Len(answer) \in Nat /\ pofs \in Nat /\ size \in Nat
          BY LenFacts DEF DemoTypes
        <4>3. SubSeq(answer, 1, pofs) \o SubSeq(answer, pofs + 1, size) = SubSeq(answer, 1, size)
          BY <4>2 DEF DemoTypes, Texts
        <4> QED BY <4>1, <4>3
      <3>4. CASE ~(size > pofs)
        BY <1>3, <3>2, <3>4 DEF TailFile
      <3> QED BY <3>3, <3>4
    <2> QED BY <1>3, <2>1, <2>2 DEF TailFile, ReadOnce, CleanIsRead
  <1> QED BY <1>1, <1>2, <1>3 DEF DemoNext, External, DemoScript

\* The number of what is sent is above all numbers before.
LEMMA NumberedStep ==
  ASSUME DemoTypes, Numbered, SentSoFar, [DemoNext]_demoVars PROVE Numbered'
  <1> USE DEF turn, reader, voicing
  <1>0. pieceSent \in Nat /\ piece \in Nat /\ DOMAIN sayings = 1..Len(sayings) /\ Len(sayings) \in Nat
    BY DEF DemoTypes
  <1>1. ASSUME NEW k \in Nat, NEW w \in Texts, k > pieceSent, pieceSent' = k,
               sayings' = Append(sayings, [no |-> k, words |-> w])
        PROVE  Numbered'
    <2>1. /\ DOMAIN sayings' = 1..(Len(sayings) + 1)
          /\ \A j \in 1..Len(sayings) : sayings'[j] = sayings[j]
          /\ sayings'[Len(sayings) + 1].no = k
      BY <1>1, SentFacts
    <2>2. ASSUME NEW j \in DOMAIN sayings'
          PROVE  sayings'[j].no \in 1..k /\ (j > 1 => sayings'[j - 1].no < sayings'[j].no)
      <3>1. CASE j \in 1..Len(sayings)
        <4>1. sayings'[j] = sayings[j] /\ (j > 1 => sayings'[j - 1] = sayings[j - 1])
          BY <1>0, <2>1, <3>1
        <4>2. sayings[j].no \in 1..pieceSent /\ (j > 1 => sayings[j - 1].no < sayings[j].no)
          BY <1>0, <3>1 DEF Numbered
        <4> QED BY <1>0, <1>1, <4>1, <4>2
      <3>2. CASE j = Len(sayings) + 1
        <4>1. j > 1 => j - 1 \in DOMAIN sayings /\ sayings'[j - 1] = sayings[j - 1]
          BY <1>0, <2>1, <3>2
        <4>2. j > 1 => sayings[j - 1].no \in 1..pieceSent
          BY <4>1 DEF Numbered
        <4>3. sayings'[j].no = k
          BY <2>1, <3>2
        <4> QED BY <1>0, <1>1, <4>1, <4>2, <4>3
      <3> QED BY <1>0, <2>1, <2>2, <3>1, <3>2
    <2> QED BY <1>1, <2>2 DEF Numbered
  <1>2. CASE UNCHANGED <<sayings, pieceSent>>
    BY <1>2 DEF Numbered
  <1>3. CASE SendPiece
    <2>1. piece + 1 \in 1..Len(Pieces(clean)) /\ piece + 1 > pieceSent /\ piece' = piece + 1
      BY <1>0, <1>3, LenFacts DEF SendPiece, SentSoFar
    <2>2. \/ UNCHANGED <<sayings, pieceSent>>
          \/ pieceSent' = piece + 1 /\ sayings' = Append(sayings, [no |-> piece + 1, words |-> Pieces(clean)[piece + 1]])
      BY <1>3 DEF SendPiece
    <2> QED BY <1>0, <1>1, <1>2, <2>1, <2>2, PieceIsText
  <1>4. CASE SendRest
    <2> DEFINE k == pieceSent + 1
    <2>1. \/ UNCHANGED <<sayings, pieceSent>>
          \/ /\ k \in 1..Len(Pieces(clean)) /\ k > pieceSent /\ k \in Nat
             /\ pieceSent' = k /\ sayings' = Append(sayings, [no |-> k, words |-> Pieces(clean)[k]])
      BY <1>0, <1>4, LenFacts DEF SendRest
    <2> HIDE DEF k
    <2> QED BY <1>1, <1>2, <2>1, PieceIsText
  <1>5. CASE ~(SendPiece \/ SendRest)
    <2>1. UNCHANGED <<sayings, pieceSent>>
      BY <1>5 DEF DemoNext, External, DemoScript, Grow, LlmIsDone, Say, Poll, MeasureFile, TailFile, QueueHasRoom,
                  SendEnds, PlayNext, demoVars
    <2> QED BY <1>2, <2>1
  <1> QED BY <1>3, <1>4, <1>5

\* A text that was read and goes on keeps its lines but for the last.
LEMMA TailGrows ==
  ASSUME DemoTypes, CleanIsRead, TailFile, ~Fresh
  PROVE  Grown(Pieces(clean), Pieces(clean'))
  <1>1. clean = pend /\ clean \in Texts
    BY DEF CleanIsRead, DemoTypes
  <1>2. clean' = clean \/ clean' = clean \o SubSeq(answer, pofs + 1, grown)
    BY <1>1 DEF TailFile
  <1>3. SubSeq(answer, pofs + 1, grown) \in Texts
    BY SubSeqProperties, LenFacts DEF DemoTypes, Texts
  <1>4. clean' \in Texts /\ Extends(clean', clean)
    <2>1. CASE clean' = clean
      BY <1>1, <2>1 DEF Extends, Texts
    <2>2. CASE clean' = clean \o SubSeq(answer, pofs + 1, grown)
      BY <1>1, <1>3, <2>2, ConcatProperties DEF Extends, Texts
    <2> QED BY <1>2, <2>1, <2>2
  <1> QED BY <1>1, <1>4, PiecesGrow

LEMMA SentSoFarStep ==
  ASSUME DemoTypes, CleanIsRead, Numbered, SentSoFar, ReadIsSent, [DemoNext]_demoVars
  PROVE  SentSoFar' /\ ReadIsSent'
  <1> USE DEF turn, reader, voicing
  <1> DEFINE P == Pieces(clean)
  <1>0. pieceSent \in Nat /\ piece \in Nat /\ DOMAIN sayings = 1..Len(sayings) /\ Len(sayings) \in Nat
    BY DEF DemoTypes
  <1>1. CASE Grow \/ LlmIsDone \/ Say \/ UNCHANGED demoVars
    <2>1. UNCHANGED <<dp, round, clean, piece, pieceSent, sayings>>
      BY <1>1 DEF Grow, LlmIsDone, Say, demoVars
    <2> QED BY <2>1 DEF SentSoFar, ReadIsSent, Settled, Fresh, Spoken
  <1>2. CASE Poll \/ MeasureFile
    <2>1. UNCHANGED <<clean, piece, pieceSent, sayings>> /\ ~Spoken /\ dp' \in {"measure", "tail", "rest"}
          /\ (~Fresh' => ~Fresh) /\ dp \in {"poll", "measure"}
      BY <1>2 DEF Poll, MeasureFile, Fresh, Spoken, DemoTypes
    <2> QED BY <2>1 DEF SentSoFar, ReadIsSent, Settled
  <1>3. CASE TailFile
    <2>1. dp' = "queue" /\ UNCHANGED <<pieceSent, sayings>> /\ ~Spoken
      BY <1>3 DEF TailFile, Spoken
    <2>2. CASE Fresh
      BY <1>0, <2>1, <2>2 DEF SentSoFar, ReadIsSent, CleanIsRead
    <2>3. CASE ~Fresh
      <3>1. Grown(P, Pieces(clean'))
        BY <1>3, <2>3, TailGrows
      <3>2. pieceSent = 0 \/ (pieceSent < Len(P) /\ \A k \in 1..pieceSent : Settled(k))
        BY <2>1, <2>3 DEF SentSoFar
      <3>3. Len(P) \in Nat /\ Len(P) <= Len(Pieces(clean'))
            /\ \A k \in 1..Len(P) : k < Len(P) => Pieces(clean')[k] = P[k]
        BY <3>1, LenFacts DEF Grown
      <3>4. Len(Pieces(clean')) \in Nat
        <4>1. clean' \in Texts
          BY <1>3, DemoTypesStep DEF DemoTypes
        <4> QED BY <4>1, PiecesType
      <3> HIDE DEF P
      <3>5. ASSUME NEW k \in 1..pieceSent PROVE Settled(k)'
        <4>1. Settled(k) /\ k \in 1..Len(P) /\ k < Len(P)
          BY <1>0, <3>2, <3>3, <3>5
        <4> QED BY <2>1, <3>3, <4>1 DEF Settled, P
      <3>6. pieceSent = 0 \/ pieceSent < Len(Pieces(clean'))
        BY <1>0, <3>2, <3>3, <3>4
      <3> QED BY <2>1, <3>5, <3>6 DEF SentSoFar, ReadIsSent
    <2> QED BY <2>2, <2>3
  <1>4. CASE QueueHasRoom
    <2>1. /\ dp = "queue" /\ dp' \in {"send", "poll"} /\ piece' = pieceSent
          /\ UNCHANGED <<round, clean, pieceSent, sayings>>
          /\ dp' = "poll" => Len(P) <= pieceSent \/ Len(P) <= 1
          /\ dp' = "send" => Len(P) > pieceSent
      BY <1>0, <1>4, LenFacts DEF QueueHasRoom
    <2>2. ~Fresh /\ ~Spoken /\ ~Fresh'
      BY <2>1 DEF Fresh, Spoken, DemoTypes
    <2>3. (pieceSent = 0 \/ pieceSent < Len(P)) /\ \A k \in 1..pieceSent : Settled(k)
      BY <2>2 DEF SentSoFar
    <2>4. \A k : Settled(k)' <=> Settled(k)
      BY <2>1 DEF Settled
    <2>5. dp' = "poll" => 1..(Len(P) - 1) = {}
      BY <1>0, <2>1, <2>3, LenFacts
    <2>6. Pieces(clean)' = P /\ ~Spoken'
      BY <2>1 DEF Spoken
    <2> HIDE DEF P
    <2>7. (dp' = "send" => pieceSent = 0 \/ pieceSent < Len(P)) /\ \A k \in 1..pieceSent : Settled(k)'
      BY <2>3, <2>4
    <2>8. SentSoFar'
      BY <1>0, <2>1, <2>2, <2>3, <2>5, <2>6, <2>7 DEF SentSoFar
    <2> QED BY <2>1, <2>8 DEF ReadIsSent
  <1>5. CASE SendPiece
    <2>1. /\ dp = "send" /\ dp' = "send" /\ piece < Len(P) - 1 /\ piece' = piece + 1 /\ UNCHANGED <<round, clean>>
          /\ \/ Blank(P[piece + 1]) /\ UNCHANGED <<pieceSent, sayings>>
             \/ pieceSent' = piece + 1 /\ sayings' = Append(sayings, [no |-> piece + 1, words |-> P[piece + 1]])
      BY <1>5 DEF SendPiece
    <2>2. pieceSent <= piece /\ \A k \in 1..piece : Settled(k)
      BY <2>1 DEF SentSoFar
    <2>3. piece + 1 \in 1..Len(P) /\ Len(P) \in Nat
      BY <1>0, <2>1, LenFacts
    <2>4. /\ \A k : Settled(k) => Settled(k)'
          /\ Settled(piece)'
          /\ pieceSent' \in {pieceSent, piece + 1}
      <3>1. CASE UNCHANGED <<pieceSent, sayings>> /\ Blank(P[piece + 1])
        BY <2>1, <3>1 DEF Settled
      <3>2. CASE pieceSent' = piece + 1 /\ sayings' = Append(sayings, [no |-> piece + 1, words |-> P[piece + 1]])
        <4>1. /\ DOMAIN sayings' = 1..(Len(sayings) + 1) /\ sayings'[Len(sayings) + 1].no = piece + 1
              /\ \A j \in 1..Len(sayings) : sayings'[j] = sayings[j]
          BY <1>0, <2>3, <3>2, SentFacts, PieceIsText
        <4>2. Len(sayings) + 1 \in DOMAIN sayings' /\ DOMAIN sayings \subseteq DOMAIN sayings'
          BY <1>0, <4>1
        <4> HIDE DEF P
        <4>3. \A k : Settled(k) => Settled(k)'
          BY <1>0, <2>1, <4>1, <4>2 DEF Settled
        <4>4. Settled(piece)'
          BY <2>1, <4>1, <4>2 DEF Settled
        <4> QED BY <3>2, <4>3, <4>4
      <3> QED BY <2>1, <3>1, <3>2
    <2>5. ASSUME NEW k \in 1..(piece + 1) PROVE Settled(k)'
      <3>1. CASE k \in 1..piece
        BY <2>2, <2>4, <3>1
      <3>2. CASE k = piece + 1
        <4>1. k = piece'
          BY <2>1, <3>2
        <4> QED BY <2>4, <4>1
      <3> QED BY <1>0, <2>5, <3>1, <3>2
    <2>6. Len(Pieces(clean)') = Len(P)
      BY <2>1
    <2> HIDE DEF P
    <2>7. pieceSent' <= piece' /\ piece' < Len(P) /\ (\A k \in 1..piece' : Settled(k)')
          /\ (\A k \in 1..pieceSent' : Settled(k)') /\ pieceSent' < Len(P)
      BY <1>0, <2>1, <2>2, <2>3, <2>4, <2>5
    <2> QED BY <2>1, <2>6, <2>7 DEF SentSoFar, ReadIsSent
  <1>6. CASE SendEnds
    <2>1. /\ dp = "send" /\ dp' = "poll" /\ (piece >= Len(P) - 1 \/ piece >= SENT_MAX)
          /\ UNCHANGED <<round, clean, piece, pieceSent, sayings>>
      BY <1>0, <1>6, LenFacts DEF SendEnds
    <2>2. ~Spoken /\ ~Fresh
      BY <2>1 DEF Fresh, Spoken, DemoTypes
    <2>3. \A k : Settled(k)' <=> Settled(k)
      BY <2>1 DEF Settled
    <2>4. \A k \in 1..(Len(P) - 1) : k > SENT_MAX \/ k \in 1..piece
      BY <1>0, <2>1, LenFacts
    <2> QED BY <2>1, <2>2, <2>3, <2>4 DEF SentSoFar, ReadIsSent
  <1>7. CASE SendRest
    <2> DEFINE k0 == pieceSent + 1
    <2>1. /\ dp = "rest" /\ dp' = "play" /\ UNCHANGED <<round, clean>>
          /\ IF pieceSent < SENT_MAX /\ k0 <= Len(P) /\ ~Blank(P[k0])
             THEN pieceSent' = k0 /\ sayings' = Append(sayings, [no |-> k0, words |-> P[k0]])
             ELSE UNCHANGED <<pieceSent, sayings>>
      BY <1>7 DEF SendRest
    <2>2. SentSoFar'
      BY <2>1 DEF SentSoFar, Spoken
    <2>3. ASSUME round > 0, NEW k \in 1..Len(P)
          PROVE  \/ k > SENT_MAX \/ k \in {sayings'[j].no : j \in DOMAIN sayings'} \/ Blank(P[k])
                 \/ k = Len(P) /\ k > 1 /\ Blank(P[k - 1])
      <3>1. ~Fresh /\ ~Spoken
        BY <2>1, <2>3 DEF Fresh, Spoken, DemoTypes
      <3>2. /\ pieceSent = 0 \/ pieceSent < Len(P)
            /\ \A i \in 1..(Len(P) - 1) : i > SENT_MAX \/ Settled(i)
        BY <2>1, <3>1 DEF SentSoFar
      <3>3. \A j \in DOMAIN sayings : j \in DOMAIN sayings' /\ sayings'[j].no = sayings[j].no
        <4>1. CASE UNCHANGED <<pieceSent, sayings>>
          BY <4>1
        <4>2. CASE k0 <= Len(P) /\ sayings' = Append(sayings, [no |-> k0, words |-> P[k0]])
          <5>1. k0 \in 1..Len(P) /\ k0 \in Nat
            BY <1>0, <4>2, LenFacts
          <5> HIDE DEF k0
          <5> QED BY <1>0, <4>2, <5>1, SentFacts, PieceIsText
        <4> QED BY <2>1, <4>1, <4>2
      <3>4. CASE k < Len(P)
        <4>1. k > SENT_MAX \/ Settled(k)
          BY <3>2, <3>4, LenFacts
        <4> QED BY <3>3, <4>1 DEF Settled
      <3>5. CASE k = Len(P)
        <4>1. k >= k0
          BY <1>0, <3>2, <3>5, LenFacts
        <4>2. CASE k = k0
          <5>1. CASE pieceSent < SENT_MAX /\ ~Blank(P[k])
            <6>1. sayings' = Append(sayings, [no |-> k, words |-> P[k]])
              BY <2>1, <3>5, <4>2, <5>1, LenFacts
            <6>2. Len(sayings) + 1 \in DOMAIN sayings' /\ sayings'[Len(sayings) + 1].no = k
              BY <1>0, <2>3, <6>1, SentFacts, PieceIsText
            <6> QED BY <6>2
          <5>2. CASE ~(pieceSent < SENT_MAX)
            <6>1. k > SENT_MAX
              BY <1>0, <4>2, <5>2, LenFacts
            <6> QED BY <6>1
          <5> QED BY <5>1, <5>2
        <4>3. CASE k > k0
          <5>1. k > 1 /\ k - 1 \in 1..(Len(P) - 1) /\ k - 1 > pieceSent
            BY <1>0, <3>5, <4>3, LenFacts
          <5>2. ~(\E j \in DOMAIN sayings : sayings[j].no = k - 1)
            BY <1>0, <5>1 DEF Numbered
          <5>3. k - 1 > SENT_MAX \/ Blank(P[k - 1])
            BY <3>2, <5>1, <5>2 DEF Settled
          <5> QED BY <1>0, <3>5, <5>1, <5>3, LenFacts
        <4>4. k = k0 \/ k > k0
          BY <1>0, <4>1
        <4> QED BY <4>2, <4>3, <4>4
      <3> QED BY <3>4, <3>5, LenFacts
    <2>4. ReadIsSent'
      BY <2>1, <2>3, LenFacts DEF ReadIsSent
    <2> QED BY <2>2, <2>4
  <1>8. CASE PlayNext
    <2>1. dp = "play" /\ UNCHANGED <<round, clean, pieceSent, sayings>> /\ dp' \in {"play", "over"}
      <3>1. CASE piece > pieceSent
        BY <1>8, <3>1 DEF PlayNext
      <3>2. CASE ~(piece > pieceSent)
        BY <1>8, <3>2 DEF PlayNext
      <3> QED BY <3>1, <3>2
    <2> QED BY <2>1 DEF SentSoFar, ReadIsSent, Spoken
  <1> QED BY <1>1, <1>2, <1>3, <1>4, <1>5, <1>6, <1>7, <1>8 DEF DemoNext, External, DemoScript

\* What was read without a race begins the answer.
LEMMA ReadBegins ==
  ASSUME DemoTypes, ReadOnce, CleanIsRead, ~demoRaced, ~Fresh
  PROVE  Grown(Pieces(clean), Pieces(answer))
  <1>1. clean = SubSeq(answer, 1, pofs) /\ clean \in Texts /\ answer \in Texts
    BY DEF ReadOnce, CleanIsRead, DemoTypes
  <1>2. pofs \in Nat /\ pofs <= Len(answer) /\ Len(answer) \in Nat
    BY LenFacts DEF DemoTypes
  <1>3. Len(clean) = pofs /\ \A i \in 1..pofs : clean[i] = answer[i]
    BY <1>1, <1>2 DEF Texts
  <1>4. Extends(answer, clean)
    BY <1>2, <1>3 DEF Extends
  <1> QED BY <1>1, <1>4, PiecesGrow

LEMMA WordsStep ==
  ASSUME DemoTypes, ReadOnce, CleanIsRead, Numbered, WordsAreRight, [DemoNext]_demoVars
  PROVE  WordsAreRight'
  <1> USE DEF turn, reader, voicing
  <1>0. pieceSent \in Nat /\ piece \in Nat /\ DOMAIN sayings = 1..Len(sayings) /\ Len(sayings) \in Nat
    BY DEF DemoTypes
  <1>1. ASSUME NEW k \in 1..Len(Pieces(clean)), ~Spoken, ~Fresh, k < Len(Pieces(clean)) \/ Spoken',
               sayings' = Append(sayings, [no |-> k, words |-> Pieces(clean)[k]]),
               UNCHANGED <<answer, round, demoRaced>>
        PROVE  WordsAreRight'
    <2> SUFFICES ASSUME round > 0, ~demoRaced PROVE WordsAreRight'
      BY <1>1 DEF WordsAreRight
    <2>1. /\ DOMAIN sayings' = 1..(Len(sayings) + 1) /\ Len(sayings') = Len(sayings) + 1
          /\ \A j \in 1..Len(sayings) : sayings'[j] = sayings[j]
          /\ sayings'[Len(sayings) + 1].no = k /\ sayings'[Len(sayings) + 1].words = Pieces(clean)[k]
      <3>1. k \in Nat
        BY LenFacts
      <3> QED BY <1>1, <3>1, SentFacts, PieceIsText
    <2>2. Grown(Pieces(clean), Pieces(answer))
      BY <1>1, ReadBegins
    <2>3. /\ k <= Len(Pieces(answer)) /\ IsPrefix(Pieces(clean)[k], Pieces(answer)[k])
          /\ k < Len(Pieces(clean)) => Pieces(clean)[k] = Pieces(answer)[k]
      <3>1. k <= Len(Pieces(answer))
        BY <2>2, LenFacts DEF Grown
      <3>2. CASE k < Len(Pieces(clean))
        <4>1. Pieces(clean)[k] = Pieces(answer)[k]
          BY <2>2, <3>2 DEF Grown
        <4>2. IsPrefix(Pieces(clean)[k], Pieces(clean)[k])
          <5>1. Len(Pieces(clean)[k]) \in Nat
            BY PieceIsText DEF Texts
          <5> QED BY <5>1 DEF IsPrefix
        <4> QED BY <3>1, <4>1, <4>2
      <3>3. CASE k = Len(Pieces(clean))
        BY <2>2, <3>1, <3>3, LenFacts DEF Grown
      <3>4. k < Len(Pieces(clean)) \/ k = Len(Pieces(clean))
        <4>1. Len(Pieces(clean)) \in Nat /\ k \in 1..Len(Pieces(clean))
          BY <1>1, LenFacts
        <4> QED BY <4>1
      <3> QED BY <3>2, <3>3, <3>4
    <2>4. ASSUME NEW j \in DOMAIN sayings'
          PROVE  /\ sayings'[j].no <= Len(Pieces(answer))
                 /\ IsPrefix(sayings'[j].words, Pieces(answer)[sayings'[j].no])
                 /\ sayings'[j].words = Pieces(answer)[sayings'[j].no] \/ (j = Len(sayings') /\ Spoken')
      <3>1. CASE j \in 1..Len(sayings)
        <4>1. sayings'[j] = sayings[j]
          BY <2>1, <3>1
        <4>2. /\ sayings[j].no <= Len(Pieces(answer))
              /\ IsPrefix(sayings[j].words, Pieces(answer)[sayings[j].no])
              /\ sayings[j].words = Pieces(answer)[sayings[j].no]
          BY <1>0, <1>1, <2>1, <3>1 DEF WordsAreRight
        <4> QED BY <4>1, <4>2
      <3>2. CASE j = Len(sayings) + 1
        BY <1>1, <2>1, <2>3, <3>2, LenFacts
      <3> QED BY <1>0, <2>1, <2>4, <3>1, <3>2
    <2> QED BY <1>1, <2>4 DEF WordsAreRight
  <1>2. ASSUME UNCHANGED <<sayings, answer>>, demoRaced => demoRaced', Spoken => Spoken',
               round' > 0 => round > 0 \/ sayings = <<>>
        PROVE  WordsAreRight'
    <2>1. CASE round > 0
      BY <1>2, <2>1 DEF WordsAreRight
    <2>2. CASE sayings = <<>>
      BY <1>2, <2>2 DEF WordsAreRight
    <2>3. CASE ~(round' > 0)
      BY <2>3 DEF WordsAreRight
    <2> QED BY <1>2, <2>1, <2>2, <2>3
  <1>3. CASE Poll
    BY <1>2, <1>3 DEF Poll, CleanIsRead, Fresh, Spoken, DemoTypes
  <1>4. CASE SendPiece
    <2>1. /\ dp = "send" /\ piece < Len(Pieces(clean)) - 1 /\ UNCHANGED <<answer, round, demoRaced, dp>>
          /\ \/ UNCHANGED sayings
             \/ sayings' = Append(sayings, [no |-> piece + 1, words |-> Pieces(clean)[piece + 1]])
      BY <1>4 DEF SendPiece
    <2>2. ~Spoken /\ ~Fresh /\ piece + 1 \in 1..Len(Pieces(clean)) /\ piece + 1 < Len(Pieces(clean))
      BY <1>0, <2>1, LenFacts DEF Fresh, Spoken, DemoTypes
    <2>3. CASE UNCHANGED sayings
      BY <1>2, <2>1, <2>3 DEF Spoken
    <2>4. CASE sayings' = Append(sayings, [no |-> piece + 1, words |-> Pieces(clean)[piece + 1]])
      BY <1>1, <2>1, <2>2, <2>4
    <2> QED BY <2>1, <2>3, <2>4
  <1>5. CASE SendRest
    <2> DEFINE k == pieceSent + 1
    <2>1. /\ dp = "rest" /\ dp' = "play" /\ UNCHANGED <<answer, round, demoRaced>>
          /\ \/ UNCHANGED sayings
             \/ k <= Len(Pieces(clean)) /\ sayings' = Append(sayings, [no |-> k, words |-> Pieces(clean)[k]])
      BY <1>5 DEF SendRest
    <2>2. ~Spoken /\ Spoken'
      BY <2>1 DEF Spoken
    <2>3. CASE UNCHANGED sayings
      BY <1>2, <2>1, <2>2, <2>3
    <2>4. CASE k <= Len(Pieces(clean)) /\ sayings' = Append(sayings, [no |-> k, words |-> Pieces(clean)[k]])
      <3>1. k \in 1..Len(Pieces(clean))
        BY <1>0, <2>4, LenFacts
      <3>2. CASE ~Fresh
        <4> HIDE DEF k
        <4> QED BY <1>1, <2>1, <2>2, <2>4, <3>1, <3>2
      <3>3. CASE Fresh
        BY <2>1, <3>3 DEF Fresh, WordsAreRight
      <3> QED BY <3>2, <3>3
    <2> QED BY <2>1, <2>3, <2>4
  <1>6. CASE Grow \/ LlmIsDone \/ Say \/ MeasureFile \/ TailFile \/ QueueHasRoom \/ SendEnds \/ PlayNext
             \/ UNCHANGED demoVars
    <2>1. UNCHANGED <<sayings, answer, round>>
      BY <1>6 DEF Grow, LlmIsDone, Say, MeasureFile, TailFile, QueueHasRoom, SendEnds, PlayNext, demoVars
    <2>2. demoRaced => demoRaced'
      <3>1. CASE TailFile
        BY <3>1, Zenon DEF TailFile
      <3>2. CASE ~TailFile
        BY <1>6, <3>2 DEF Grow, LlmIsDone, Say, MeasureFile, QueueHasRoom, SendEnds, PlayNext, demoVars
      <3> QED BY <3>1, <3>2
    <2>3. Spoken => Spoken'
      <3>1. CASE PlayNext
        <4>1. CASE piece > pieceSent
          BY <3>1, <4>1 DEF PlayNext, Spoken
        <4>2. CASE ~(piece > pieceSent)
          BY <3>1, <4>2 DEF PlayNext, Spoken
        <4> QED BY <4>1, <4>2
      <3>2. CASE ~PlayNext
        BY <1>6, <3>2 DEF Grow, LlmIsDone, Say, MeasureFile, TailFile, QueueHasRoom, SendEnds, demoVars, Spoken
      <3> QED BY <3>1, <3>2
    <2> QED BY <1>2, <2>1, <2>2, <2>3
  <1> QED BY <1>3, <1>4, <1>5, <1>6 DEF DemoNext, External, DemoScript

LEMMA DemoStep == DemoInv /\ [DemoNext]_demoVars => DemoInv'
  BY DemoTypesStep, HeardStep, ReadStep, NumberedStep, SentSoFarStep, WordsStep DEF DemoInv

-----------------------------------------------------------------------------
(* The theorems. *)

\* The invariant the two properties rest on holds for every answer and all limits.
THEOREM DemoInvHolds == DemoSpec => []DemoInv
  BY DemoInitInv, DemoStep, PTL DEF DemoSpec

\* For every answer, every pace of llmd and of the daemon and all limits: what is
\* sent to be spoken is what was read, piece by piece under its own number, and the
\* pieces of the answer if it was read without a race (chat_demo.sh:36-84).
THEOREM DemoSpeaksAsWritten == DemoSpec => []SpokenAsWritten
  <1>1. DemoInv => SpokenAsWritten
    <2> SUFFICES ASSUME DemoInv PROVE SpokenAsWritten
      OBVIOUS
    <2>1. PiecesAreOfTheAnswer
      BY DEF DemoInv, WordsAreRight, Numbered, PiecesAreOfTheAnswer, Spoken
    <2> QED BY <2>1 DEF DemoInv, SpokenAsWritten
  <1> QED BY <1>1, DemoInvHolds, PTL

\* The files are heard in the order of their numbers, each at most once, whichever
\* of them the daemon has finished when (chat_demo.sh:87-101).
THEOREM DemoIsHeardInOrder == DemoSpec => []HeardInOrder
  <1>1. DemoInv => HeardInOrder
    BY DEF DemoInv
  <1> QED BY <1>1, DemoInvHolds, PTL

-----------------------------------------------------------------------------
(* Messages. *)

Requests == {Ask(stem, mt) : stem \in Stems, mt \in Mts}

\* What of request r is on the wire: behind its head, and all of it.
Payload(r) == IF r.mt = 0 THEN <<>> ELSE <<Floats(r.mt * K[r.stem])>>
Whole(r) == IF r.mt = 0 THEN <<r>> ELSE <<r, Floats(r.mt * K[r.stem])>>

LEMMA RequestFields ==
  ASSUME NEW r \in Requests
  PROVE  /\ r.kind = "head" /\ r.stem \in Stems /\ r.mt \in Mts /\ r # NoReq
         /\ r.mt \in Nat /\ K[r.stem] \in Nat \ {0} /\ r.mt * K[r.stem] \in Nat
  <1>1. PICK stem \in Stems, mt \in Mts : r = Ask(stem, mt)
    BY DEF Requests
  <1>2. r.kind = "head" /\ r.stem = stem /\ r.mt = mt
    BY <1>1 DEF Ask
  <1>3. r # NoReq
    BY <1>2, NoneAssumption DEF NoReq, Ask
  <1>4. r.mt \in Nat /\ K[r.stem] \in Nat \ {0}
    BY <1>2, SizeAssumption
  <1>5. r.mt * K[r.stem] \in Nat
    BY <1>4
  <1> QED BY <1>2, <1>3, <1>4, <1>5

\* Sending puts the whole request on an empty wire.
LEMMA SentIsWhole ==
  ASSUME NEW stem \in Stems, NEW mt \in Mts
  PROVE  /\ Ask(stem, mt) \in Requests
         /\ <<>> \o <<Ask(stem, mt)>> \o (IF mt = 0 THEN <<>> ELSE <<Floats(mt * K[stem])>>)
              = Whole(Ask(stem, mt))
  <1> DEFINE r == Ask(stem, mt)
             f == Floats(mt * K[stem])
             S == {r, f}
  <1>1. r.mt = mt /\ r.stem = stem
    BY DEF Ask
  <1>2. <<r>> \in Seq(S) /\ <<f>> \in Seq(S) /\ <<>> \in Seq(S) /\ {r, f} \subseteq S
    OBVIOUS
  <1> HIDE DEF r, f, S
  <1>3. <<>> \o <<r>> = <<r>>
    BY <1>2, ConcatEmptySeq
  <1>4. <<r>> \o <<>> = <<r>>
    BY <1>2, ConcatEmptySeq
  <1>5. <<r>> \o <<f>> = <<r, f>>
    <2> DEFINE a == <<r>> \o <<f>>
               b == <<r, f>>
    <2>1. Len(<<r>>) = 1 /\ Len(<<f>>) = 1 /\ <<r>>[1] = r /\ <<f>>[1] = f
      OBVIOUS
    <2>2. a \in Seq(S) /\ Len(a) = 2 /\ a[1] = r /\ a[2] = f
      BY <1>2, <2>1, ConcatProperties
    <2>3. b \in Seq(S) /\ Len(b) = 2 /\ b[1] = r /\ b[2] = f
      BY <1>2
    <2>4. \A i \in 1..2 : a[i] = b[i]
      <3> HIDE DEF a, b
      <3> QED BY <2>2, <2>3
    <2> HIDE DEF a, b
    <2>5. a = b
      BY <2>2, <2>3, <2>4, SeqEqual
    <2> QED BY <2>5 DEF a, b
  <1>6. Ask(stem, mt) \in Requests
    BY DEF Requests
  <1>7. <<>> \o <<r>> \o (IF mt = 0 THEN <<>> ELSE <<f>>) = IF mt = 0 THEN <<r>> ELSE <<r, f>>
    BY <1>3, <1>4, <1>5
  <1> QED BY <1>1, <1>6, <1>7 DEF Whole, r, f

\* The head of a whole request is the request, and its payload is left.
LEMMA WholeParts ==
  ASSUME NEW r
  PROVE  /\ Whole(r) # <<>> /\ Whole(r)[1] = r /\ Tail(Whole(r)) = Payload(r)
         /\ <<r>> # <<>> /\ <<r>>[1] = r /\ Tail(<<r>>) = <<>>
  BY DEF Whole, Payload

\* What a client that dies leaves of what it has sent.
LEMMA WireCut ==
  ASSUME NEW r, NEW wire, wire \in {<<>>, <<r>>, Whole(r), Payload(r)},
         NEW k \in 0..Len(wire)
  PROVE  /\ SubSeq(wire, 1, k) \in {<<>>, <<r>>, wire}
         /\ wire = <<>> => SubSeq(wire, 1, k) = <<>>
         /\ wire = Payload(r) => SubSeq(wire, 1, k) \in {<<>>, wire}
  <1> DEFINE cut == SubSeq(wire, 1, k)
  <1>0. k = 0 => cut = <<>>
    BY SubSeqEmpty
  <1>1. ASSUME NEW a, wire = <<a>> PROVE cut \in {<<>>, wire}
    <2>1. k = 0 \/ k = Len(wire)
      BY <1>1
    <2>2. wire \in Seq({a})
      BY <1>1
    <2>3. SubSeq(wire, 1, Len(wire)) = wire
      BY <2>2, SubSeqFull
    <2> QED BY <1>0, <2>1, <2>3
  <1>2. ASSUME NEW a, NEW b, wire = <<a, b>> PROVE cut \in {<<>>, <<a>>, wire}
    <2>1. k = 0 \/ k = 1 \/ k = Len(wire)
      BY <1>2
    <2>2. wire \in Seq({a, b}) /\ wire[1] = a /\ <<a>> \in Seq({a, b})
      BY <1>2
    <2>3. SubSeq(wire, 1, Len(wire)) = wire
      BY <2>2, SubSeqFull
    <2>4. SubSeq(wire, 1, 1) = <<a>>
      <3> DEFINE u == SubSeq(wire, 1, 1)
      <3>1. \A i \in 1..1 : wire[i] \in {a, b}
        BY <2>2
      <3>2. u \in Seq({a, b}) /\ Len(u) = 1 /\ u[1] = a
        <4>1. u \in Seq({a, b})
          BY <3>1, SubSeqProperties
        <4>2. Len(u) = (IF 1 <= 1 THEN 1 - 1 + 1 ELSE 0) /\ \A i \in 1..(1 - 1 + 1) : u[i] = wire[1 + i - 1]
          BY <3>1, SubSeqProperties
        <4> HIDE DEF u
        <4> QED BY <2>2, <4>1, <4>2
      <3> HIDE DEF u
      <3>3. \A i \in 1..Len(u) : u[i] = <<a>>[i]
        BY <3>2
      <3>4. u = <<a>>
        BY <2>2, <3>2, <3>3, SeqEqual
      <3> QED BY <3>4 DEF u
    <2> QED BY <1>0, <2>1, <2>3, <2>4
  <1>3. ASSUME wire = <<>> PROVE cut = <<>>
    <2>1. k = 0
      BY <1>3
    <2> QED BY <1>0, <2>1
  <1> HIDE DEF cut
  <1>4. Payload(r) = <<>> \/ \E f : Payload(r) = <<f>>
    BY DEF Payload
  <1>5. Whole(r) = <<r>> \/ \E f : Whole(r) = <<r, f>>
    BY DEF Whole
  <1>6. wire = Payload(r) => cut \in {<<>>, wire}
    BY <1>1, <1>3, <1>4
  <1>7. cut \in {<<>>, <<r>>, wire}
    <2>1. wire = <<r>> => cut \in {<<>>, wire}
      BY <1>1
    <2>2. wire = Whole(r) => cut \in {<<>>, <<r>>, wire}
      BY <1>2, <1>5, <2>1
    <2> QED BY <1>3, <1>6, <2>1, <2>2
  <1> QED BY <1>3, <1>6, <1>7 DEF cut

\* Reading the payload empties the wire.
LEMMA PayloadRead ==
  ASSUME NEW r \in Requests, Payload(r) # <<>>
  PROVE  Without(Payload(r), r.mt * K[r.stem]) = <<>>
  BY DEF Payload, Without, Floats

-----------------------------------------------------------------------------
(* The cache. *)

OfTier(S) == {k \in DOMAIN cache : k[2] = S}

StoreOK ==
  /\ DOMAIN cache \subseteq Stems \X Tiers /\ IsFiniteSet(DOMAIN cache)
  /\ \A k \in DOMAIN cache :
       /\ cache[k] \in [last : 0..Columns(k[2]), used : Nat]
       /\ cache[k].used <= cache[k].last
  /\ count \in [Tiers -> Nat] /\ mmz \in Nat
  /\ CapHolds

\* A load that was not refused keeps the caps and evicts nothing.
LEMMA LoadStore ==
  ASSUME StoreOK, NEW key \in Stems \X Tiers, key \notin DOMAIN cache, ~Refused(key[2]),
         NEW result, NEW buffer \in 0..1, Load(key, result, buffer)
  PROVE  /\ StoreOK' /\ DOMAIN cache \subseteq DOMAIN cache'
         /\ result = "ok" => key \in DOMAIN cache'
         /\ BuffersAreOwned /\ result # "rank" => BuffersAreOwned'
  <1> DEFINE S == key[2]
  <1>0. /\ S \in Tiers /\ Cap \in [Tiers -> Nat] /\ count \in [Tiers -> Nat] /\ mmz \in Nat
        /\ IsFiniteSet(DOMAIN cache)
    BY SizeAssumption DEF StoreOK
  <1>1. Cardinality(DOMAIN cache) \in Nat
    BY <1>0, FS_CardinalityType
  <1>2. CASE result = "ok"
    <2>1. /\ cache' = [k \in DOMAIN cache \cup {key} |->
                         IF k = key THEN [last |-> Columns(S), used |-> 0] ELSE cache[k]]
          /\ count' = [count EXCEPT ![S] = @ + 1]
          /\ mmz' = mmz + buffer
      BY <1>2 DEF Load
    <2>2. DOMAIN cache' = DOMAIN cache \cup {key}
      BY <2>1
    <2>3. IsFiniteSet(DOMAIN cache') /\ Cardinality(DOMAIN cache') = Cardinality(DOMAIN cache) + 1
      BY <1>0, <2>2, FS_AddElement
    <2>4. \A k \in DOMAIN cache' :
            /\ cache'[k] \in [last : 0..Columns(k[2]), used : Nat]
            /\ cache'[k].used <= cache'[k].last
      <3> SUFFICES ASSUME NEW k \in DOMAIN cache'
                   PROVE  /\ cache'[k] \in [last : 0..Columns(k[2]), used : Nat]
                          /\ cache'[k].used <= cache'[k].last
        OBVIOUS
      <3>1. CASE k = key
        <4>1. cache'[k] = [last |-> Columns(S), used |-> 0]
          BY <2>1, <2>2, <3>1
        <4>2. Columns(S) \in Nat
          BY <1>0 DEF Tiers, Columns
        <4> QED BY <3>1, <4>1, <4>2
      <3>2. CASE k # key
        <4>1. k \in DOMAIN cache /\ cache'[k] = cache[k]
          BY <2>1, <2>2, <3>2
        <4> QED BY <4>1 DEF StoreOK
      <3> QED BY <3>1, <3>2
    <2>5. count' \in [Tiers -> Nat] /\ mmz' \in Nat
      BY <1>0, <2>1
    <2>6. CapHolds'
      <3> SUFFICES ASSUME NEW T \in Tiers
                   PROVE  /\ count'[T] <= Cap[T]
                          /\ Cardinality({k \in DOMAIN cache' : k[2] = T}) = count'[T]
        BY DEF CapHolds
      <3>1. count[T] <= Cap[T] /\ Cardinality(OfTier(T)) = count[T]
        BY DEF StoreOK, CapHolds, OfTier
      <3>2. IsFiniteSet(OfTier(T))
        BY <1>0, FS_Subset DEF OfTier
      <3>3. CASE T = S
        <4>1. {k \in DOMAIN cache' : k[2] = T} = OfTier(T) \cup {key} /\ key \notin OfTier(T)
          BY <2>2, <3>3 DEF OfTier
        <4>2. Cardinality(OfTier(T) \cup {key}) = Cardinality(OfTier(T)) + 1
          BY <3>2, <4>1, FS_AddElement
        <4>3. count[S] < Cap[S]
          BY <1>0 DEF Refused
        <4>4. count'[T] = count[T] + 1
          BY <1>0, <2>1, <3>3
        <4>5. count'[T] <= Cap[T]
          BY <1>0, <3>3, <4>3, <4>4
        <4>6. Cardinality({k \in DOMAIN cache' : k[2] = T}) = count'[T]
          BY <3>1, <4>1, <4>2, <4>4
        <4> QED BY <4>5, <4>6
      <3>4. CASE T # S
        <4>1. {k \in DOMAIN cache' : k[2] = T} = OfTier(T)
          BY <2>2, <3>4 DEF OfTier
        <4> QED BY <1>0, <2>1, <3>1, <3>4, <4>1
      <3> QED BY <3>3, <3>4
    <2>7. DOMAIN cache' \subseteq Stems \X Tiers
      BY <2>2 DEF StoreOK
    <2>8. BuffersAreOwned => BuffersAreOwned'
      BY <1>0, <1>1, <2>1, <2>3 DEF BuffersAreOwned
    <2>9. StoreOK'
      BY <2>3, <2>4, <2>5, <2>6, <2>7 DEF StoreOK
    <2> QED BY <1>2, <2>2, <2>8, <2>9
  <1>3. CASE result # "ok"
    <2>1. cache' = cache /\ count' = count /\ mmz' = IF result = "rank" THEN mmz + buffer ELSE mmz
      BY <1>3 DEF Load
    <2>2. StoreOK'
      BY <1>0, <2>1, SMTT(40) DEF StoreOK, CapHolds
    <2> QED BY <1>3, <2>1, <2>2 DEF BuffersAreOwned
  <1> QED BY <1>2, <1>3

\* A call leaves as many columns as it wrote, whatever was there before.
LEMMA FoldIsClean ==
  ASSUME StoreOK, NEW key \in DOMAIN cache, NEW mt \in Nat, mt <= Columns(key[2])
  PROVE  Fold(cache[key], mt) = [last |-> mt, used |-> mt]
  BY DEF StoreOK, Fold

\* A run changes one tile.
LEMMA RunStore ==
  ASSUME StoreOK, NEW key \in DOMAIN cache, NEW mt \in Nat, mt <= Columns(key[2]),
         cache' = [cache EXCEPT ![key] = Fold(@, mt)], UNCHANGED <<count, mmz>>
  PROVE  StoreOK' /\ DOMAIN cache' = DOMAIN cache /\ cache'[key].used = mt
  <1>1. DOMAIN cache' = DOMAIN cache
    OBVIOUS
  <1>2. cache'[key] = [last |-> mt, used |-> mt]
    BY FoldIsClean
  <1>3. \A k \in DOMAIN cache : k # key => cache'[k] = cache[k]
    OBVIOUS
  <1>4. \A k \in DOMAIN cache' :
            /\ cache'[k] \in [last : 0..Columns(k[2]), used : Nat]
            /\ cache'[k].used <= cache'[k].last
    <2> SUFFICES ASSUME NEW k \in DOMAIN cache
                 PROVE  /\ cache'[k] \in [last : 0..Columns(k[2]), used : Nat]
                        /\ cache'[k].used <= cache'[k].last
      BY <1>1
    <2>1. CASE k = key
      <3>1. mt \in 0..Columns(k[2])
        <4>1. key[2] \in Tiers
          BY DEF StoreOK
        <4>2. Columns(key[2]) \in Nat
          BY <4>1 DEF Tiers, Columns
        <4> QED BY <2>1, <4>2
      <3> QED BY <1>2, <2>1, <3>1
    <2>2. CASE k # key
      BY <1>3, <2>2 DEF StoreOK
    <2> QED BY <2>1, <2>2
  <1>5. CapHolds'
    BY <1>1 DEF StoreOK, CapHolds
  <1> QED BY <1>1, <1>2, <1>4, <1>5 DEF StoreOK

-----------------------------------------------------------------------------
(* What each connection has on its wires, and where handle_conn is. *)

Busy(c) == conn = c /\ at # "head"

\* The answer on its way to c is one, to what it asked, and no request is there.
Answered(c) ==
  /\ asked[c] # NoReq /\ up[c] = <<>> /\ ~Busy(c) /\ link[c] \in {"open", "hung"}
  /\ \E reply : /\ down[c] = <<reply>>
                /\ reply.code = 0 => reply.len = asked[c].mt * OUT[asked[c].stem]

\* On the wire is a request, whole unless its client is gone.
WireOK(c) ==
  /\ asked[c] \in Requests \cup {NoReq}
  /\ ~Busy(c) => \/ up[c] = <<>>
                 \/ \E r \in Requests :
                      /\ up[c] \in {<<r>>, Whole(r)}
                      /\ link[c] = "open" => up[c] = Whole(r) /\ asked[c] = r
  /\ Busy(c) => /\ up[c] \in {<<>>, Payload(req)}
                /\ at = "run" => up[c] = <<>>
                /\ link[c] = "open" => /\ at # "run" => up[c] = Payload(req)
                                       /\ asked[c] = req
  /\ down[c] # <<>> => Answered(c)
  /\ link[c] \in {"off", "hung"} => up[c] = <<>>
  /\ link[c] \in {"off", "closed"} => asked[c] = NoReq
  /\ conn = c => link[c] \in {"open", "closed"} /\ phase = "serving"

\* Connections wait in the queue once, and are not hung up before they are served.
QueueOK ==
  /\ backlog \in Seq(Clients)
  /\ \A i \in 1..Len(backlog) :
       /\ backlog[i] # conn /\ link[backlog[i]] \in {"open", "closed"}
       /\ \A j \in 1..Len(backlog) : backlog[i] = backlog[j] => i = j

\* The request that is served.
TurnOK ==
  /\ at # "head" => conn # None /\ req \in Requests
  /\ at \in {"lookup", "payload", "run"} => ~Reject(req.mt)
  /\ at \in {"payload", "run"} => Key \in DOMAIN cache

WireTypeOK ==
  /\ up = [c \in Clients |-> up[c]] /\ down = [c \in Clients |-> down[c]]
  /\ asked = [c \in Clients |-> asked[c]]

KpudInv ==
  /\ TypeOK /\ WireTypeOK /\ StoreOK /\ TurnOK /\ QueueOK
  /\ \A c \in Clients : WireOK(c)

\* A step leaves every CMA buffer with an owner, if no load has a wrong rank.
BuffersStay == BuffersAreOwned /\ "rank" \notin LoadResults => BuffersAreOwned'

LEMMA KpudInitInv == Init => KpudInv
  <1> SUFFICES ASSUME Init PROVE KpudInv
    OBVIOUS
  <1>1. \A S \in Tiers : {k \in DOMAIN cache : k[2] = S} = {}
    BY DEF Init
  <1>2. StoreOK
    <2>1. DOMAIN cache = {} /\ IsFiniteSet({}) /\ Cardinality({}) = 0
      BY FS_EmptySet DEF Init
    <2>2. CapHolds
      BY <1>1, <2>1, SizeAssumption DEF Init, CapHolds
    <2> QED BY <2>1, <2>2 DEF Init, StoreOK
  <1>3. TypeOK
    <2>1. Len(WarmFiles) \in Nat
      BY SizeAssumption
    <2>2. warmed \in 0..Len(WarmFiles)
      BY <2>1 DEF Init
    <2>3. link \in [Clients -> {"off", "open", "closed", "hung"}] /\ conn \in Clients \cup {None}
      BY DEF Init
    <2>4. /\ phase \in {"boot", "warming", "serving", "exited"} /\ {cmaLow, stop} \subseteq BOOLEAN
          /\ at \in {"head", "lookup", "payload", "run", "drain"}
      BY DEF Init
    <2> QED BY <1>2, <2>2, <2>3, <2>4 DEF StoreOK, TypeOK
  <1>4. QueueOK /\ TurnOK /\ WireTypeOK
    BY DEF Init, QueueOK, TurnOK, WireTypeOK
  <1>5. \A c \in Clients : WireOK(c)
    BY NoneAssumption DEF Init, WireOK, Busy
  <1> QED BY <1>2, <1>3, <1>4, <1>5 DEF KpudInv

-----------------------------------------------------------------------------
(* Steps that leave every wire as it is. *)

\* Boot, warm-up, SIGTERM and the other users of CMA.
LEMMA QuietInv ==
  ASSUME KpudInv, Listen \/ WarmOne \/ WarmEnds \/ Terminate \/ CmaShift
  PROVE  KpudInv' /\ DOMAIN cache \subseteq DOMAIN cache' /\ BuffersStay
  <1> USE DEF KpudInv
  <1>1. /\ UNCHANGED <<backlog, conn, at, req, link, up, down, asked>>
        /\ phase = "serving" => phase' = "serving"
    BY DEF Listen, WarmOne, WarmEnds, Terminate, CmaShift, wires, daemon
  <1>2. StoreOK' /\ DOMAIN cache \subseteq DOMAIN cache' /\ BuffersStay
    <2>1. CASE WarmOne
      <3> DEFINE key == <<WarmFiles[warmed + 1], 16>>
      <3>1. key \in Stems \X Tiers
        <4>1. WarmFiles \in Seq(Stems) /\ warmed \in Nat /\ warmed < Len(WarmFiles)
          BY <2>1, SizeAssumption DEF WarmOne, ToWarm, TypeOK, Tiers
        <4>2. WarmFiles[warmed + 1] \in Stems
          BY <4>1, ElementOfSeq
        <4> QED BY <4>2 DEF Tiers
      <3>2. CASE UNCHANGED store
        BY <3>2 DEF store, StoreOK, CapHolds, BuffersStay, BuffersAreOwned
      <3>3. CASE key \notin DOMAIN cache /\ ~Refused(16) /\
                 \E result \in LoadResults, buffer \in 0..1 : Load(key, result, buffer)
        <4>1. PICK result \in LoadResults, buffer \in 0..1 : Load(key, result, buffer)
          BY <3>3
        <4>2. key[2] = 16
          OBVIOUS
        <4> HIDE DEF key
        <4>3. StoreOK' /\ DOMAIN cache \subseteq DOMAIN cache'
              /\ (BuffersAreOwned /\ result # "rank" => BuffersAreOwned')
          BY <3>1, <3>3, <4>1, <4>2, LoadStore
        <4> QED BY <4>3 DEF BuffersStay
      <3> QED BY <2>1, <3>2, <3>3 DEF WarmOne
    <2>2. CASE Listen \/ WarmEnds \/ Terminate \/ CmaShift
      BY <2>2 DEF Listen, WarmEnds, Terminate, CmaShift, daemon, store, StoreOK, CapHolds,
                  BuffersStay, BuffersAreOwned
    <2> QED BY <2>1, <2>2
  <1>3. TypeOK'
    <2>1. phase' \in {"boot", "warming", "serving", "exited"} /\ {cmaLow', stop'} \subseteq BOOLEAN
      BY DEF TypeOK, Listen, WarmOne, WarmEnds, Terminate, CmaShift, daemon
    <2>2. warmed' \in 0..Len(WarmFiles)
      <3>1. CASE WarmOne
        BY <3>1, SizeAssumption DEF WarmOne, ToWarm, TypeOK, Tiers
      <3>2. CASE ~WarmOne
        BY <3>2 DEF TypeOK, Listen, WarmEnds, Terminate, CmaShift, daemon
      <3> QED BY <3>1, <3>2
    <2> QED BY <1>1, <1>2, <2>1, <2>2 DEF TypeOK, StoreOK
  <1>4. QueueOK' /\ TurnOK' /\ WireTypeOK'
    BY <1>1, <1>2 DEF QueueOK, TurnOK, WireTypeOK, Key
  <1>5. \A c \in Clients : WireOK(c)'
    BY <1>1 DEF WireOK, Busy, Answered
  <1> QED BY <1>2, <1>3, <1>4, <1>5

\* The steps of get_entry.
LEMMA LookupInv ==
  ASSUME KpudInv, Hit \/ Refuse \/ LoadOnDemand
  PROVE  KpudInv' /\ DOMAIN cache \subseteq DOMAIN cache' /\ BuffersStay
  <1> USE DEF KpudInv
  <1>1. /\ UNCHANGED <<phase, warmed, cmaLow, stop, backlog, conn, req, link, up, down, asked>>
        /\ at = "lookup" /\ conn # None /\ phase = "serving" /\ at' \in {"payload", "drain"}
    BY DEF Hit, Refuse, LoadOnDemand, Serving, wires
  <1>2. req \in Requests /\ ~Reject(req.mt) /\ Key \in Stems \X Tiers
    <2>1. req \in Requests /\ ~Reject(req.mt)
      BY <1>1 DEF TurnOK
    <2>2. req.stem \in Stems
      BY <2>1, RequestFields
    <2> QED BY <2>1, <2>2 DEF Key, Tier, Tiers
  <1>3. /\ StoreOK' /\ DOMAIN cache \subseteq DOMAIN cache' /\ BuffersStay
        /\ at' = "payload" => Key \in DOMAIN cache'
    <2>1. CASE LoadOnDemand
      <3>1. Key \notin DOMAIN cache /\ ~Refused(Key[2])
        BY <2>1 DEF LoadOnDemand
      <3>2. PICK result \in LoadResults, buffer \in 0..1 :
              /\ Load(Key, result, buffer)
              /\ at' = IF result = "ok" THEN "payload" ELSE "drain"
        BY <2>1 DEF LoadOnDemand
      <3>3. /\ StoreOK' /\ DOMAIN cache \subseteq DOMAIN cache'
            /\ result = "ok" => Key \in DOMAIN cache'
            /\ BuffersAreOwned /\ result # "rank" => BuffersAreOwned'
        BY <1>2, <3>1, <3>2, LoadStore
      <3> QED BY <3>2, <3>3 DEF BuffersStay
    <2>2. CASE Hit \/ Refuse
      BY <2>2 DEF Hit, Refuse, store, StoreOK, CapHolds, BuffersStay, BuffersAreOwned
    <2> QED BY <2>1, <2>2
  <1>4. TypeOK'
    BY <1>1, <1>3 DEF TypeOK, StoreOK
  <1>5. QueueOK' /\ WireTypeOK'
    BY <1>1 DEF QueueOK, WireTypeOK
  <1>6. TurnOK'
    BY <1>1, <1>2, <1>3 DEF TurnOK, Key
  <1>7. \A c \in Clients : WireOK(c)'
    BY <1>1 DEF WireOK, Busy, Answered
  <1> QED BY <1>3, <1>4, <1>5, <1>6, <1>7

-----------------------------------------------------------------------------
(* The clients' steps. *)

LEMMA ConnectInv == ASSUME KpudInv, NEW c \in Clients, Connect(c) PROVE KpudInv'
  <1> USE DEF KpudInv
  <1>1. /\ UNCHANGED <<daemon, cmaLow, stop, up, down, asked>>
        /\ link[c] = "off" /\ link' = [link EXCEPT ![c] = "open"]
        /\ backlog' = Append(backlog, c)
    BY DEF Connect
  <1>2. StoreOK' /\ TurnOK' /\ WireTypeOK' /\ TypeOK'
    BY <1>1 DEF daemon, store, StoreOK, CapHolds, TurnOK, Key, WireTypeOK, TypeOK
  <1>3. QueueOK'
    <2>1. /\ backlog' \in Seq(Clients) /\ Len(backlog') = Len(backlog) + 1
          /\ \A i \in 1..Len(backlog) : backlog'[i] = backlog[i]
          /\ backlog'[Len(backlog) + 1] = c
      BY <1>1, AppendProperties DEF QueueOK
    <2>2. \A i \in 1..Len(backlog) : backlog[i] \in Clients /\ backlog[i] # c
      BY <1>1, ElementOfSeq DEF QueueOK
    <2>3. conn # c /\ conn' = conn
      BY <1>1 DEF WireOK, daemon
    <2>4. Len(backlog) \in Nat
      BY DEF QueueOK
    <2>5. \A i \in 1..Len(backlog') : i \in 1..Len(backlog) \/ i = Len(backlog) + 1
      BY <2>1, <2>4
    <2>6. \A i \in 1..Len(backlog') :
            backlog'[i] # conn' /\ link'[backlog'[i]] \in {"open", "closed"}
      BY <1>1, <2>1, <2>2, <2>3, <2>5 DEF QueueOK, TypeOK
    <2>7. \A i, j \in 1..Len(backlog') : backlog'[i] = backlog'[j] => i = j
      BY <2>1, <2>2, <2>5 DEF QueueOK
    <2> QED BY <2>1, <2>6, <2>7 DEF QueueOK
  <1>4. \A d \in Clients : WireOK(d)'
    BY <1>1 DEF WireOK, Busy, Answered, daemon, TypeOK
  <1> QED BY <1>2, <1>3, <1>4

LEMMA SendInv ==
  ASSUME KpudInv, NEW c \in Clients, NEW stem \in Stems, NEW mt \in Mts, Send(c, stem, mt)
  PROVE  KpudInv'
  <1> USE DEF KpudInv
  <1> DEFINE r == Ask(stem, mt)
  <1>1. /\ UNCHANGED <<daemon, cmaLow, stop, backlog, link, down>>
        /\ link[c] = "open" /\ asked[c] = NoReq
        /\ asked' = [asked EXCEPT ![c] = r]
    BY DEF Send
  <1>2. r \in Requests /\ r # NoReq
    BY SentIsWhole, RequestFields
  <1>3. ~Busy(c) /\ up[c] = <<>> /\ down[c] = <<>>
    <2>1. ~Busy(c)
      <3> SUFFICES ASSUME Busy(c) PROVE FALSE
        OBVIOUS
      <3>1. req \in Requests /\ asked[c] = req
        BY <1>1 DEF WireOK, TurnOK, Busy
      <3> QED BY <1>1, <3>1, RequestFields
    <2>2. up[c] = <<>>
      BY <1>1, <2>1, RequestFields DEF WireOK
    <2> QED BY <1>1, <2>1, <2>2 DEF WireOK, Answered
  <1>4. up' = [up EXCEPT ![c] = Whole(r)]
    <2>1. up' = [up EXCEPT ![c] = @ \o <<Ask(stem, mt)>> \o
                             (IF mt = 0 THEN <<>> ELSE <<Floats(mt * K[stem])>>)]
      BY DEF Send
    <2>2. up[c] \o <<Ask(stem, mt)>> \o (IF mt = 0 THEN <<>> ELSE <<Floats(mt * K[stem])>>)
            = Whole(r)
      BY <1>3, SentIsWhole
    <2> QED BY <2>1, <2>2, Zenon
  <1> HIDE DEF r
  <1>5. StoreOK' /\ TurnOK' /\ TypeOK' /\ QueueOK'
    BY <1>1 DEF daemon, store, StoreOK, CapHolds, TurnOK, Key, TypeOK, QueueOK
  <1>6. WireTypeOK'
    BY <1>1, <1>4 DEF WireTypeOK
  <1>7. WireOK(c)'
    BY <1>1, <1>2, <1>3, <1>4 DEF WireOK, Busy, Answered, daemon, TypeOK, WireTypeOK
  <1>8. \A d \in Clients \ {c} : WireOK(d)'
    <2> SUFFICES ASSUME NEW d \in Clients \ {c} PROVE WireOK(d)'
      OBVIOUS
    <2>1. UNCHANGED <<conn, at, req, phase, link, down>>
      BY <1>1 DEF daemon
    <2>2. up'[d] = up[d] /\ asked'[d] = asked[d]
      BY <1>1, <1>4 DEF WireTypeOK
    <2> QED BY <2>1, <2>2 DEF WireOK, Busy, Answered
  <1> QED BY <1>5, <1>6, <1>7, <1>8

LEMMA ReceiveInv == ASSUME KpudInv, NEW c \in Clients, Receive(c) PROVE KpudInv'
  <1> USE DEF KpudInv
  <1>1. /\ UNCHANGED <<daemon, cmaLow, stop, backlog, link, up>>
        /\ down[c] # <<>>
        /\ down' = [down EXCEPT ![c] = Tail(@)] /\ asked' = [asked EXCEPT ![c] = NoReq]
    BY DEF Receive
  <1>2. Answered(c) /\ Tail(down[c]) = <<>>
    <2>1. Answered(c)
      BY <1>1 DEF WireOK
    <2>2. PICK reply : down[c] = <<reply>>
      BY <2>1 DEF Answered
    <2> QED BY <2>1, <2>2
  <1>3. StoreOK' /\ TurnOK' /\ TypeOK' /\ QueueOK' /\ WireTypeOK'
    BY <1>1 DEF daemon, store, StoreOK, CapHolds, TurnOK, Key, TypeOK, QueueOK, WireTypeOK
  <1>4. down'[c] = <<>> /\ asked'[c] = NoReq
    BY <1>1, <1>2 DEF WireTypeOK
  <1>5. WireOK(c)'
    BY <1>1, <1>2, <1>4 DEF WireOK, Busy, Answered, daemon, TypeOK
  <1>6. \A d \in Clients \ {c} : WireOK(d)'
    BY <1>1 DEF WireOK, Busy, Answered, daemon, TypeOK, WireTypeOK
  <1> QED BY <1>3, <1>5, <1>6

\* A client that leaves takes back what it waits for; what it sent stays, or a
\* part of it.
LEMMA LeaveInv ==
  ASSUME KpudInv, NEW c \in Clients, Close(c) \/ SeeHungUp(c)
  PROVE  KpudInv'
  <1> USE DEF KpudInv
  <1>1. /\ UNCHANGED <<daemon, cmaLow, stop, backlog>>
        /\ asked' = [asked EXCEPT ![c] = NoReq]
        /\ \/ /\ link[c] = "open" /\ link' = [link EXCEPT ![c] = "closed"]
              /\ down' = [down EXCEPT ![c] = <<>>]
              /\ \E k \in 0..Len(up[c]) : up' = [up EXCEPT ![c] = SubSeq(up[c], 1, k)]
           \/ /\ link[c] = "hung" /\ link' = [link EXCEPT ![c] = "off"]
              /\ down[c] = <<>> /\ down' = down /\ up' = up
    BY DEF Close, SeeHungUp
  <1>2. DOMAIN down = Clients /\ DOMAIN asked = Clients /\ DOMAIN link = Clients /\ DOMAIN up = Clients
    BY DEF WireTypeOK, TypeOK
  <1>3. /\ down'[c] = <<>> /\ asked'[c] = NoReq
        /\ \/ /\ link[c] = "open" /\ link'[c] = "closed"
              /\ \E k \in 0..Len(up[c]) : up'[c] = SubSeq(up[c], 1, k)
           \/ /\ link[c] = "hung" /\ link'[c] = "off" /\ up'[c] = up[c]
    <2>1. CASE Close(c)
      <3>1. /\ link[c] = "open" /\ link' = [link EXCEPT ![c] = "closed"]
            /\ down' = [down EXCEPT ![c] = <<>>] /\ asked' = [asked EXCEPT ![c] = NoReq]
        BY <2>1 DEF Close
      <3>2. \E k \in 0..Len(up[c]) : up'[c] = SubSeq(up[c], 1, k)
        BY <1>2, <2>1 DEF Close
      <3>3. link'[c] = "closed" /\ asked'[c] = NoReq
        BY <1>2, <3>1
      <3>4. down'[c] = <<>>
        BY <1>2, <3>1
      <3> QED BY <3>1, <3>2, <3>3, <3>4
    <2>2. CASE SeeHungUp(c)
      BY <1>2, <2>2 DEF SeeHungUp
    <2> QED BY <2>1, <2>2
  <1>4. StoreOK' /\ TurnOK' /\ TypeOK' /\ WireTypeOK'
    BY <1>1 DEF daemon, store, StoreOK, CapHolds, TurnOK, Key, TypeOK, WireTypeOK
  <1>5. QueueOK'
    <2>1. \A i \in 1..Len(backlog) : backlog[i] \in Clients
      BY ElementOfSeq DEF QueueOK
    <2>2. \A d \in Clients : link[d] \in {"open", "closed"} => link'[d] \in {"open", "closed"}
      BY <1>1, <1>3 DEF TypeOK
    <2> QED BY <1>1, <2>1, <2>2 DEF QueueOK, daemon
  <1>6. WireOK(c)'
    <2>1. CASE link[c] = "hung"
      BY <1>1, <1>3, <2>1 DEF WireOK, Busy, Answered, daemon
    <2>2. CASE link[c] = "open"
      <3>1. PICK k \in 0..Len(up[c]) : up'[c] = SubSeq(up[c], 1, k)
        BY <1>3, <2>2
      <3>2. link'[c] = "closed" /\ asked'[c] = NoReq /\ down'[c] = <<>>
            /\ UNCHANGED <<phase, conn, at, req>>
        BY <1>1, <1>3, <2>2 DEF daemon
      <3>3. ~Busy(c) => up'[c] = <<>> \/ \E r \in Requests : up'[c] \in {<<r>>, Whole(r)}
        <4>1. CASE up[c] = <<>>
          BY <3>1, <4>1, WireCut
        <4>2. CASE ~Busy(c) /\ up[c] # <<>>
          <5>1. PICK r \in Requests : up[c] = Whole(r)
            BY <2>2, <4>2 DEF WireOK
          <5>2. SubSeq(up[c], 1, k) \in {<<>>, <<r>>, up[c]}
            BY <5>1, WireCut
          <5> QED BY <3>1, <5>1, <5>2
        <4> QED BY <4>1, <4>2
      <3>4. Busy(c) => /\ up'[c] \in {<<>>, Payload(req)}
                       /\ at = "run" => up'[c] = <<>>
        <4> SUFFICES ASSUME Busy(c)
                     PROVE  /\ up'[c] \in {<<>>, Payload(req)}
                            /\ at = "run" => up'[c] = <<>>
          OBVIOUS
        <4>1. up[c] \in {<<>>, Payload(req)} /\ (at = "run" => up[c] = <<>>)
          BY DEF WireOK
        <4>2. up[c] \in {<<>>, <<req>>, Whole(req), Payload(req)}
          BY <4>1
        <4>3. /\ up[c] = <<>> => SubSeq(up[c], 1, k) = <<>>
              /\ up[c] = Payload(req) => SubSeq(up[c], 1, k) \in {<<>>, up[c]}
          BY <4>2, WireCut
        <4> QED BY <3>1, <4>1, <4>3
      <3>5. conn = c => phase = "serving"
        BY DEF WireOK
      <3> QED BY <3>2, <3>3, <3>4, <3>5 DEF WireOK, Busy
    <2> QED BY <1>3, <2>1, <2>2
  <1>7. \A d \in Clients \ {c} : WireOK(d)'
    <2> SUFFICES ASSUME NEW d \in Clients \ {c} PROVE WireOK(d)'
      OBVIOUS
    <2>1. up'[d] = up[d] /\ down'[d] = down[d] /\ asked'[d] = asked[d] /\ link'[d] = link[d]
      BY <1>1, <1>2
    <2> QED BY <1>1, <2>1 DEF WireOK, Busy, Answered, daemon
  <1> QED BY <1>4, <1>5, <1>6, <1>7

-----------------------------------------------------------------------------
(* Connections begin and end. *)

LEMMA AcceptInv == ASSUME KpudInv, Accept PROVE KpudInv'
  <1> USE DEF KpudInv
  <1>1. /\ UNCHANGED <<phase, warmed, store, cmaLow, stop, req, wires>>
        /\ phase = "serving" /\ conn = None /\ backlog # <<>>
        /\ conn' = backlog[1] /\ backlog' = Tail(backlog) /\ at' = "head"
    BY DEF Accept
  <1>2. Len(backlog) \in Nat /\ Len(backlog) >= 1
    BY <1>1, EmptySeq DEF QueueOK
  <1>3. \A i \in 1..Len(backlog) : backlog[i] \in Clients
    BY ElementOfSeq DEF QueueOK
  <1>4. conn' \in Clients /\ link[conn'] \in {"open", "closed"}
    BY <1>1, <1>2, <1>3 DEF QueueOK
  <1>5. /\ backlog' \in Seq(Clients) /\ Len(backlog') = Len(backlog) - 1
        /\ \A i \in 1..Len(backlog') : backlog'[i] = backlog[i + 1]
    BY <1>1, <1>2, HeadTailProperties DEF QueueOK
  <1>6. QueueOK'
    <2>1. \A i \in 1..Len(backlog') : i + 1 \in 1..Len(backlog) /\ i + 1 # 1
      BY <1>2, <1>5
    <2>2. \A i \in 1..Len(backlog') :
            backlog'[i] # conn' /\ link'[backlog'[i]] \in {"open", "closed"}
      <3> SUFFICES ASSUME NEW i \in 1..Len(backlog')
                   PROVE  backlog'[i] # conn' /\ link'[backlog'[i]] \in {"open", "closed"}
        OBVIOUS
      <3>1. backlog'[i] = backlog[i + 1] /\ i + 1 \in 1..Len(backlog) /\ i + 1 # 1 /\ 1 \in 1..Len(backlog)
        BY <1>2, <1>5, <2>1
      <3>2. backlog[i + 1] # backlog[1] /\ link[backlog[i + 1]] \in {"open", "closed"}
        BY <3>1 DEF QueueOK
      <3> QED BY <1>1, <3>1, <3>2 DEF wires
    <2>3. \A i, j \in 1..Len(backlog') : backlog'[i] = backlog'[j] => i = j
      <3> SUFFICES ASSUME NEW i \in 1..Len(backlog'), NEW j \in 1..Len(backlog'),
                          backlog'[i] = backlog'[j]
                   PROVE  i = j
        OBVIOUS
      <3>1. i + 1 \in 1..Len(backlog) /\ j + 1 \in 1..Len(backlog) /\ backlog[i + 1] = backlog[j + 1]
        BY <1>5, <2>1
      <3>2. i + 1 = j + 1
        BY <3>1 DEF QueueOK
      <3> QED BY <3>2, <1>2, <1>5
    <2> QED BY <1>5, <2>2, <2>3 DEF QueueOK
  <1>7. StoreOK' /\ TurnOK' /\ TypeOK' /\ WireTypeOK'
    BY <1>1, <1>4 DEF wires, store, StoreOK, CapHolds, TurnOK, Key, TypeOK, WireTypeOK
  <1>8. \A c \in Clients : WireOK(c)'
    BY <1>1, <1>4, NoneAssumption DEF WireOK, Busy, Answered, wires
  <1> QED BY <1>6, <1>7, <1>8

\* kpud exits, and all its connections with it.
LEMMA ExitInv == ASSUME KpudInv, Leave PROVE KpudInv'
  <1> USE DEF KpudInv
  <1>1. /\ UNCHANGED <<warmed, store, cmaLow, stop, conn, at, req, down, asked>>
        /\ conn = None /\ phase' = "exited" /\ backlog' = <<>>
        /\ link' = [c \in Clients |-> IF link[c] = "open" THEN "hung"
                                      ELSE IF link[c] = "closed" THEN "off" ELSE link[c]]
        /\ up' = [c \in Clients |-> <<>>]
    BY DEF Leave
  <1>2. StoreOK' /\ TurnOK' /\ TypeOK' /\ WireTypeOK' /\ QueueOK'
    BY <1>1 DEF store, StoreOK, CapHolds, TurnOK, Key, TypeOK, WireTypeOK, QueueOK
  <1>3. ASSUME NEW c \in Clients PROVE WireOK(c)'
    <2>1. conn # c /\ link[c] \in {"off", "open", "closed", "hung"}
      BY <1>1, NoneAssumption DEF TypeOK
    <2>2. link'[c] = (IF link[c] = "open" THEN "hung"
                      ELSE IF link[c] = "closed" THEN "off" ELSE link[c]) /\ up'[c] = <<>>
      BY <1>1
    <2> QED BY <1>1, <2>1, <2>2 DEF WireOK, Busy, Answered
  <1> QED BY <1>2, <1>3

-----------------------------------------------------------------------------
(* The steps of handle_conn that read and answer. *)

\* The connection that is served: what it is from TypeOK and its wires.
LEMMA Served ==
  ASSUME KpudInv, conn # None
  PROVE  /\ conn \in Clients /\ link[conn] \in {"open", "closed"} /\ WireOK(conn)
         /\ DOMAIN up = Clients /\ DOMAIN down = Clients /\ DOMAIN link = Clients
         /\ \A i \in 1..Len(backlog) : backlog[i] \in Clients /\ backlog[i] # conn
  <1>1. conn \in Clients
    BY DEF KpudInv, TypeOK
  <1>2. WireOK(conn)
    BY <1>1 DEF KpudInv
  <1>3. \A i \in 1..Len(backlog) : backlog[i] \in Clients
    BY ElementOfSeq DEF KpudInv, QueueOK
  <1> QED BY <1>1, <1>2, <1>3 DEF KpudInv, TypeOK, WireTypeOK, WireOK, QueueOK

\* The others notice nothing.
LEMMA OthersKeep ==
  ASSUME KpudInv, NEW c \in Clients, NEW d \in Clients \ {c},
         up'[d] = up[d], down'[d] = down[d], link'[d] = link[d], asked' = asked, phase' = phase,
         conn = c, conn' \in {c, None}
  PROVE  WireOK(d)'
  <1>1. conn # d /\ conn' # d /\ WireOK(d)
    BY NoneAssumption DEF KpudInv
  <1> QED BY <1>1 DEF WireOK, Busy, Answered

LEMMA ReadHeadInv == ASSUME KpudInv, ReadHead PROVE KpudInv'
  <1> USE DEF KpudInv
  <1>1. at = "head" /\ conn # None /\ phase = "serving" /\ up[conn] # <<>>
    BY DEF ReadHead, Serving
  <1>0. PICK c \in Clients : c = conn
    BY <1>1, Served
  <1> USE <1>0
  <1>2. /\ c \in Clients /\ link[c] \in {"open", "closed"} /\ WireOK(c)
        /\ DOMAIN up = Clients /\ DOMAIN down = Clients /\ DOMAIN link = Clients
    BY <1>1, Served
  <1>3. PICK r \in Requests :
          /\ up[c] \in {<<r>>, Whole(r)}
          /\ link[c] = "open" => up[c] = Whole(r) /\ asked[c] = r
    BY <1>1, <1>2 DEF WireOK, Busy
  <1> DEFINE rest == Tail(up[c])
  <1>4. /\ up[c][1] = r /\ r.kind = "head" /\ rest \in {<<>>, Payload(r)}
        /\ link[c] = "open" => rest = Payload(r)
    BY <1>3, WholeParts, RequestFields
  <1>5. /\ req' = r /\ up' = [up EXCEPT ![c] = rest]
        /\ at' = IF Reject(r.mt) THEN "drain" ELSE "lookup"
        /\ UNCHANGED <<conn, link, down, phase, warmed, store, cmaLow, stop, backlog, asked>>
    <2>1. /\ req' = up[conn][1] /\ up' = [up EXCEPT ![conn] = Tail(@)]
          /\ at' = IF Reject(up[conn][1].mt) THEN "drain" ELSE "lookup"
          /\ UNCHANGED <<conn, link, down, phase, warmed, store, cmaLow, stop, backlog, asked>>
      BY <1>4, Zenon DEF ReadHead
    <2> QED BY <1>4, <2>1, Zenon
  <1> HIDE DEF rest
  <1>6. StoreOK' /\ TypeOK' /\ QueueOK'
    BY <1>5 DEF store, StoreOK, CapHolds, TypeOK, QueueOK
  <1>7. WireTypeOK'
    BY <1>5 DEF WireTypeOK
  <1>8. TurnOK'
    BY <1>1, <1>5 DEF TurnOK
  <1>9. WireOK(c)'
    <2>1. up'[c] = rest /\ at' \in {"drain", "lookup"} /\ conn' = c
      BY <1>2, <1>5
    <2>2. down[c] = <<>>
      BY <1>1, <1>2 DEF WireOK, Answered
    <2> QED BY <1>1, <1>2, <1>3, <1>4, <1>5, <2>1, <2>2 DEF WireOK, Busy
  <1>10. ASSUME NEW d \in Clients \ {c} PROVE WireOK(d)'
    <2>1. up'[d] = up[d]
      BY <1>5
    <2> QED BY <1>2, <1>5, <2>1, OthersKeep
  <1> QED BY <1>6, <1>7, <1>8, <1>9, <1>10

\* Who is being served has its payload on the wire if it is still there, and
\* nothing to read.
LEMMA BusyWire ==
  ASSUME KpudInv, conn # None, at # "head"
  PROVE  /\ req \in Requests /\ down[conn] = <<>>
         /\ link[conn] = "open" => asked[conn] = req
         /\ up[conn] \in {<<>>, Payload(req)} /\ (at = "run" => up[conn] = <<>>)
  <1>1. WireOK(conn) /\ Busy(conn)
    BY Served DEF Busy
  <1> QED BY <1>1 DEF KpudInv, TurnOK, WireOK, Answered

LEMMA ReadPayloadInv == ASSUME KpudInv, ReadPayload PROVE KpudInv'
  <1> USE DEF KpudInv
  <1>0. PICK c \in Clients : c = conn
    BY Served DEF ReadPayload, Serving
  <1> USE <1>0
  <1>1. /\ at = "payload" /\ conn # None /\ phase = "serving" /\ up[c] # <<>>
        /\ up' = [up EXCEPT ![c] = Without(@, req.mt * K[req.stem])]
        /\ at' = "run"
        /\ UNCHANGED <<phase, warmed, store, cmaLow, stop, backlog, conn, req, link, down, asked>>
    BY DEF ReadPayload, Serving, HasFloats, PayloadLen
  <1>2. /\ c \in Clients /\ link[c] \in {"open", "closed"}
        /\ DOMAIN up = Clients /\ DOMAIN down = Clients /\ DOMAIN link = Clients
    BY <1>1, Served
  <1>3. /\ req \in Requests /\ down[c] = <<>> /\ up[c] = Payload(req)
        /\ link[c] = "open" => asked[c] = req
    BY <1>1, BusyWire
  <1>4. Without(up[c], req.mt * K[req.stem]) = <<>>
    BY <1>1, <1>3, PayloadRead
  <1>5. up' = [up EXCEPT ![c] = <<>>]
    BY <1>1, <1>4, Zenon
  <1>6. StoreOK' /\ TypeOK' /\ QueueOK'
    BY <1>1 DEF store, StoreOK, CapHolds, TypeOK, QueueOK
  <1>7. WireTypeOK' /\ TurnOK'
    BY <1>1, <1>5 DEF WireTypeOK, TurnOK, Key, store
  <1>8. WireOK(c)'
    <2>1. up'[c] = <<>>
      BY <1>2, <1>5
    <2>2. asked[c] \in Requests \cup {NoReq} /\ (link[c] \in {"off", "closed"} => asked[c] = NoReq)
      BY <1>2 DEF WireOK
    <2> QED BY <1>1, <1>2, <1>3, <2>1, <2>2 DEF WireOK, Busy
  <1>9. ASSUME NEW d \in Clients \ {c} PROVE WireOK(d)'
    <2>1. up'[d] = up[d]
      BY <1>5
    <2> QED BY <1>1, <1>2, <2>1, OthersKeep
  <1> QED BY <1>6, <1>7, <1>8, <1>9

\* What connections, wires and queue are after a step that ends a turn.
Turned ==
  /\ QueueOK' /\ WireTypeOK' /\ (\A c \in Clients : WireOK(c)')
  /\ conn' \in Clients \cup {None}
  /\ link' \in [Clients -> {"off", "open", "closed", "hung"}]

\* The queue does not know the connection that is served.
LEMMA QueueKeeps ==
  ASSUME KpudInv, conn # None, conn' \in {conn, None}, UNCHANGED backlog,
         \A d \in Clients \ {conn} : link'[d] = link[d]
  PROVE  QueueOK'
  <1>1. \A i \in 1..Len(backlog) : backlog[i] \in Clients \ {conn}
    BY Served
  <1>2. conn' # conn => conn' = None
    OBVIOUS
  <1> QED BY <1>1, <1>2, NoneAssumption DEF KpudInv, QueueOK

\* One answer goes out where the whole request has been read.
LEMMA AnswerInv ==
  ASSUME KpudInv, conn # None, at \in {"run", "drain"}, NEW reply,
         reply.code = 0 => reply.len = req.mt * OUT[req.stem],
         Answer(reply), up' = [up EXCEPT ![conn] = <<>>], at' = "head",
         UNCHANGED <<phase, backlog, asked>>
  PROVE  Turned
  <1>0. PICK c \in Clients : c = conn
    BY Served
  <1> USE <1>0
  <1>1. /\ c \in Clients /\ link[c] \in {"open", "closed"} /\ WireOK(c)
        /\ DOMAIN up = Clients /\ DOMAIN down = Clients /\ DOMAIN link = Clients
    BY Served
  <1>2. /\ req \in Requests /\ down[c] = <<>>
        /\ link[c] = "open" => asked[c] = req
    BY BusyWire
  <1>3. up'[c] = <<>> /\ \A d \in Clients \ {c} : up'[d] = up[d]
    BY <1>1
  <1>4. CASE link[c] = "open"
    <2>1. down' = [down EXCEPT ![c] = <<reply>>] /\ conn' = c /\ link' = link
      <3>1. down' = [down EXCEPT ![c] = Append(@, reply)] /\ conn' = conn /\ link' = link
        BY <1>4 DEF Answer
      <3>2. Append(down[c], reply) = <<reply>>
        BY <1>2
      <3> QED BY <3>1, <3>2, Zenon
    <2>2. down'[c] = <<reply>> /\ \A d \in Clients \ {c} : down'[d] = down[d]
      BY <1>1, <2>1
    <2>3. Answered(c)'
      <3>1. asked[c] = req /\ req # NoReq
        BY <1>2, <1>4, RequestFields
      <3> QED BY <1>3, <1>4, <2>1, <2>2, <3>1 DEF Answered, Busy
    <2>4. WireOK(c)'
      <3>1. ~Busy(c)' /\ up'[c] = <<>> /\ link'[c] = "open" /\ phase' = "serving"
        BY <1>1, <1>3, <1>4, <2>1 DEF Busy, WireOK
      <3>2. asked'[c] \in Requests \cup {NoReq}
        BY <1>1 DEF WireOK
      <3> QED BY <2>3, <3>1, <3>2 DEF WireOK
    <2>5. ASSUME NEW d \in Clients \ {c} PROVE WireOK(d)'
      BY <1>3, <2>1, <2>2, OthersKeep
    <2>6. WireTypeOK'
      BY <2>1 DEF KpudInv, WireTypeOK
    <2>7. QueueOK'
      BY <2>1, QueueKeeps
    <2> QED BY <1>1, <2>1, <2>4, <2>5, <2>6, <2>7 DEF Turned, KpudInv, TypeOK
  <1>5. CASE link[c] # "open"
    <2>1. conn' = None /\ link' = [link EXCEPT ![c] = "off"] /\ down' = down
      BY <1>5 DEF Answer
    <2>2. link'[c] = "off" /\ \A d \in Clients \ {c} : link'[d] = link[d]
      BY <1>1, <2>1
    <2>3. WireOK(c)'
      <3>1. link[c] = "closed" /\ asked[c] = NoReq
        BY <1>1, <1>5 DEF WireOK
      <3>2. c # None
        BY NoneAssumption
      <3> QED BY <1>2, <1>3, <2>1, <2>2, <3>1, <3>2 DEF WireOK, Busy
    <2>4. ASSUME NEW d \in Clients \ {c} PROVE WireOK(d)'
      BY <1>3, <2>1, <2>2, OthersKeep
    <2>5. WireTypeOK'
      BY <2>1 DEF KpudInv, WireTypeOK
    <2>6. QueueOK'
      BY <2>1, <2>2, QueueKeeps
    <2> QED BY <1>1, <2>1, <2>3, <2>4, <2>5, <2>6 DEF Turned, KpudInv, TypeOK
  <1> QED BY <1>4, <1>5

\* A connection is hung up, with a last answer if its request is still open.
LEMMA HangUpInv ==
  ASSUME KpudInv, conn # None, NEW last,
         \/ last = <<>> /\ link[conn] = "closed" /\ up[conn] = <<>>
         \/ at = "drain" /\ \E reply : last = <<reply>> /\ reply.code # 0,
         HangUp(last), at' = "head", UNCHANGED <<phase, backlog, asked>>
  PROVE  Turned
  <1>0. PICK c \in Clients : c = conn
    BY Served
  <1> USE <1>0
  <1>1. /\ c \in Clients /\ link[c] \in {"open", "closed"} /\ WireOK(c) /\ c # None
        /\ DOMAIN up = Clients /\ DOMAIN down = Clients /\ DOMAIN link = Clients
    BY Served
  <1>2. conn' = None /\ up' = [up EXCEPT ![c] = <<>>]
    BY DEF HangUp
  <1>3. up'[c] = <<>> /\ \A d \in Clients \ {c} : up'[d] = up[d]
    BY <1>1, <1>2
  <1>4. CASE link[c] = "open"
    <2>1. PICK reply : last = <<reply>> /\ reply.code # 0
      BY <1>4
    <2>2. req \in Requests /\ down[c] = <<>> /\ asked[c] = req /\ req # NoReq
      BY <1>4, BusyWire, RequestFields
    <2>3. link' = [link EXCEPT ![c] = "hung"] /\ down' = [down EXCEPT ![c] = <<reply>>]
      <3>1. link' = [link EXCEPT ![c] = "hung"] /\ down' = [down EXCEPT ![c] = @ \o last]
        BY <1>4 DEF HangUp
      <3>2. down[c] \o last = <<reply>>
        <4>1. <<reply>> \in Seq({reply})
          OBVIOUS
        <4> QED BY <2>1, <2>2, <4>1, ConcatEmptySeq
      <3> QED BY <3>1, <3>2, Zenon
    <2>4. /\ down'[c] = <<reply>> /\ link'[c] = "hung"
          /\ \A d \in Clients \ {c} : down'[d] = down[d] /\ link'[d] = link[d]
      BY <1>1, <2>3
    <2>5. WireOK(c)'
      BY <1>1, <1>2, <1>3, <2>1, <2>2, <2>4 DEF WireOK, Answered, Busy
    <2>6. ASSUME NEW d \in Clients \ {c} PROVE WireOK(d)'
      BY <1>2, <1>3, <2>4, OthersKeep
    <2>7. WireTypeOK'
      BY <1>2, <2>3 DEF KpudInv, WireTypeOK
    <2>8. QueueOK'
      BY <1>2, <2>4, QueueKeeps
    <2> QED BY <1>1, <1>2, <2>3, <2>5, <2>6, <2>7, <2>8 DEF Turned, KpudInv, TypeOK
  <1>5. CASE link[c] # "open"
    <2>1. link' = [link EXCEPT ![c] = "off"] /\ down' = down
      BY <1>5 DEF HangUp
    <2>2. link'[c] = "off" /\ \A d \in Clients \ {c} : link'[d] = link[d]
      BY <1>1, <2>1
    <2>3. WireOK(c)'
      <3>1. asked[c] = NoReq /\ down[c] = <<>>
        BY <1>1, <1>5 DEF WireOK, Answered
      <3> QED BY <1>1, <1>2, <1>3, <2>1, <2>2, <3>1 DEF WireOK, Busy
    <2>4. ASSUME NEW d \in Clients \ {c} PROVE WireOK(d)'
      BY <1>2, <1>3, <2>1, <2>2, OthersKeep
    <2>5. WireTypeOK'
      BY <1>2, <2>1 DEF KpudInv, WireTypeOK
    <2>6. QueueOK'
      BY <1>2, <2>2, QueueKeeps
    <2> QED BY <1>1, <1>2, <2>1, <2>3, <2>4, <2>5, <2>6 DEF Turned, KpudInv, TypeOK
  <1> QED BY <1>4, <1>5

\* A row count that is not rejected fits the tile of its tier.
LEMMA TileFits ==
  ASSUME KpudInv, at = "run"
  PROVE  /\ req \in Requests /\ Key \in DOMAIN cache
         /\ req.mt \in Nat /\ req.mt <= Columns(Key[2])
  <1>1. req \in Requests /\ ~Reject(req.mt) /\ Key \in DOMAIN cache
    BY DEF KpudInv, TurnOK
  <1>2. req.mt \in Mts /\ req.mt \in Nat
    BY <1>1, RequestFields
  <1>3. req.mt <= Columns(Tier(req.mt))
    BY <1>1, <1>2, TileAssumption DEF Reject
  <1>4. Key[2] = Tier(req.mt)
    BY DEF Key
  <1> QED BY <1>1, <1>2, <1>3, <1>4

LEMMA RunInv == ASSUME KpudInv, Run PROVE KpudInv' /\ cache'[Key].used = req.mt /\ DOMAIN cache' = DOMAIN cache
  <1>1. /\ at = "run" /\ conn # None /\ at' = "head"
        /\ UNCHANGED <<phase, warmed, count, mmz, cmaLow, stop, backlog, req, up, asked>>
        /\ cache' = [cache EXCEPT ![Key] = Fold(@, req.mt)]
    BY DEF Run, Serving
  <1>2. req \in Requests /\ Key \in DOMAIN cache /\ req.mt \in Nat /\ req.mt <= Columns(Key[2])
    BY <1>1, TileFits
  <1>3. StoreOK' /\ cache'[Key].used = req.mt /\ DOMAIN cache' = DOMAIN cache
    BY <1>1, <1>2, RunStore DEF KpudInv
  <1>4. PICK ok \in RunResults :
          Answer(IF ok THEN Reply(0, req.mt * OUT[req.stem]) ELSE Reply(1, 0))
    BY DEF Run
  <1>5. Turned
    <2> DEFINE reply == IF ok THEN Reply(0, req.mt * OUT[req.stem]) ELSE Reply(1, 0)
    <2>1. reply.code = 0 => reply.len = req.mt * OUT[req.stem]
      BY DEF Reply
    <2>2. up' = [up EXCEPT ![conn] = <<>>]
      <3>1. up[conn] = <<>>
        BY <1>1, BusyWire
      <3>2. DOMAIN up = Clients /\ conn \in Clients
        BY <1>1, Served
      <3> QED BY <1>1, <3>1, <3>2 DEF KpudInv, WireTypeOK
    <2> HIDE DEF reply
    <2>3. Answer(reply)
      BY <1>4 DEF reply
    <2> QED BY <1>1, <2>1, <2>2, <2>3, AnswerInv
  <1>6. TypeOK' /\ TurnOK'
    BY <1>1, <1>3, <1>5 DEF KpudInv, TypeOK, StoreOK, TurnOK, Turned
  <1> QED BY <1>3, <1>5, <1>6 DEF KpudInv, Turned

LEMMA DrainInv == ASSUME KpudInv, Drain PROVE KpudInv'
  <1>1. /\ at = "drain" /\ conn # None /\ at' = "head" /\ up[conn] # <<>>
        /\ up' = [up EXCEPT ![conn] = Without(@, req.mt * K[req.stem])]
        /\ Answer(Reply(2, 0))
        /\ UNCHANGED <<phase, warmed, store, cmaLow, stop, backlog, req, asked>>
    BY DEF Drain, Serving, HasFloats, PayloadLen
  <1>2. up' = [up EXCEPT ![conn] = <<>>]
    <2>1. req \in Requests /\ up[conn] = Payload(req)
      BY <1>1, BusyWire
    <2>2. Without(up[conn], req.mt * K[req.stem]) = <<>>
      BY <1>1, <2>1, PayloadRead
    <2> QED BY <1>1, <2>2, Zenon
  <1>3. Turned
    <2>1. Reply(2, 0).code # 0
      BY DEF Reply
    <2> QED BY <1>1, <1>2, <2>1, AnswerInv
  <1>4. StoreOK' /\ TypeOK' /\ TurnOK'
    BY <1>1, <1>3 DEF KpudInv, store, StoreOK, CapHolds, TypeOK, TurnOK, Turned
  <1> QED BY <1>3, <1>4 DEF KpudInv, Turned

LEMMA HangUpsInv == ASSUME KpudInv, Undrainable \/ SeeClosed PROVE KpudInv'
  <1>1. /\ conn # None /\ at' = "head" /\ UNCHANGED <<phase, warmed, store, cmaLow, stop, backlog, req, asked>>
        /\ \/ at = "drain" /\ HangUp(<<Reply(2, 0)>>)
           \/ link[conn] = "closed" /\ up[conn] = <<>> /\ HangUp(<<>>)
    BY DEF Undrainable, SeeClosed, Serving
  <1>2. Reply(2, 0).code # 0
    BY DEF Reply
  <1>3. Turned
    <2>1. CASE at = "drain" /\ HangUp(<<Reply(2, 0)>>)
      <3>1. \E reply : <<Reply(2, 0)>> = <<reply>> /\ reply.code # 0
        BY <1>2
      <3> QED BY <1>1, <2>1, <3>1, HangUpInv
    <2>2. CASE link[conn] = "closed" /\ up[conn] = <<>> /\ HangUp(<<>>)
      BY <1>1, <2>2, HangUpInv
    <2> QED BY <1>1, <2>1, <2>2
  <1>4. StoreOK' /\ TypeOK' /\ TurnOK'
    BY <1>1, <1>3 DEF KpudInv, store, StoreOK, CapHolds, TypeOK, TurnOK, Turned
  <1> QED BY <1>3, <1>4 DEF KpudInv, Turned

-----------------------------------------------------------------------------
(* The theorems. *)

\* Every step keeps the invariant and what is in the cache.
LEMMA KpudNextInv ==
  ASSUME KpudInv, [Next]_vars
  PROVE  KpudInv' /\ DOMAIN cache \subseteq DOMAIN cache' /\ BuffersStay
  <1>1. CASE UNCHANGED vars
    <2>1. UNCHANGED <<phase, warmed, cache, count, mmz, cmaLow, stop, backlog, conn, at, req, link, up, down, asked>>
      BY <1>1 DEF vars, store, wires
    <2>2. TypeOK' /\ WireTypeOK' /\ StoreOK' /\ TurnOK' /\ QueueOK'
      BY <2>1 DEF KpudInv, TypeOK, WireTypeOK, StoreOK, CapHolds, TurnOK, Key, QueueOK
    <2>3. \A c \in Clients : WireOK(c)'
      BY <2>1 DEF KpudInv, WireOK, Busy, Answered
    <2> QED BY <2>1, <2>2, <2>3 DEF KpudInv, BuffersStay, BuffersAreOwned
  <1>2. CASE Daemon
    <2>1. CASE Listen \/ WarmOne \/ WarmEnds
      BY <2>1, QuietInv
    <2>2. CASE Hit \/ Refuse \/ LoadOnDemand
      BY <2>2, LookupInv
    <2>3. CASE Run
      <3>1. KpudInv' /\ DOMAIN cache' = DOMAIN cache
        BY <2>3, RunInv
      <3>2. mmz' = mmz
        BY <2>3 DEF Run
      <3> QED BY <3>1, <3>2 DEF BuffersStay, BuffersAreOwned
    <2>4. CASE Accept \/ Leave \/ ReadHead \/ ReadPayload \/ Drain \/ Undrainable \/ SeeClosed
      <3>1. KpudInv'
        BY <2>4, AcceptInv, ExitInv, ReadHeadInv, ReadPayloadInv, DrainInv, HangUpsInv
      <3>2. cache' = cache /\ mmz' = mmz
        BY <2>4 DEF Accept, Leave, ReadHead, ReadPayload, Drain, Undrainable, SeeClosed, store
      <3> QED BY <3>1, <3>2 DEF BuffersStay, BuffersAreOwned
    <2> QED BY <1>2, <2>1, <2>2, <2>3, <2>4 DEF Daemon
  <1>3. CASE \E c \in Clients : Client(c)
    <2>1. PICK c \in Clients : Client(c)
      BY <1>3
    <2>2. KpudInv'
      BY <2>1, ConnectInv, SendInv, ReceiveInv, LeaveInv DEF Client
    <2>3. cache' = cache /\ mmz' = mmz
      BY <2>1 DEF Client, Connect, Send, Receive, Close, SeeHungUp, daemon, store
    <2> QED BY <2>2, <2>3 DEF BuffersStay, BuffersAreOwned
  <1>4. CASE Terminate \/ CmaShift
    BY <1>4, QuietInv
  <1> QED BY <1>1, <1>2, <1>3, <1>4 DEF Next

\* The invariant holds in every state.
THEOREM KpudInvHolds == Spec => []KpudInv
  <1>1. Init => KpudInv
    BY KpudInitInv
  <1>2. KpudInv /\ [Next]_vars => KpudInv'
    BY KpudNextInv
  <1> QED BY <1>1, <1>2, PTL DEF Spec

\* kpud looks for a head only where one begins, and a client finds the answer to
\* its own request, of the length it will read (handle_conn, kpud.cpp:360-432).
THEOREM StreamAlwaysFramed == Spec => []StreamIsFramed
  <1>1. ASSUME KpudInv PROVE StreamIsFramed
    <2>1. ASSUME NEW c \in Clients, up[c] # <<>>, conn = c => at = "head"
          PROVE  up[c][1].kind = "head"
      <3>1. PICK r \in Requests : up[c] \in {<<r>>, Whole(r)}
        BY <1>1, <2>1 DEF KpudInv, WireOK, Busy
      <3> QED BY <3>1, WholeParts, RequestFields
    <2>2. ASSUME NEW c \in Clients, down[c] # <<>>
          PROVE  /\ asked[c] # NoReq /\ Len(down[c]) = 1
                 /\ down[c][1].code = 0 => down[c][1].len = asked[c].mt * OUT[asked[c].stem]
      <3>1. Answered(c)
        BY <1>1, <2>2 DEF KpudInv, WireOK
      <3>2. PICK reply : /\ down[c] = <<reply>>
                         /\ reply.code = 0 => reply.len = asked[c].mt * OUT[asked[c].stem]
        BY <3>1 DEF Answered
      <3> QED BY <3>1, <3>2 DEF Answered
    <2> QED BY <2>1, <2>2 DEF StreamIsFramed, InStep, AnswerFits
  <1>2. KpudInv => StreamIsFramed
    BY <1>1
  <1> QED BY <1>2, KpudInvHolds, PTL

\* No call sees what an earlier one left in its tile, and no model is evicted
\* (invoke, kpud.cpp:266-349).
THEOREM TilesAlwaysClean == Spec => TilesAreClean
  <1>1. KpudInv /\ [Next]_vars => [Run => cache'[Key].used <= req.mt]_vars
    <2> SUFFICES ASSUME KpudInv, Run PROVE cache'[Key].used <= req.mt
      OBVIOUS
    <2>1. at = "run" /\ req.mt \in Nat
      BY TileFits DEF Run, Serving
    <2> QED BY <2>1, RunInv
  <1>2. KpudInv /\ [Next]_vars => [DOMAIN cache \subseteq DOMAIN cache']_vars
    BY KpudNextInv
  <1> QED BY <1>1, <1>2, KpudInvHolds, PTL DEF Spec, TilesAreClean, TailIsZero, NothingEvicted

\* The cache holds what it counts, within the caps, and every CMA buffer has an
\* owner (load_entry, kpud.cpp:166-252), if no model on the board has an input
\* of a wrong rank, whose buffer is kept (225).
THEOREM CacheAlwaysSound == ASSUME "rank" \notin LoadResults PROVE Spec => []CacheIsSound
  <1>1. Init => KpudInv /\ BuffersAreOwned
    <2>1. Init => BuffersAreOwned
      <3>1. Init => DOMAIN cache = {} /\ mmz = 0
        BY DEF Init
      <3> QED BY <3>1, FS_EmptySet DEF BuffersAreOwned
    <2> QED BY <2>1, KpudInitInv
  <1>2. (KpudInv /\ BuffersAreOwned) /\ [Next]_vars => (KpudInv /\ BuffersAreOwned)'
    BY KpudNextInv DEF BuffersStay
  <1>3. KpudInv /\ BuffersAreOwned => CacheIsSound
    BY DEF CacheIsSound, KpudInv, StoreOK
  <1> QED BY <1>1, <1>2, <1>3, PTL DEF Spec
=============================================================================
