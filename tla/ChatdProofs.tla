---------------------------- MODULE ChatdProofs ----------------------------
(***************************************************************************)
(* The safety properties of Chatd hold for every child table, every limit, *)
(* whatever fork() returns and whatever command made the daemon; and chatd *)
(* with its watchdogs is chatd, through kills of it and resets of the board. *)
(***************************************************************************)
EXTENDS ChatdWatch, ChatdNanny, TLAPS

-----------------------------------------------------------------------------
(* Facts about the table and the delays. *)

\* The entry main is at is a name.
LEMMA CurIsName == ASSUME idx \in 1..Len(Order) PROVE Cur \in Names
  BY TableAssumption DEF Cur, Names

\* Every entry is a name.
LEMMA EntryIsName == \A i \in 1..Len(Order) : Order[i] \in Names
  <1>1. DOMAIN Order = 1..Len(Order)
    BY TableAssumption
  <1> QED BY <1>1, Zenon DEF Names

\* No two entries have the same name.
LEMMA OrderInjective ==
  ASSUME NEW i \in 1..Len(Order), NEW j \in 1..Len(Order), Order[i] = Order[j]
  PROVE  i = j
  BY TableAssumption

\* A delay is a number of ticks up to the cap.
LEMMA NextBackoffType ==
  ASSUME TypeOK, NEW c \in Names
  PROVE  NextBackoff(c) \in 0..BackoffCap
  BY LimitAssumption DEF TypeOK, NextBackoff, Least

\* The outcome of a recycle is a state of processes.
LEMMA KillLlmdType ==
  ASSUME TypeOK PROVE KillLlmd \in [Names -> {"none", "alive", "zombie"}]
  BY DEF TypeOK, KillLlmd

\* What spawn_child leaves is of the right type.
LEMMA SpawnType ==
  ASSUME TypeOK, NEW c \in Names,
         NEW procs \in [Names -> {"none", "alive", "zombie"}], SpawnFrom(c, procs)
  PROVE  /\ proc' \in [Names -> {"none", "alive", "zombie"}]
         /\ strays' \in [Names -> Nat]
         /\ said' \in [Names -> BOOLEAN]
         /\ inLog' \in [Names -> BOOLEAN]
         /\ up' \in [Names -> BOOLEAN]
  <1>1. PICK forked \in ForkOutcomes :
          IF forked
          THEN /\ proc' = [procs EXCEPT ![c] = "alive"]
               /\ strays' = StraysAfterFork(c, procs)
               /\ up' = [up EXCEPT ![c] = FALSE]
          ELSE /\ proc' = procs
               /\ strays' = StraysAfterPkill(c)
               /\ UNCHANGED up
    BY DEF SpawnFrom
  <1>2. StraysAfterPkill(c) \in [Names -> Nat]
    BY DEF TypeOK, StraysAfterPkill
  <1>3. StraysAfterFork(c, procs) \in [Names -> Nat]
    BY <1>2 DEF StraysAfterFork
  <1>4. said' \in [Names -> BOOLEAN] /\ inLog' \in [Names -> BOOLEAN]
    BY DEF TypeOK, SpawnFrom
  <1> QED BY <1>1, <1>2, <1>3, <1>4, LimitAssumption DEF TypeOK

-----------------------------------------------------------------------------
(* Type correctness. *)

LEMMA InitType == Init => TypeOK
  <1> SUFFICES ASSUME Init PROVE TypeOK
    OBVIOUS
  <1>1. shutting \in BOOLEAN
    <2>1. PICK cmd \in Commands : shutting = (cmd = "restart")
      BY Zenon DEF Init
    <2> QED BY <2>1
  <1>2. idx \in 1..Len(Order) + 1
    BY TableAssumption DEF Init
  <1>3. strays \in [Names -> Nat]
    BY DEF Init
  <1>4. 0 \in 0..BackoffCap /\ 0 \in 0..RecycleAt
    BY LimitAssumption
  <1> QED BY <1>1, <1>2, <1>3, <1>4 DEF Init, TypeOK

LEMMA NextType == TypeOK /\ [Next]_vars => TypeOK'
  <1> SUFFICES ASSUME TypeOK, [Next]_vars PROVE TypeOK'
    OBVIOUS
  <1> USE DEF table, children
  <1>1. CASE SkipDisabled
    BY <1>1, TableAssumption DEF SkipDisabled, TypeOK
  <1>2. CASE StartChild
    <2>1. idx \in 1..Len(Order) /\ proc \in [Names -> {"none", "alive", "zombie"}]
      BY <1>2, TableAssumption DEF StartChild, TypeOK
    <2>2. Cur \in Names
      BY <2>1, CurIsName
    <2> QED BY <1>2, <2>1, <2>2, SpawnType DEF StartChild, TypeOK
  <1>3. CASE AwaitEnds
    <2>1. idx \in 1..Len(Order)
      BY <1>3 DEF AwaitEnds, TypeOK
    <2>2. Cur \in Names
      BY <2>1, CurIsName
    <2>3. Ready(Cur) \in BOOLEAN
      BY Zenon DEF Ready
    <2>4. up' \in [Names -> BOOLEAN]
      <3>1. CASE Ready(Cur) = TRUE
        BY <1>3, <3>1 DEF AwaitEnds, TypeOK
      <3>2. CASE Ready(Cur) = FALSE
        BY <1>3, <3>2 DEF AwaitEnds, TypeOK
      <3> QED BY <2>3, <3>1, <3>2, Zenon
    <2>5. pc' = "start" /\ idx' = idx + 1
      BY <1>3 DEF AwaitEnds
    <2>6. UNCHANGED <<shutting, children, backoff, due, ttsFailRun, ttsDeaths>>
      BY <1>3 DEF AwaitEnds
    <2> QED BY <2>1, <2>4, <2>5, <2>6, TableAssumption DEF TypeOK
  <1>4. CASE EnterLoop
    BY <1>4, TableAssumption DEF EnterLoop, TypeOK
  <1>5. CASE Wake
    BY <1>5 DEF Wake, TypeOK
  <1>6. CASE Tick
    <2>1. ASSUME NEW c \in Names PROVE due'[c] \in {Never} \cup 0..BackoffCap
      <3>1. due[c] \in {Never} \cup 0..BackoffCap
        BY DEF TypeOK
      <3>2. due'[c] = IF due[c] > 0 THEN due[c] - 1 ELSE due[c]
        BY <1>6 DEF Tick
      <3> QED BY <3>1, <3>2, LimitAssumption DEF Never
    <2>2. due' \in [Names -> {Never} \cup 0..BackoffCap]
      BY <1>6, <2>1 DEF Tick
    <2> QED BY <1>6, <2>2 DEF Tick, TypeOK
  <1>7. ASSUME Scan PROVE TypeOK'
    <2>1. idx \in 1..Len(Order) /\ pc = "scan"
      BY <1>7 DEF Scan, Reap, SeeReady, Respawn, RespawnTts, LeaveAlone, TypeOK
    <2>2. Cur \in Names
      BY <2>1, CurIsName
    <2>3. ASSUME NextEntry
          PROVE /\ pc' \in {"start", "await", "sleep", "scan", "watch"}
                /\ idx' \in 1..Len(Order) + 1
                /\ idx' \in 1..Len(Order)
      BY <2>1, <2>3, TableAssumption DEF NextEntry
    <2>4. CASE Reap
      <3>1. NextBackoff(Cur) \in 0..BackoffCap
        BY <2>2, NextBackoffType
      <3>2. ttsDeaths' \in 0..RecycleAt
        BY <2>4, LimitAssumption DEF Reap, TypeOK, Least
      <3>3. /\ backoff' \in [Names -> 0..BackoffCap]
            /\ due' \in [Names -> {Never} \cup 0..BackoffCap]
        <4>1. /\ [backoff EXCEPT ![Cur] = NextBackoff(Cur)] \in [Names -> 0..BackoffCap]
              /\ [due EXCEPT ![Cur] = NextBackoff(Cur)] \in [Names -> {Never} \cup 0..BackoffCap]
          BY <3>1 DEF TypeOK
        <4>2. CASE shutting
          BY <2>4, <4>2 DEF Reap, TypeOK
        <4>3. CASE ~shutting
          BY <2>4, <4>1, <4>3 DEF Reap
        <4> QED BY <4>2, <4>3
      <3>4. NextEntry /\ UNCHANGED <<shutting, strays, said, inLog, ttsFailRun>>
        BY <2>4 DEF Reap
      <3>5. /\ proc' \in [Names -> {"none", "alive", "zombie"}]
            /\ up' \in [Names -> BOOLEAN]
        BY <2>4 DEF Reap, TypeOK
      <3> QED BY <2>3, <3>2, <3>3, <3>4, <3>5 DEF TypeOK
    <2>5. CASE SeeReady
      <3>0. 0 \in 0..BackoffCap /\ 0 \in 0..RecycleAt
        BY LimitAssumption
      <3>1. /\ up' \in [Names -> BOOLEAN]
            /\ backoff' \in [Names -> 0..BackoffCap]
        BY <2>5, <3>0 DEF SeeReady, TypeOK
      <3>2. ttsFailRun' \in 0..RecycleAt /\ ttsDeaths' \in 0..RecycleAt
        BY <2>5, <3>0 DEF SeeReady, TypeOK
      <3>3. NextEntry /\ UNCHANGED <<shutting, children, due>>
        BY <2>5 DEF SeeReady
      <3> QED BY <2>3, <3>1, <3>2, <3>3 DEF TypeOK
    <2>6. CASE Respawn
      <3>1. proc \in [Names -> {"none", "alive", "zombie"}]
        BY DEF TypeOK
      <3> QED BY <2>6, <2>2, <2>3, <3>1, SpawnType DEF Respawn, TypeOK
    <2>7. CASE RespawnTts
      <3>1. (IF RecycleDue THEN KillLlmd ELSE proc)
              \in [Names -> {"none", "alive", "zombie"}]
        BY KillLlmdType DEF TypeOK
      <3>2. ttsFailRun' \in 0..RecycleAt /\ ttsDeaths' \in 0..RecycleAt
        <4>1. /\ ttsFailRun' = IF RecycleDue THEN 0 ELSE ttsFailRun + 1
              /\ ttsDeaths' = IF RecycleDue THEN 0 ELSE ttsDeaths
          BY <2>7 DEF RespawnTts
        <4>2. ttsFailRun \in 0..RecycleAt /\ ttsDeaths \in 0..RecycleAt
          BY DEF TypeOK
        <4> QED BY <4>1, <4>2, LimitAssumption DEF RecycleDue
      <3>3. due' \in [Names -> {Never} \cup 0..BackoffCap]
        BY <2>7 DEF RespawnTts, TypeOK
      <3>4. SpawnFrom(Cur, IF RecycleDue THEN KillLlmd ELSE proc)
        BY <2>7 DEF RespawnTts
      <3>5. /\ proc' \in [Names -> {"none", "alive", "zombie"}]
            /\ strays' \in [Names -> Nat]
            /\ said' \in [Names -> BOOLEAN]
            /\ inLog' \in [Names -> BOOLEAN]
            /\ up' \in [Names -> BOOLEAN]
        BY <2>2, <3>1, <3>4, SpawnType
      <3>6. NextEntry /\ UNCHANGED <<shutting, backoff>>
        BY <2>7 DEF RespawnTts
      <3> QED BY <2>3, <3>2, <3>3, <3>5, <3>6 DEF TypeOK
    <2>8. CASE LeaveAlone
      BY <2>8, <2>3 DEF LeaveAlone, TypeOK
    <2> QED BY <1>7, <2>4, <2>5, <2>6, <2>7, <2>8 DEF Scan
  <1>8. CASE EndPass
    BY <1>8 DEF EndPass, TypeOK
  <1>9. CASE Child
    <2> USE DEF chatdState
    <2>1. ASSUME NEW c \in Names, PrintReady(c) PROVE TypeOK'
      BY <2>1 DEF PrintReady, TypeOK
    <2>2. ASSUME NEW c \in Names, Exit(c) PROVE TypeOK'
      BY <2>2 DEF Exit, TypeOK
    <2>3. CASE Detach
      BY <2>3 DEF Detach, TypeOK
    <2>4. CASE StrayPrints
      <3>1. [said EXCEPT !["tts"] = @ \/ proc["tts"] # "alive"] \in [Names -> BOOLEAN]
        BY DEF TypeOK
      <3> QED BY <2>4, <3>1 DEF StrayPrints, TypeOK
    <2>5. CASE StrayExit
      BY <2>5 DEF StrayExit, TypeOK
    <2> QED BY <1>9, <2>1, <2>2, <2>3, <2>4, <2>5 DEF Child
  <1>10. CASE UNCHANGED vars
    BY <1>10 DEF vars, TypeOK
  <1> QED
    BY <1>1, <1>2, <1>3, <1>4, <1>5, <1>6, <1>7, <1>8, <1>9, <1>10 DEF Next, Boot

\* Every state of chatd is well formed: the delays never pass their cap, the
\* scan never leaves the table, the run of failures never passes its limit.
THEOREM ChatdTypeOK == Spec => []TypeOK
  BY InitType, NextType, PTL DEF Spec

-----------------------------------------------------------------------------
(* The inductive invariant. *)

\* main has called spawn_child for the i-th entry, or skipped it.
Reached(i) == ~Starting \/ i < idx \/ (i = idx /\ pc = "await")

\* Nothing is known of an entry main has not reached.
Unborn ==
  \A i \in 1..Len(Order) :
    ~Reached(i) => proc[Order[i]] = "none" /\ ~up[Order[i]]

\* Nothing is reaped, hence nothing scheduled, before the loop.
NoDelayYet == Starting => \A c \in Names : backoff[c] = 0 /\ due[c] = Never

\* A child left behind is the only one of its kind: the one it belonged to is
\* dead, and no other is started beside it.
OneLife ==
  \A c \in Names : strays[c] <= 1 /\ (strays[c] > 0 => c = "tts" /\ proc[c] # "alive")

\* What is not enabled never runs.
OnlyEnabled == \A c \in Names : c \notin Enabled => proc[c] = "none"

\* A child that waits for its restart is not up.
WaitingIsDown == \A c \in Names : proc[c] = "none" /\ due[c] # Never => ~up[c]

\* From the first start on, a READY in the log is one of the present round.
LogIsFresh ==
  \A i \in 1..Len(Order) :
    Reached(i) /\ Order[i] \in Enabled /\ inLog[Order[i]] => said[Order[i]]

\* main waits only for what it has started.
AwaitedIsEnabled == pc = "await" => Cur \in Enabled

IInv == /\ TypeOK /\ Unborn /\ NoDelayYet /\ OneLife /\ OnlyEnabled
        /\ WaitingIsDown /\ LogIsFresh /\ AwaitedIsEnabled
        /\ ReadyIsFresh /\ UpHasNoBackoff

\* A spawn seen entry by entry.
SpawnedAt(c) ==
  \A d \in Names :
    /\ strays'[d] = IF d = c /\ c = "tts" THEN 0 ELSE strays[d]
    /\ inLog'[d] <=> (d # c /\ inLog[d])
    /\ said'[d] <=> (d # c /\ said[d])
    /\ d # c => /\ up'[d] <=> up[d]
                /\ proc'[d] = proc[d] \/ (proc[d] = "alive" /\ proc'[d] = "zombie")
    /\ d = c => \/ proc'[d] = "alive" /\ ~up'[d]
                \/ proc'[d] = "none" /\ (up'[d] <=> up[d])

LEMMA SpawnEffect ==
  ASSUME TypeOK, NEW c \in Names,
         NEW procs \in [Names -> {"none", "alive", "zombie"}],
         procs[c] = "none",
         \A d \in Names : procs[d] = proc[d] \/ (proc[d] = "alive" /\ procs[d] = "zombie"),
         SpawnFrom(c, procs)
  PROVE  SpawnedAt(c)
  <1>1. PICK forked \in ForkOutcomes :
          IF forked
          THEN /\ proc' = [procs EXCEPT ![c] = "alive"]
               /\ strays' = StraysAfterFork(c, procs)
               /\ up' = [up EXCEPT ![c] = FALSE]
          ELSE /\ proc' = procs
               /\ strays' = StraysAfterPkill(c)
               /\ UNCHANGED up
    BY DEF SpawnFrom
  <1>2. StraysAfterFork(c, procs) = StraysAfterPkill(c)
    BY DEF StraysAfterFork
  <1>3. strays' = StraysAfterPkill(c)
    BY <1>1, <1>2
  <1>4. \A d \in Names : strays'[d] = IF d = c /\ c = "tts" THEN 0 ELSE strays[d]
    BY <1>3 DEF StraysAfterPkill, TypeOK
  <1>5. \A d \in Names : /\ inLog'[d] <=> (d # c /\ inLog[d])
                         /\ said'[d] <=> (d # c /\ said[d])
    BY DEF SpawnFrom, TypeOK
  <1>6. CASE forked
    BY <1>1, <1>4, <1>5, <1>6 DEF TypeOK, SpawnedAt
  <1>7. CASE ~forked
    BY <1>1, <1>4, <1>5, <1>7 DEF TypeOK, SpawnedAt
  <1> QED BY <1>6, <1>7

LEMMA SpawnIsClean ==
  ASSUME TypeOK, Unborn, Spawning
  PROVE  /\ idx \in 1..Len(Order) /\ Cur = Order[idx] /\ Cur \in Names
         /\ Cur \in Enabled /\ proc[Cur] = "none" /\ SpawnedAt(Cur)
  <1>1. idx \in 1..Len(Order)
    BY TableAssumption DEF Spawning, StartChild, Respawn, RespawnTts, TypeOK
  <1>2. Cur \in Names /\ Cur = Order[idx]
    BY <1>1, CurIsName DEF Cur
  <1>3. Cur \in Enabled /\ proc[Cur] = "none"
    <2>1. CASE StartChild
      BY <1>1, <1>2, <2>1 DEF StartChild, Unborn, Reached, Starting, TypeOK
    <2>2. CASE Respawn \/ RespawnTts
      BY <2>2 DEF Respawn, RespawnTts, MustRespawn
    <2> QED BY <2>1, <2>2 DEF Spawning
  <1>4. proc \in [Names -> {"none", "alive", "zombie"}]
    BY DEF TypeOK
  <1>5. CASE StartChild \/ Respawn
    BY <1>2, <1>3, <1>4, <1>5, SpawnEffect, <1>1 DEF StartChild, Respawn
  <1>6. CASE RespawnTts
    <2> DEFINE procs == IF RecycleDue THEN KillLlmd ELSE proc
    <2>1. procs \in [Names -> {"none", "alive", "zombie"}]
      BY <1>4, KillLlmdType
    <2>2. \A d \in Names :
            procs[d] = proc[d] \/ (proc[d] = "alive" /\ procs[d] = "zombie")
      BY DEF KillLlmd
    <2>3. procs[Cur] = "none"
      BY <1>2, <1>3, <2>2
    <2>4. SpawnFrom(Cur, procs)
      BY <1>6 DEF RespawnTts
    <2> HIDE DEF procs
    <2> QED BY <1>1, <1>2, <1>3, <2>1, <2>2, <2>3, <2>4, SpawnEffect
  <1> QED BY <1>5, <1>6 DEF Spawning

-----------------------------------------------------------------------------
(* The steps of main before the loop. *)

LEMMA SkipStep == ASSUME IInv, TypeOK', SkipDisabled PROVE IInv'
  <1> USE DEF IInv, SkipDisabled, table, children
  <1>1. idx \in 1..Len(Order) /\ pc = "start" /\ pc' = "start" /\ idx' = idx + 1
    BY TableAssumption DEF TypeOK
  <1>2. Unborn'
    BY <1>1 DEF Unborn, Reached, Starting
  <1>3. NoDelayYet'
    BY <1>1 DEF NoDelayYet, Starting
  <1>4. LogIsFresh'
    BY <1>1 DEF LogIsFresh, Reached, Starting, Cur
  <1>5. /\ OneLife' /\ OnlyEnabled' /\ WaitingIsDown' /\ ReadyIsFresh' /\ UpHasNoBackoff'
        /\ AwaitedIsEnabled'
    BY <1>1 DEF OneLife, OnlyEnabled, WaitingIsDown, ReadyIsFresh, UpHasNoBackoff,
                AwaitedIsEnabled
  <1> QED BY <1>2, <1>3, <1>4, <1>5

LEMMA SpawnStep == ASSUME IInv, TypeOK', Spawning PROVE IInv'
  <1>1. /\ idx \in 1..Len(Order) /\ Cur = Order[idx] /\ Cur \in Names
        /\ Cur \in Enabled /\ proc[Cur] = "none" /\ SpawnedAt(Cur)
    BY SpawnIsClean DEF IInv
  <1>2. \/ pc = "start" /\ pc' = "await" /\ idx' = idx /\ UNCHANGED <<backoff, due>>
        \/ /\ pc = "scan" /\ pc' \in {"scan", "watch"} /\ UNCHANGED backoff
           /\ due[Cur] # Never /\ due' = [due EXCEPT ![Cur] = Never]
    BY DEF Spawning, StartChild, Respawn, RespawnTts, MustRespawn, NextEntry, Never
  <1>3. \A i \in 1..Len(Order) : Order[i] \in Names /\ (Order[i] = Cur => i = idx)
    BY <1>1, OrderInjective, EntryIsName
  <1>4. ~up[Cur]
    <2>1. CASE pc = "start"
      BY <1>1, <2>1 DEF IInv, Unborn, Reached, Starting, TypeOK
    <2>2. CASE due[Cur] # Never
      BY <1>1, <2>2 DEF IInv, WaitingIsDown
    <2> QED BY <1>2, <2>1, <2>2
  <1>5. Unborn'
    <2>1. CASE pc = "start"
      <3> SUFFICES ASSUME NEW i \in 1..Len(Order), ~Reached(i)'
                   PROVE  (proc[Order[i]] = "none" /\ ~up[Order[i]])'
        BY DEF Unborn
      <3>1. i > idx /\ ~Reached(i)
        BY <1>1, <1>2, <2>1 DEF Reached, Starting
      <3>2. Order[i] # Cur /\ proc[Order[i]] = "none" /\ ~up[Order[i]]
        BY <1>1, <1>3, <3>1 DEF IInv, Unborn
      <3> QED BY <1>1, <1>3, <3>2 DEF SpawnedAt
    <2>2. CASE pc = "scan"
      BY <1>2, <2>2 DEF Unborn, Reached, Starting
    <2> QED BY <1>2, <2>1, <2>2
  <1>6. NoDelayYet'
    BY <1>2 DEF IInv, NoDelayYet, Starting
  <1>7. OneLife'
    <2> SUFFICES ASSUME NEW c \in Names
                 PROVE  strays'[c] <= 1 /\ (strays'[c] > 0 => c = "tts" /\ proc'[c] # "alive")
      BY DEF OneLife
    <2>1. strays[c] \in Nat /\ strays[c] <= 1
          /\ (strays[c] > 0 => c = "tts" /\ proc[c] # "alive")
      BY DEF IInv, OneLife, TypeOK
    <2>2. CASE c = Cur
      BY <1>1, <2>1, <2>2 DEF SpawnedAt
    <2>3. CASE c # Cur
      BY <1>1, <2>1, <2>3 DEF SpawnedAt
    <2> QED BY <2>2, <2>3
  <1>8. OnlyEnabled'
    BY <1>1 DEF IInv, OnlyEnabled, SpawnedAt
  <1>9. WaitingIsDown'
    <2> SUFFICES ASSUME NEW c \in Names, proc'[c] = "none", due'[c] # Never
                 PROVE  ~up'[c]
      BY DEF WaitingIsDown
    <2>1. CASE c = Cur
      BY <1>1, <1>4, <2>1 DEF SpawnedAt
    <2>2. CASE c # Cur
      <3>1. proc[c] = "none" /\ (up'[c] <=> up[c])
        BY <1>1, <2>2 DEF SpawnedAt
      <3>2. due'[c] = due[c]
        BY <1>2, <2>2 DEF IInv, TypeOK
      <3> QED BY <3>1, <3>2 DEF IInv, WaitingIsDown
    <2> QED BY <2>1, <2>2
  <1>10. LogIsFresh'
    <2> SUFFICES ASSUME NEW i \in 1..Len(Order), Reached(i)', Order[i] \in Enabled,
                        inLog'[Order[i]]
                 PROVE  said'[Order[i]]
      BY DEF LogIsFresh
    <2>1. Order[i] # Cur /\ i # idx /\ inLog[Order[i]]
      BY <1>1, <1>3 DEF SpawnedAt
    <2>2. Reached(i)
      BY <1>1, <1>2, <2>1 DEF Reached, Starting
    <2>3. said[Order[i]]
      BY <2>1, <2>2 DEF IInv, LogIsFresh
    <2> QED BY <1>1, <1>3, <2>1, <2>3 DEF SpawnedAt
  <1>11. ReadyIsFresh'
    BY <1>1, <1>4 DEF IInv, ReadyIsFresh, SpawnedAt, Gated
  <1>12. UpHasNoBackoff'
    <2>1. UNCHANGED backoff
      BY <1>2
    <2> QED BY <1>1, <1>4, <2>1 DEF IInv, UpHasNoBackoff, SpawnedAt
  <1>13. AwaitedIsEnabled'
    BY <1>1, <1>2 DEF AwaitedIsEnabled, Cur
  <1> QED BY <1>5, <1>6, <1>7, <1>8, <1>9, <1>10, <1>11, <1>12, <1>13 DEF IInv

LEMMA AwaitStep == ASSUME IInv, TypeOK', AwaitEnds PROVE IInv'
  <1>1. /\ idx \in 1..Len(Order) /\ pc = "await" /\ pc' = "start" /\ idx' = idx + 1
        /\ Cur = Order[idx] /\ Cur \in Names
        /\ up' = [up EXCEPT ![Cur] = Ready(Cur)]
        /\ UNCHANGED <<children, backoff, due>>
    BY CurIsName DEF IInv, TypeOK, AwaitEnds, Cur
  <1>2. \A i \in 1..Len(Order) : Order[i] \in Names /\ (Order[i] = Cur => i = idx)
    BY <1>1, OrderInjective, EntryIsName
  <1>3. \A c \in Names : c # Cur => (up'[c] <=> up[c])
    BY <1>1 DEF IInv, TypeOK
  <1>4. \A c \in Names : backoff[c] = 0 /\ due[c] = Never
    BY <1>1 DEF IInv, NoDelayYet, Starting
  <1>5. Unborn'
    <2> SUFFICES ASSUME NEW i \in 1..Len(Order), ~Reached(i)'
                 PROVE  (proc[Order[i]] = "none" /\ ~up[Order[i]])'
      BY DEF Unborn
    <2>1. i > idx /\ ~Reached(i)
      BY <1>1 DEF Reached, Starting
    <2> QED BY <1>1, <1>2, <1>3, <2>1 DEF IInv, Unborn, children
  <1>6. NoDelayYet' /\ WaitingIsDown' /\ UpHasNoBackoff'
    BY <1>1, <1>4 DEF NoDelayYet, WaitingIsDown, UpHasNoBackoff
  <1>7. OneLife' /\ OnlyEnabled'
    BY <1>1 DEF IInv, OneLife, OnlyEnabled, children
  <1>8. LogIsFresh'
    BY <1>1 DEF IInv, LogIsFresh, Reached, Starting, children
  <1>9. ReadyIsFresh'
    <2> SUFFICES ASSUME NEW c \in Gated, up'[c] PROVE said'[c]
      BY DEF ReadyIsFresh
    <2>1. CASE c # Cur
      BY <1>1, <1>3, <2>1 DEF IInv, ReadyIsFresh, Gated, children
    <2>2. CASE c = Cur
      <3>1. inLog[c]
        BY <1>1, <2>2 DEF Ready, IInv, TypeOK
      <3>2. Cur \in Enabled
        BY <1>1 DEF IInv, AwaitedIsEnabled
      <3> QED BY <1>1, <2>2, <3>1, <3>2 DEF IInv, LogIsFresh, Reached, children
    <2> QED BY <2>1, <2>2
  <1>10. AwaitedIsEnabled'
    BY <1>1 DEF AwaitedIsEnabled
  <1> QED BY <1>5, <1>6, <1>7, <1>8, <1>9, <1>10 DEF IInv

LEMMA EnterStep == ASSUME IInv, TypeOK', EnterLoop PROVE IInv'
  <1> USE DEF IInv, EnterLoop, table, children
  <1>1. idx = Len(Order) + 1 /\ pc = "start" /\ pc' = "sleep"
    BY TableAssumption DEF TypeOK
  <1>2. Unborn' /\ NoDelayYet' /\ AwaitedIsEnabled'
    BY <1>1 DEF Unborn, Reached, Starting, NoDelayYet, AwaitedIsEnabled
  <1>3. LogIsFresh'
    BY <1>1, TableAssumption DEF LogIsFresh, Reached
  <1>4. OneLife' /\ OnlyEnabled' /\ WaitingIsDown' /\ ReadyIsFresh' /\ UpHasNoBackoff'
    BY DEF OneLife, OnlyEnabled, WaitingIsDown, ReadyIsFresh, UpHasNoBackoff
  <1> QED BY <1>2, <1>3, <1>4

-----------------------------------------------------------------------------
(* The steps of the loop. *)

\* In the loop every entry has been reached and nothing is awaited.
LEMMA InLoop ==
  ASSUME pc \in {"sleep", "scan", "watch"}, pc' \in {"sleep", "scan", "watch"}
  PROVE  /\ Unborn' /\ NoDelayYet' /\ AwaitedIsEnabled'
         /\ \A i \in 1..Len(Order) : Reached(i)
  BY DEF Unborn, NoDelayYet, AwaitedIsEnabled, Reached, Starting

\* Wake, EndPass, LeaveAlone and Tick leave the children and what is known of
\* them alone; only the clock of Tick moves.
LEMMA QuietStep ==
  ASSUME IInv, TypeOK', Wake \/ EndPass \/ LeaveAlone \/ Tick PROVE IInv'
  <1>1. pc \in {"sleep", "scan", "watch"} /\ pc' \in {"sleep", "scan", "watch"}
    BY DEF Wake, EndPass, LeaveAlone, Tick, NextEntry
  <1>2. UNCHANGED <<children, up, backoff>>
    BY DEF Wake, EndPass, LeaveAlone, Tick, table, children
  <1>3. \A c \in Names : due'[c] # Never => due[c] # Never
    <2>1. CASE Tick
      BY <2>1 DEF Tick, Never
    <2>2. CASE Wake \/ EndPass \/ LeaveAlone
      BY <2>2 DEF Wake, EndPass, LeaveAlone, table
    <2> QED BY <2>1, <2>2
  <1>4. OneLife' /\ OnlyEnabled' /\ LogIsFresh' /\ ReadyIsFresh' /\ UpHasNoBackoff'
    BY <1>1, <1>2, InLoop
       DEF IInv, OneLife, OnlyEnabled, LogIsFresh, ReadyIsFresh, UpHasNoBackoff, children
  <1>5. WaitingIsDown'
    BY <1>2, <1>3 DEF IInv, WaitingIsDown, children
  <1> QED BY <1>1, <1>4, <1>5, InLoop DEF IInv

LEMMA ReapStep == ASSUME IInv, TypeOK', Reap PROVE IInv'
  <1>1. /\ pc = "scan" /\ pc' \in {"scan", "watch"} /\ proc[Cur] = "zombie"
        /\ proc' = [proc EXCEPT ![Cur] = "none"] /\ up' = [up EXCEPT ![Cur] = FALSE]
        /\ UNCHANGED <<strays, said, inLog>>
    BY DEF Reap, NextEntry
  <1>2. \A c \in Names : c # Cur => backoff'[c] = backoff[c] /\ due'[c] = due[c]
    BY DEF Reap, IInv, TypeOK
  <1>3. \A c \in Names : /\ c = Cur => proc'[c] = "none" /\ ~up'[c]
                         /\ c # Cur => proc'[c] = proc[c] /\ (up'[c] <=> up[c])
    BY <1>1 DEF IInv, TypeOK
  <1>4. OneLife' /\ OnlyEnabled'
    BY <1>1, <1>3 DEF IInv, OneLife, OnlyEnabled
  <1>5. LogIsFresh' /\ ReadyIsFresh'
    BY <1>1, <1>3, InLoop DEF IInv, LogIsFresh, ReadyIsFresh, Gated
  <1>6. WaitingIsDown' /\ UpHasNoBackoff'
    BY <1>2, <1>3 DEF IInv, WaitingIsDown, UpHasNoBackoff
  <1> QED BY <1>1, <1>4, <1>5, <1>6, InLoop DEF IInv

LEMMA ReadyStep == ASSUME IInv, TypeOK', SeeReady PROVE IInv'
  <1>1. /\ pc = "scan" /\ pc' \in {"scan", "watch"}
        /\ NewlyReady(Cur)
        /\ up' = [up EXCEPT ![Cur] = TRUE] /\ backoff' = [backoff EXCEPT ![Cur] = 0]
        /\ UNCHANGED <<children, due>>
    BY DEF SeeReady, NextEntry
  <1>2. Cur \in Names /\ Cur \in Enabled /\ said[Cur]
    <2>1. idx \in 1..Len(Order) /\ Cur = Order[idx]
      BY <1>1 DEF IInv, TypeOK, Cur
    <2>2. Cur \in Names /\ Cur \in Enabled
      BY <1>1, <2>1, CurIsName DEF NewlyReady, IInv, OnlyEnabled
    <2> QED BY <1>1, <2>1, <2>2, InLoop DEF NewlyReady, IInv, LogIsFresh
  <1>3. \A c \in Names : c # Cur => (up'[c] <=> up[c]) /\ backoff'[c] = backoff[c]
    BY <1>1 DEF IInv, TypeOK
  <1>4. backoff'[Cur] = 0
    BY <1>1, <1>2 DEF IInv, TypeOK
  <1>5. OneLife' /\ OnlyEnabled' /\ LogIsFresh'
    BY <1>1, InLoop DEF IInv, OneLife, OnlyEnabled, LogIsFresh, children
  <1>6. ReadyIsFresh' /\ UpHasNoBackoff'
    BY <1>1, <1>2, <1>3, <1>4 DEF IInv, ReadyIsFresh, UpHasNoBackoff, children, Gated
  <1>7. WaitingIsDown'
    BY <1>1, <1>3 DEF IInv, WaitingIsDown, NewlyReady, children
  <1> QED BY <1>1, <1>5, <1>6, <1>7, InLoop DEF IInv

-----------------------------------------------------------------------------
(* The steps of the children. *)

LEMMA ChildStep == ASSUME IInv, TypeOK', Child PROVE IInv'
  <1> USE DEF chatdState, table
  <1>1. UNCHANGED <<pc, idx, up, backoff, due>>
    BY DEF Child, PrintReady, Exit, Detach, StrayPrints, StrayExit
  <1>2. \A i : Reached(i)' <=> Reached(i)
    BY <1>1 DEF Reached, Starting
  <1>3. \A c \in Names : proc'[c] = proc[c] \/ (proc[c] = "alive" /\ proc'[c] = "zombie")
    BY DEF Child, PrintReady, Exit, Detach, StrayPrints, StrayExit, IInv, TypeOK
  <1>4. \A c \in Names : /\ said[c] => said'[c]
                         /\ inLog'[c] => inLog[c] \/ said'[c]
    BY DEF Child, PrintReady, Exit, Detach, StrayPrints, StrayExit, IInv, TypeOK, OneLife
  <1>5. \A c \in Names : /\ strays'[c] <= 1
                         /\ strays'[c] > 0 => c = "tts" /\ proc'[c] # "alive"
    BY DEF Child, PrintReady, Exit, Detach, StrayPrints, StrayExit, IInv, TypeOK, OneLife
  <1>6. \A i \in 1..Len(Order) : Order[i] \in Names
    BY EntryIsName
  <1>7. Unborn' /\ LogIsFresh'
    BY <1>1, <1>2, <1>3, <1>4, <1>6 DEF IInv, Unborn, LogIsFresh
  <1>8. NoDelayYet' /\ UpHasNoBackoff' /\ AwaitedIsEnabled'
    BY <1>1 DEF IInv, NoDelayYet, UpHasNoBackoff, AwaitedIsEnabled, Starting, Cur
  <1>9. OneLife'
    BY <1>5 DEF OneLife
  <1>10. OnlyEnabled' /\ WaitingIsDown' /\ ReadyIsFresh'
    BY <1>1, <1>3, <1>4 DEF IInv, OnlyEnabled, WaitingIsDown, ReadyIsFresh, Gated
  <1> QED BY <1>7, <1>8, <1>9, <1>10 DEF IInv

-----------------------------------------------------------------------------
LEMMA InitIInv == Init => IInv
  <1> SUFFICES ASSUME Init PROVE IInv
    OBVIOUS
  <1>1. TypeOK
    BY InitType
  <1>2. \A i \in 1..Len(Order) : Order[i] \in Names
    BY EntryIsName
  <1>3. Unborn /\ NoDelayYet /\ OnlyEnabled /\ WaitingIsDown
    BY <1>2 DEF Init, Unborn, NoDelayYet, OnlyEnabled, WaitingIsDown
  <1>4. OneLife
    BY DEF Init, OneLife
  <1>5. LogIsFresh /\ AwaitedIsEnabled
    BY DEF Init, LogIsFresh, Reached, Starting, AwaitedIsEnabled
  <1>6. ReadyIsFresh /\ UpHasNoBackoff
    BY DEF Init, ReadyIsFresh, UpHasNoBackoff, Gated
  <1> QED BY <1>1, <1>3, <1>4, <1>5, <1>6 DEF IInv

LEMMA NextIInv == IInv /\ [Next]_vars => IInv'
  <1> SUFFICES ASSUME IInv, [Next]_vars PROVE IInv'
    OBVIOUS
  <1>1. TypeOK'
    BY NextType DEF IInv
  <1>2. CASE SkipDisabled
    BY <1>1, <1>2, SkipStep
  <1>3. CASE Spawning
    BY <1>1, <1>3, SpawnStep
  <1>4. CASE AwaitEnds
    BY <1>1, <1>4, AwaitStep
  <1>5. CASE EnterLoop
    BY <1>1, <1>5, EnterStep
  <1>6. CASE Wake \/ EndPass \/ LeaveAlone \/ Tick
    BY <1>1, <1>6, QuietStep
  <1>7. CASE Reap
    BY <1>1, <1>7, ReapStep
  <1>8. CASE SeeReady
    BY <1>1, <1>8, ReadyStep
  <1>9. CASE Child
    BY <1>1, <1>9, ChildStep
  <1>10. CASE UNCHANGED vars
    BY <1>10 DEF vars, table, children, IInv, TypeOK, Unborn, NoDelayYet, OneLife,
                 OnlyEnabled, WaitingIsDown, LogIsFresh, AwaitedIsEnabled, ReadyIsFresh,
                 UpHasNoBackoff, Reached, Starting, Cur
  <1> QED
    BY <1>2, <1>3, <1>4, <1>5, <1>6, <1>7, <1>8, <1>9, <1>10
       DEF Next, Boot, Scan, Spawning

LEMMA Invariance == Spec => []IInv
  BY InitIInv, NextIInv, PTL DEF Spec

\* No child runs twice: not beside the runner an earlier round or an earlier
\* chatd left behind, whatever dies when.
THEOREM ChatdAtMostOneInstance == Spec => []AtMostOneInstance
  <1>1. IInv => AtMostOneInstance
    BY DEF IInv, TypeOK, OneLife, AtMostOneInstance, Live
  <1> QED BY <1>1, Invariance, PTL

\* A child counts as up only on a READY of its present round.
THEOREM ChatdReadyIsFresh == Spec => []ReadyIsFresh
  BY Invariance, PTL DEF IInv

\* Only a death makes a delay longer, and the delay of tts has its own cap.
LEMMA QuickStep ==
  ASSUME TypeOK, TtsIsQuick, [Next]_vars, "tts" \in Names
  PROVE  backoff'["tts"] <= TtsCap /\ due'["tts"] <= TtsCap
  <1>1. /\ TtsCap \in Nat \ {0} /\ backoff["tts"] \in Nat /\ due["tts"] \in Int
        /\ backoff["tts"] <= TtsCap /\ due["tts"] <= TtsCap
        /\ backoff \in [Names -> 0..BackoffCap] /\ due \in [Names -> {Never} \cup 0..BackoffCap]
    BY LimitAssumption DEF TypeOK, TtsIsQuick, Never
  <1>2. CASE UNCHANGED <<backoff, due>>
    BY <1>1, <1>2
  <1>3. CASE Tick
    <2>1. due'["tts"] = (IF due["tts"] > 0 THEN due["tts"] - 1 ELSE due["tts"]) /\ UNCHANGED backoff
      BY <1>3 DEF Tick
    <2> QED BY <1>1, <2>1
  <1>4. CASE Reap
    <2>1. \/ UNCHANGED <<backoff, due>>
          \/ /\ backoff' = [backoff EXCEPT ![Cur] = NextBackoff(Cur)]
             /\ due' = [due EXCEPT ![Cur] = NextBackoff(Cur)]
      BY <1>4 DEF Reap
    <2>2. NextBackoff("tts") <= TtsCap
      BY <1>1, LimitAssumption DEF NextBackoff, Least
    <2>3. CASE Cur = "tts"
      BY <1>1, <2>1, <2>2, <2>3
    <2>4. CASE Cur # "tts"
      BY <1>1, <2>1, <2>4
    <2> QED BY <2>3, <2>4
  <1>5. CASE SeeReady
    BY <1>1, <1>5 DEF SeeReady
  <1>6. CASE Respawn \/ RespawnTts
    <2>1. due' = [due EXCEPT ![Cur] = Never] /\ UNCHANGED backoff
      BY <1>6 DEF Respawn, RespawnTts
    <2> QED BY <1>1, <2>1 DEF Never
  <1>7. CASE Boot \/ Wake \/ LeaveAlone \/ EndPass \/ Child \/ UNCHANGED vars
    <2>1. UNCHANGED <<backoff, due>>
      BY <1>7 DEF Boot, SkipDisabled, StartChild, AwaitEnds, EnterLoop, Wake, LeaveAlone, EndPass,
                  Child, PrintReady, Exit, Detach, StrayPrints, StrayExit, chatdState, table, vars
    <2> QED BY <1>2, <2>1
  <1> QED BY <1>3, <1>4, <1>5, <1>6, <1>7 DEF Next, Scan

\* A child that is up starts its next crash with the first delay, and tts never
\* waits longer than its own cap.
THEOREM ChatdBackoffIsRight == Spec => []BackoffIsRight
  <1>1. Init => TtsIsQuick
    BY LimitAssumption DEF Init, TtsIsQuick, Never
  <1>2. TypeOK /\ TtsIsQuick /\ [Next]_vars => TtsIsQuick'
    BY QuickStep DEF TtsIsQuick
  <1>3. Spec => []TtsIsQuick
    BY <1>1, <1>2, ChatdTypeOK, PTL DEF Spec
  <1>4. IInv /\ TtsIsQuick => BackoffIsRight
    BY DEF IInv, BackoffIsRight
  <1> QED BY <1>3, <1>4, Invariance, PTL

-----------------------------------------------------------------------------
(* The recycle of llmd. *)

\* The run of failures that chatd counts never runs ahead of the deaths there
\* really were, and a tts that waits for its restart has died once more.
DeathsCover ==
  "tts" \in Names =>
    /\ ttsFailRun < RecycleAt
    /\ ttsFailRun <= ttsDeaths
    /\ proc["tts"] = "none" /\ due["tts"] # Never => ttsFailRun < ttsDeaths

LEMMA InitDeathsCover == Init => DeathsCover
  BY LimitAssumption DEF Init, DeathsCover

LEMMA NextDeathsCover == IInv /\ DeathsCover /\ [Next]_vars => DeathsCover'
  <1> SUFFICES ASSUME IInv, DeathsCover, [Next]_vars, "tts" \in Names PROVE DeathsCover'
    BY DEF DeathsCover
  <1>1. /\ ttsFailRun \in Nat /\ ttsDeaths \in Nat /\ RecycleAt \in Nat \ {0}
        /\ ttsFailRun < RecycleAt /\ ttsFailRun <= ttsDeaths
        /\ proc["tts"] = "none" /\ due["tts"] # Never => ttsFailRun < ttsDeaths
    BY LimitAssumption DEF IInv, TypeOK, DeathsCover
  <1>2. CASE StartChild \/ Respawn
    <2>1. UNCHANGED <<ttsFailRun, ttsDeaths>> /\ Spawning
      BY <1>2 DEF StartChild, Respawn, Spawning
    <2>2. Cur \in Names /\ SpawnedAt(Cur)
      BY <2>1, SpawnIsClean DEF IInv
    <2>3. CASE StartChild
      <3>1. due'["tts"] = Never
        BY <2>3 DEF StartChild, IInv, NoDelayYet, Starting
      <3> QED BY <1>1, <2>1, <3>1 DEF DeathsCover
    <2>4. CASE Respawn
      <3>1. Cur # "tts" /\ due'["tts"] = due["tts"]
        BY <2>4 DEF Respawn, IInv, TypeOK
      <3>2. proc'["tts"] = "none" => proc["tts"] = "none"
        BY <2>2, <3>1 DEF SpawnedAt
      <3> QED BY <1>1, <2>1, <3>1, <3>2 DEF DeathsCover
    <2> QED BY <1>2, <2>3, <2>4
  <1>3. CASE RespawnTts
    <2>1. /\ ttsFailRun' = IF RecycleDue THEN 0 ELSE ttsFailRun + 1
          /\ ttsDeaths' = IF RecycleDue THEN 0 ELSE ttsDeaths
          /\ due'["tts"] = Never
          /\ proc["tts"] = "none" /\ due["tts"] # Never
      BY <1>3 DEF RespawnTts, MustRespawn, IInv, TypeOK, Never
    <2> QED BY <1>1, <2>1 DEF DeathsCover, RecycleDue
  <1>4. CASE Reap
    <2>1. CASE Cur = "tts"
      <3>1. ttsFailRun' = ttsFailRun /\ ttsDeaths' = Least(ttsDeaths + 1, RecycleAt)
        BY <1>4, <2>1 DEF Reap
      <3> QED BY <1>1, <3>1 DEF DeathsCover, Least
    <2>2. CASE Cur # "tts"
      <3>1. /\ UNCHANGED <<ttsFailRun, ttsDeaths>>
            /\ proc'["tts"] = proc["tts"] /\ due'["tts"] = due["tts"]
        BY <1>4, <2>2 DEF Reap, IInv, TypeOK
      <3> QED BY <1>1, <3>1 DEF DeathsCover
    <2> QED BY <2>1, <2>2
  <1>5. CASE SeeReady
    <2>1. CASE Cur = "tts"
      <3>1. ttsFailRun' = 0 /\ ttsDeaths' = 0 /\ proc'["tts"] = "alive"
        BY <1>5, <2>1 DEF SeeReady, NewlyReady, children
      <3> QED BY <1>1, <3>1 DEF DeathsCover
    <2>2. CASE Cur # "tts"
      <3>1. UNCHANGED <<ttsFailRun, ttsDeaths, proc, due>>
        BY <1>5, <2>2 DEF SeeReady, children
      <3> QED BY <1>1, <3>1 DEF DeathsCover
    <2> QED BY <2>1, <2>2
  <1>6. CASE Tick
    <2>1. UNCHANGED <<ttsFailRun, ttsDeaths, proc>>
      BY <1>6 DEF Tick, children
    <2>2. due'["tts"] # Never => due["tts"] # Never
      BY <1>6 DEF Tick, Never
    <2> QED BY <1>1, <2>1, <2>2 DEF DeathsCover
  <1>7. CASE Child
    <2>1. UNCHANGED <<ttsFailRun, ttsDeaths, due>>
      BY <1>7 DEF Child, PrintReady, Exit, Detach, StrayPrints, StrayExit, chatdState, table
    <2>2. proc'["tts"] = "none" => proc["tts"] = "none"
      BY <1>7 DEF Child, PrintReady, Exit, Detach, StrayPrints, StrayExit, IInv, TypeOK
    <2> QED BY <1>1, <2>1, <2>2 DEF DeathsCover
  <1>8. CASE SkipDisabled \/ AwaitEnds \/ EnterLoop \/ Wake \/ LeaveAlone \/ EndPass
             \/ UNCHANGED vars
    <2>1. UNCHANGED <<ttsFailRun, ttsDeaths, proc, due>>
      BY <1>8 DEF SkipDisabled, AwaitEnds, EnterLoop, Wake, LeaveAlone, EndPass,
                  vars, table, children
    <2> QED BY <1>1, <2>1 DEF DeathsCover
  <1> QED
    BY <1>2, <1>3, <1>4, <1>5, <1>6, <1>7, <1>8 DEF Next, Boot, Scan

\* llmd is sacrificed only after RecycleAt deaths of tts with no READY between.
THEOREM ChatdRecycleIsEarned == Spec => RecycleIsEarned
  <1>1. ASSUME IInv, DeathsCover, Recycles PROVE ttsDeaths = RecycleAt
    <2>1. proc["tts"] = "none" /\ due["tts"] # Never
      BY <1>1 DEF Recycles, RespawnTts, MustRespawn, Never
    <2>2. /\ ttsFailRun < ttsDeaths /\ ttsFailRun + 1 >= RecycleAt
          /\ ttsDeaths \in 0..RecycleAt /\ ttsFailRun \in Nat
      BY <1>1, <2>1 DEF Recycles, DeathsCover, RecycleDue, IInv, TypeOK
    <2> QED BY <2>2, LimitAssumption
  <1>2. IInv /\ DeathsCover /\ [Next]_vars => [Recycles => ttsDeaths = RecycleAt]_vars
    BY <1>1
  <1>3. Spec => []DeathsCover
    BY InitDeathsCover, NextDeathsCover, Invariance, PTL DEF Spec
  <1> QED BY <1>2, <1>3, Invariance, PTL DEF Spec, RecycleIsEarned

-----------------------------------------------------------------------------
(* The promise of a restart. *)

\* Every enabled child that has been started and is dead is scheduled.
Scheduled ==
  \A i \in 1..Len(Order) :
    Reached(i) /\ Order[i] \in Enabled /\ proc[Order[i]] = "none" => due[Order[i]] # Never

Promise == Scheduled /\ shutting = FALSE

\* A fork that succeeds leaves a live child.
LEMMA ForkedIsAlive ==
  ASSUME ForkOutcomes = {TRUE}, TypeOK, NEW c \in Names,
         NEW procs \in [Names -> {"none", "alive", "zombie"}], SpawnFrom(c, procs)
  PROVE  proc'[c] = "alive"
  BY DEF SpawnFrom

LEMMA NextPromise ==
  ASSUME ForkOutcomes = {TRUE}, IInv, Promise, [Next]_vars
  PROVE  Promise'
  <1> USE DEF Promise
  <1>1. shutting' = FALSE
    BY DEF Next, Boot, Scan, Child, SkipDisabled, StartChild, AwaitEnds, EnterLoop, Wake,
           Tick, Reap, SeeReady, Respawn, RespawnTts, LeaveAlone, EndPass, PrintReady,
           Exit, Detach, StrayPrints, StrayExit, chatdState, vars
  <1> SUFFICES ASSUME NEW i \in 1..Len(Order), Reached(i)', Order[i] \in Enabled,
                      proc'[Order[i]] = "none"
               PROVE  due'[Order[i]] # Never
    BY <1>1 DEF Scheduled
  <1> DEFINE c == Order[i]
  <1>2. c \in Names /\ (c = Order[idx] /\ idx \in 1..Len(Order) => i = idx)
    BY EntryIsName, OrderInjective
  <1>3. due[c] \in {Never} \cup 0..BackoffCap
    BY <1>2 DEF IInv, TypeOK
  <1>4. CASE Spawning
    <2>1. /\ idx \in 1..Len(Order) /\ Cur = Order[idx] /\ Cur \in Names
          /\ proc[Cur] = "none" /\ SpawnedAt(Cur)
      BY <1>4, SpawnIsClean DEF IInv
    <2>2. proc'[Cur] = "alive"
      <3>1. proc \in [Names -> {"none", "alive", "zombie"}]
        BY DEF IInv, TypeOK
      <3>2. (IF RecycleDue THEN KillLlmd ELSE proc) \in [Names -> {"none", "alive", "zombie"}]
        BY <3>1, KillLlmdType DEF IInv
      <3>3. SpawnFrom(Cur, proc) \/ SpawnFrom(Cur, IF RecycleDue THEN KillLlmd ELSE proc)
        BY <1>4 DEF Spawning, StartChild, Respawn, RespawnTts
      <3> QED BY <2>1, <3>1, <3>2, <3>3, ForkedIsAlive DEF IInv
    <2>3. c # Cur /\ i # idx /\ proc[c] = "none"
      BY <1>2, <2>1, <2>2 DEF SpawnedAt
    <2>4. Reached(i) /\ due'[c] = due[c]
      BY <1>2, <1>4, <2>1, <2>3
         DEF Spawning, StartChild, Respawn, RespawnTts, Reached, Starting, IInv, TypeOK
    <2> QED BY <2>3, <2>4 DEF Scheduled
  <1>5. CASE SkipDisabled
    <2>1. i # idx
      BY <1>5 DEF SkipDisabled, Cur
    <2>2. Reached(i) /\ UNCHANGED <<proc, due>>
      BY <1>5, <2>1 DEF SkipDisabled, Reached, Starting, IInv, TypeOK, table, children
    <2> QED BY <2>2 DEF Scheduled
  <1>6. CASE AwaitEnds \/ EnterLoop \/ Wake \/ LeaveAlone \/ EndPass \/ SeeReady
    <2>1. UNCHANGED <<proc, due>>
      BY <1>6 DEF AwaitEnds, EnterLoop, Wake, LeaveAlone, EndPass, SeeReady, table, children
    <2>2. Reached(i)
      BY <1>6, TableAssumption
         DEF AwaitEnds, EnterLoop, Wake, LeaveAlone, EndPass, SeeReady, Reached, Starting,
             IInv, TypeOK
    <2> QED BY <2>1, <2>2 DEF Scheduled
  <1>7. CASE Reap
    <2>1. idx \in 1..Len(Order) /\ Cur \in Names
      BY <1>7, CurIsName DEF Reap, IInv, TypeOK
    <2>2. NextBackoff(Cur) \in 0..BackoffCap
      BY <2>1, NextBackoffType DEF IInv
    <2>3. /\ proc' = [proc EXCEPT ![Cur] = "none"]
          /\ due' = [due EXCEPT ![Cur] = NextBackoff(Cur)]
      BY <1>7 DEF Reap
    <2>4. CASE c = Cur
      BY <1>2, <2>2, <2>3, <2>4, LimitAssumption DEF IInv, TypeOK, Never
    <2>5. CASE c # Cur
      BY <1>2, <1>7, <2>3, <2>5 DEF Scheduled, Reached, Starting, Reap, IInv, TypeOK
    <2> QED BY <2>4, <2>5
  <1>8. CASE Tick
    <2>1. Reached(i) /\ proc[c] = "none"
      BY <1>8 DEF Tick, Reached, Starting, children
    <2>2. due[c] # Never
      BY <2>1 DEF Scheduled
    <2>3. due'[c] = IF due[c] > 0 THEN due[c] - 1 ELSE due[c]
      BY <1>2, <1>8 DEF Tick
    <2> QED BY <1>3, <2>2, <2>3, LimitAssumption DEF Never
  <1>9. CASE Child
    <2>1. UNCHANGED <<pc, idx, due>>
      BY <1>9 DEF Child, PrintReady, Exit, Detach, StrayPrints, StrayExit, chatdState, table
    <2>2. proc[c] = "none"
      BY <1>2, <1>9 DEF Child, PrintReady, Exit, Detach, StrayPrints, StrayExit, IInv, TypeOK
    <2> QED BY <2>1, <2>2 DEF Scheduled, Reached, Starting
  <1>10. CASE UNCHANGED vars
    BY <1>10 DEF Scheduled, Reached, Starting, vars, table, children
  <1> QED
    BY <1>4, <1>5, <1>6, <1>7, <1>8, <1>9, <1>10 DEF Next, Boot, Scan, Spawning

\* As long as fork() succeeds, and the daemon was not made by "restart", every
\* enabled child that is dead has its restart scheduled.
THEOREM ChatdForgetsNoChild ==
  ASSUME ForkOutcomes = {TRUE}, "restart" \notin Commands
  PROVE  Spec => []NoChildForgotten
  <1>1. Init => Promise
    <2> SUFFICES ASSUME Init PROVE Scheduled /\ shutting = FALSE
      BY DEF Promise
    <2>1. Scheduled
      BY DEF Init, Scheduled, Reached, Starting
    <2>2. PICK cmd \in Commands : shutting = (cmd = "restart")
      BY Zenon DEF Init
    <2>3. shutting = FALSE
      BY <2>2
    <2> QED BY <2>1, <2>3
  <1>2. IInv /\ Promise /\ [Next]_vars => Promise'
    BY NextPromise
  <1>3. IInv /\ Promise => NoChildForgotten
    <2> SUFFICES ASSUME IInv, Scheduled, NEW c \in Passed \cap Enabled, proc[c] = "none"
                 PROVE  due[c] # Never
      BY DEF NoChildForgotten, Promise
    <2>1. PICK i \in 1..Len(Order) : Order[i] = c /\ Reached(i)
      <3>1. CASE Starting
        <4>1. PICK i \in 1..idx - 1 : Order[i] = c
          BY <3>1 DEF Passed
        <4>2. idx \in 1..Len(Order) + 1 /\ Len(Order) \in Nat
          BY TableAssumption DEF IInv, TypeOK
        <4>3. i \in 1..Len(Order) /\ i < idx
          BY <4>1, <4>2
        <4> QED BY <4>1, <4>3 DEF Reached
      <3>2. CASE ~Starting
        <4>1. PICK i \in DOMAIN Order : Order[i] = c
          BY <3>2 DEF Passed, Names
        <4>2. i \in 1..Len(Order)
          BY <4>1, TableAssumption
        <4> QED BY <3>2, <4>1, <4>2 DEF Reached
      <3> QED BY <3>1, <3>2
    <2> QED BY <2>1 DEF Scheduled
  <1> QED BY <1>1, <1>2, <1>3, Invariance, PTL DEF Spec

-----------------------------------------------------------------------------
(* chatd keeps the order that Nanny states. *)

\* Whether a child is launched is known by its place in the table.
LEMMA LaunchedAt ==
  ASSUME NEW i \in 1..Len(Order) PROVE Launched(Order[i]) <=> Reached(i)
  <1>1. DOMAIN Order = 1..Len(Order)
    BY TableAssumption
  <1> QED BY <1>1, OrderInjective DEF Launched, Reached

\* A step that launches nothing and starts nobody lets some children die, or none.
LEMMA NannyStutter ==
  ASSUME UNCHANGED proc,
         \A c \in Names \cap Enabled : Launched(c)' <=> Launched(c)
  PROVE  UNCHANGED Life
  BY DEF Life

LEMMA NannyDeath ==
  ASSUME NEW c \in Names, proc \in [Names -> {"none", "alive", "zombie"}],
         proc[c] = "alive", proc' = [proc EXCEPT ![c] = "zombie"],
         \A d \in Names \cap Enabled : Launched(d)' <=> Launched(d)
  PROVE  [N!Next]_Life
  <1>1. CASE c \in Enabled /\ Launched(c)
    <2>1. Life' = [Life EXCEPT ![c] = "dead"]
      BY <1>1 DEF Life
    <2>2. Life[c] = "running"
      BY <1>1 DEF Life
    <2>3. N!Die(c)
      BY <2>1, <2>2 DEF N!Die
    <2>4. c \in N!Names
      BY DEF N!Names, Names
    <2> QED BY <2>3, <2>4 DEF N!Next
  <1>2. CASE ~(c \in Enabled /\ Launched(c))
    <2>1. UNCHANGED Life
      BY <1>2 DEF Life
    <2> QED BY <2>1
  <1> QED BY <1>1, <1>2

LEMMA NannyInit == Init => N!Init
  <1> SUFFICES ASSUME Init PROVE N!Init
    OBVIOUS
  <1>1. N!Names = Names
    BY DEF N!Names, Names
  <1>2. \A i \in 1..Len(Order) : ~Reached(i)
    BY DEF Init, Reached, Starting
  <1>3. \A c \in Names : ~Launched(c)
    <2>1. \A c \in Names : \E i \in 1..Len(Order) : c = Order[i]
      BY TableAssumption DEF Names
    <2> QED BY <1>2, <2>1, LaunchedAt
  <1> QED BY <1>1, <1>3 DEF N!Init, Life

LEMMA NannyLaunch == ASSUME IInv, StartChild PROVE [N!Next]_Life
  <1>1. /\ idx \in 1..Len(Order) /\ Cur = Order[idx] /\ Cur \in Names
        /\ Cur \in Enabled /\ proc[Cur] = "none" /\ SpawnedAt(Cur)
    BY SpawnIsClean DEF IInv, Spawning
  <1>2. pc = "start" /\ pc' = "await" /\ idx' = idx /\ Cur' = Cur
    BY DEF StartChild, Cur
  <1>3. DOMAIN Order = 1..Len(Order)
    BY TableAssumption
  <1>4. \A i \in 1..Len(Order) : (Launched(Order[i])' <=> i <= idx) /\ (Launched(Order[i]) <=> i < idx)
    <2>1. \A i \in 1..Len(Order) : Launched(Order[i]) <=> i < idx
      BY <1>1, <1>2, LaunchedAt DEF Reached, Starting
    <2>2. \A i \in 1..Len(Order) : Launched(Order[i])' <=> i <= idx
      BY <1>1, <1>2, <1>3, OrderInjective DEF Launched, Starting
    <2> QED BY <2>1, <2>2
  <1>5. \A c \in Names : c # Cur => (Launched(c)' <=> Launched(c))
    BY <1>1, <1>3, <1>4 DEF Names
  <1>6. Launched(Cur)' /\ ~Launched(Cur)
    BY <1>1, <1>2, <1>4
  <1>7. \A c \in Names : c # Cur => proc'[c] = proc[c]
    <2>1. PICK forked \in ForkOutcomes : IF forked THEN proc' = [proc EXCEPT ![Cur] = "alive"]
                                                   ELSE proc' = proc
      BY DEF StartChild, SpawnFrom
    <2> QED BY <1>1, <2>1 DEF IInv, TypeOK
  <1>8. Life[Cur] = "idle"
    BY <1>1, <1>6 DEF Life
  <1>9. \E l \in {"running", "dead"} : Life' = [Life EXCEPT ![Cur] = l]
    <2> DEFINE l == IF proc'[Cur] = "alive" THEN "running" ELSE "dead"
    <2>1. Life' = [Life EXCEPT ![Cur] = l]
      BY <1>1, <1>2, <1>5, <1>6, <1>7 DEF Life
    <2> QED BY <2>1
  <1>10. N!Turn(idx)
    <2> SUFFICES ASSUME NEW j \in 1..idx - 1, Order[j] \in Enabled PROVE Life[Order[j]] # "idle"
      BY DEF N!Turn
    <2>1. j \in 1..Len(Order) /\ Order[j] \in Names /\ Launched(Order[j])
      BY <1>1, <1>4, EntryIsName
    <2> QED BY <2>1 DEF Life
  <1>11. N!Launch(idx)
    BY <1>1, <1>8, <1>9, <1>10 DEF N!Launch
  <1> QED BY <1>1, <1>3, <1>11 DEF N!Next

LEMMA NannyRevival == ASSUME IInv, Respawn \/ RespawnTts PROVE [N!Next]_Life
  <1>1. /\ idx \in 1..Len(Order) /\ Cur = Order[idx] /\ Cur \in Names
        /\ Cur \in Enabled /\ proc[Cur] = "none" /\ SpawnedAt(Cur)
    BY SpawnIsClean DEF IInv, Spawning
  <1>2. pc = "scan" /\ pc' \in {"scan", "watch"} /\ TypeOK
    BY DEF Respawn, RespawnTts, NextEntry, IInv
  <1>3. \A c \in Names : Launched(c) /\ Launched(c)'
    BY <1>2 DEF Launched, Starting
  <1>4. N!Names = Names
    BY DEF N!Names, Names
  <1>5. Life[Cur] = "dead"
    BY <1>1, <1>3 DEF Life
  <1> DEFINE procs == IF Cur = "tts" /\ RecycleDue THEN KillLlmd ELSE proc
  <1>6. /\ \A d \in Names : procs[d] = proc[d] \/ (d = "llmd" /\ proc[d] = "alive" /\ procs[d] = "zombie")
        /\ procs \in [Names -> {"none", "alive", "zombie"}] /\ procs[Cur] = "none"
    BY <1>1, <1>2, KillLlmdType DEF KillLlmd, TypeOK
  <1>7. PICK forked \in ForkOutcomes : IF forked THEN proc' = [procs EXCEPT ![Cur] = "alive"]
                                                 ELSE proc' = procs
    BY DEF Respawn, RespawnTts, SpawnFrom
  <1> HIDE DEF procs
  <1>8. CASE forked
    <2>1. Life' = [d \in Names |-> IF d = Cur THEN "running"
                      ELSE IF d \in ({"llmd"} \ {Cur}) /\ procs[d] # proc[d] /\ Life[d] = "running" THEN "dead"
                      ELSE Life[d]]
      BY <1>1, <1>3, <1>6, <1>7, <1>8 DEF Life
    <2> DEFINE S == {d \in {"llmd"} \ {Cur} : procs[d] # proc[d]}
    <2>2. Life' = [d \in Names |-> IF d = Cur THEN "running"
                      ELSE IF d \in S /\ Life[d] = "running" THEN "dead"
                      ELSE Life[d]]
      BY <2>1
    <2>3. S \in SUBSET ({"llmd"} \ {Cur})
      OBVIOUS
    <2> HIDE DEF S
    <2>4. N!Revive(Cur)
      BY <1>4, <1>5, <2>2, <2>3 DEF N!Revive
    <2> QED BY <1>1, <1>4, <2>4 DEF N!Next
  <1>9. CASE ~forked
    <2>1. proc' = procs
      BY <1>7, <1>9
    <2>2. CASE procs = proc
      BY <1>3, <2>1, <2>2, NannyStutter
    <2>3. CASE procs # proc
      <3>1. "llmd" \in Names /\ proc["llmd"] = "alive" /\ procs["llmd"] = "zombie"
        BY <1>2, <1>6, <2>3 DEF TypeOK
      <3>2. proc' = [proc EXCEPT !["llmd"] = "zombie"]
        BY <1>2, <1>6, <2>1, <3>1 DEF TypeOK
      <3> QED BY <1>2, <1>3, <3>1, <3>2, NannyDeath DEF TypeOK
    <2> QED BY <2>2, <2>3
  <1> QED BY <1>8, <1>9

LEMMA NannyStep == IInv /\ [Next]_vars => [N!Next]_Life
  <1> SUFFICES ASSUME IInv, [Next]_vars PROVE [N!Next]_Life
    OBVIOUS
  <1>1. DOMAIN Order = 1..Len(Order) /\ proc \in [Names -> {"none", "alive", "zombie"}] /\ TypeOK
    BY TableAssumption DEF IInv, TypeOK
  <1>2. CASE SkipDisabled
    <2>1. idx \in 1..Len(Order) /\ Cur = Order[idx]
      BY <1>2 DEF SkipDisabled, IInv, TypeOK, Cur
    <2>2. /\ pc = "start" /\ pc' = "start" /\ idx' = idx + 1 /\ Cur \notin Enabled
          /\ Starting /\ Starting'
      BY <1>2 DEF SkipDisabled, Starting
    <2>3. ASSUME NEW c \in Names, c \in Enabled PROVE Launched(c)' <=> Launched(c)
      <3>1. Launched(c) <=> \E i \in 1..Len(Order) : Order[i] = c /\ i < idx
        BY <1>1, <2>2 DEF Launched
      <3>2. Launched(c)' <=> \E i \in 1..Len(Order) : Order[i] = c /\ i < idx + 1
        BY <1>1, <2>2 DEF Launched
      <3>3. \A i \in 1..Len(Order) : Order[i] = c => (i < idx <=> i < idx + 1)
        BY <2>1, <2>2, <2>3
      <3> QED BY <3>1, <3>2, <3>3
    <2>4. \A c \in Names \cap Enabled : Launched(c)' <=> Launched(c)
      BY <2>3
    <2> QED BY <1>2, <2>4, NannyStutter DEF SkipDisabled, children
  <1>3. CASE StartChild
    BY <1>3, NannyLaunch
  <1>4. CASE AwaitEnds
    <2>1. /\ pc = "await" /\ pc' = "start" /\ idx' = idx + 1 /\ idx \in Int
          /\ Starting /\ Starting' /\ \A i \in DOMAIN Order : i \in Int
      BY <1>1, <1>4 DEF AwaitEnds, Starting, TypeOK
    <2>2. ASSUME NEW c \in Names PROVE Launched(c)' <=> Launched(c)
      <3>1. Launched(c) <=> \E i \in DOMAIN Order : Order[i] = c /\ (i < idx \/ i = idx)
        BY <2>1 DEF Launched
      <3>2. Launched(c)' <=> \E i \in DOMAIN Order : Order[i] = c /\ i < idx + 1
        BY <2>1 DEF Launched
      <3>3. \A i \in DOMAIN Order : (i < idx \/ i = idx) <=> i < idx + 1
        BY <2>1
      <3> QED BY <3>1, <3>2, <3>3
    <2> QED BY <1>4, <2>2, NannyStutter DEF AwaitEnds, children
  <1>5. CASE EnterLoop
    <2>1. \A c \in Names : Launched(c)' <=> Launched(c)
      BY <1>1, <1>5 DEF EnterLoop, Launched, Starting, TypeOK, Names
    <2> QED BY <1>5, <2>1, NannyStutter DEF EnterLoop, children
  <1>6. CASE Wake \/ Tick \/ EndPass \/ SeeReady \/ LeaveAlone
    <2>1. UNCHANGED proc /\ ~Starting /\ ~Starting'
      BY <1>6 DEF Wake, Tick, EndPass, SeeReady, LeaveAlone, NextEntry, Starting, children
    <2> QED BY <2>1, NannyStutter DEF Launched
  <1>7. CASE Reap
    <2>1. ~Starting /\ ~Starting' /\ Cur \in Names /\ proc[Cur] = "zombie" /\ proc' = [proc EXCEPT ![Cur] = "none"]
      BY <1>7, CurIsName, <1>1 DEF Reap, NextEntry, Starting, TypeOK
    <2>2. UNCHANGED Life
      BY <1>1, <2>1 DEF Life, Launched
    <2> QED BY <2>2
  <1>8. CASE Respawn \/ RespawnTts
    BY <1>8, NannyRevival
  <1>9. CASE Child
    <2>1. \A c \in Names : Launched(c)' <=> Launched(c)
      BY <1>9 DEF Child, PrintReady, Exit, Detach, StrayPrints, StrayExit, chatdState, Launched, Starting
    <2>2. UNCHANGED proc \/ \E c \in Names : proc[c] = "alive" /\ proc' = [proc EXCEPT ![c] = "zombie"]
      BY <1>9 DEF Child, PrintReady, Exit, Detach, StrayPrints, StrayExit
    <2> QED BY <1>1, <2>1, <2>2, NannyStutter, NannyDeath
  <1>10. CASE UNCHANGED vars
    BY <1>10, NannyStutter DEF vars, children, Launched, Starting
  <1> QED BY <1>2, <1>3, <1>4, <1>5, <1>6, <1>7, <1>8, <1>9, <1>10 DEF Next, Boot, Scan

\* Whatever fork() returns and whatever command made the daemon, chatd is a Nanny:
\* children are launched in the order of the table, have one life at a time, and only
\* a revival of tts takes another's, llmd's (chatd.cpp:411-430, 539-548).
THEOREM ChatdKeepsOrder == Spec => KeepsOrder
  BY NannyInit, NannyStep, Invariance, PTL DEF Spec, KeepsOrder, N!Spec

-----------------------------------------------------------------------------
(* Every step is one of Chatd, leaves the table alone, or begins anew. *)

\* The kill is an exit of llmd, if there is one to kill.
LEMMA KillIsExit == ASSUME TypeOK, KillStalled PROVE [Next]_vars
  <1>1. proc' = KillLlmd /\ UNCHANGED <<chatdState, strays, said, inLog>>
    BY DEF KillStalled
  <1>2. CASE "llmd" \in Names /\ proc["llmd"] = "alive"
    <2>1. proc' = [proc EXCEPT !["llmd"] = "zombie"]
      BY <1>1, <1>2 DEF KillLlmd, TypeOK
    <2>2. Exit("llmd")
      BY <1>1, <1>2, <2>1 DEF Exit
    <2> QED BY <1>2, <2>2 DEF Next, Child
  <1>3. CASE ~("llmd" \in Names /\ proc["llmd"] = "alive")
    <2>1. proc' = proc
      BY <1>1, <1>3 DEF KillLlmd, TypeOK
    <2> QED BY <1>1, <2>1 DEF vars, chatdState, children, table
  <1> QED BY <1>2, <1>3

LEMMA LoopStep == ASSUME TypeOK, Loop PROVE [Next]_vars
  <1>1. CASE WSpawn
    BY <1>1 DEF WSpawn, Spawning, Next, Boot, Scan
  <1>2. CASE WOther
    BY <1>2 DEF WOther, Next, Boot, Scan
  <1>3. CASE WEnterLoop \/ WWake \/ WEndPass
    BY <1>3 DEF WEnterLoop, WWake, WEndPass, Next, Boot
  <1>4. CASE HwCheck \/ SeeGrowth \/ SoftQuiet \/ BeginForensics
    BY <1>4 DEF HwCheck, SeeGrowth, SoftQuiet, BeginForensics
  <1>5. CASE KillStalled
    BY <1>5, KillIsExit
  <1> QED BY <1>1, <1>2, <1>3, <1>4, <1>5 DEF Loop

LEMMA RebootIsInit == ASSUME "start" \in Commands, Reboot PROVE Init'
  <1>1. FreshTable
    BY DEF Reboot
  <1>2. shutting' \in {cmd = "restart" : cmd \in Commands}
    <2>1. shutting' = ("start" = "restart")
      BY <1>1 DEF FreshTable
    <2> QED BY <2>1
  <1>3. strays' \in {s \in [Names -> 0..1] : \A c \in Names : c # "tts" => s[c] = 0}
    BY <1>1 DEF FreshTable
  <1>4. inLog' \in [Names -> BOOLEAN]
    BY <1>1 DEF FreshTable
  <1> QED BY <1>1, <1>2, <1>3, <1>4 DEF Init, FreshTable

LEMMA WatchStep ==
  ASSUME "start" \in Commands, TypeOK, [WNext]_allVars
  PROVE  [Next \/ Init']_vars
  <1>1. CASE Loop
    BY <1>1, LoopStep
  <1>2. CASE WTick
    BY <1>2 DEF WTick, Next
  <1>3. CASE WChild
    BY <1>3 DEF WChild, Next, Child
  <1>4. CASE LlmdWrites \/ User \/ ChatdKilled \/ ChatdStopped
    BY <1>4 DEF LlmdWrites, User, Ask, AskEnds, AskInterrupted, ChatdKilled, ChatdStopped
  <1>5. CASE Reboot
    BY <1>5, RebootIsInit
  <1>6. CASE UNCHANGED allVars
    BY <1>6 DEF allVars
  <1> QED BY <1>1, <1>2, <1>3, <1>4, <1>5, <1>6 DEF WNext

-----------------------------------------------------------------------------
(* The watchdogs' own state. *)

\* The parts of WTypeOK: flags, and the rest.
Flags ==
  /\ running \in BOOLEAN /\ pending \in BOOLEAN /\ asking \in BOOLEAN
  /\ answered \in BOOLEAN /\ armed \in BOOLEAN /\ bait \in BOOLEAN

Times ==
  /\ stage \in {"hw", "soft", "forensics", "done"}
  /\ pc # "watch" => stage = "hw"
  /\ askAge \in 0..FreezeTicks + 1
  /\ llmLog \in {"empty", "same", "more"}
  /\ seen \in {"none", "empty", "text"}
  /\ quiet \in 0..FreezeTicks + 1
  /\ bite \in 0..BiteTicks
  /\ sinceFeed \in 0..FeedTicks + 1
  /\ lag \in 0..MaxLag

LEMMA Limits ==
  /\ StallTicks \in Nat \ {0} /\ FreezeTicks \in Nat \ {0} /\ FeedTicks \in Nat \ {0}
  /\ BiteTicks \in Nat \ {0} /\ MaxLag \in Nat \ {0}
  /\ \A b \in WdtOpens : b \in BOOLEAN
  BY WatchAssumption

LEMMA WatchInitType == WInit => Flags /\ Times
  <1> SUFFICES ASSUME WInit PROVE Flags /\ Times
    OBVIOUS
  <1>1. Flags
    BY Zenon DEF WInit, Flags
  <1>2. Times
    BY Limits DEF WInit, Times
  <1> QED BY <1>1, <1>2

\* A time that has passed its limit stands still.
LEMMA UntilType ==
  ASSUME NEW m \in Nat, NEW x \in 0..m + 1 PROVE Until(x, m) \in 0..m + 1
  BY DEF Until, Least

LEMMA FlagStep == ASSUME Flags, [WNext]_allVars PROVE Flags'
  <1> USE DEF Flags
  <1>1. CASE WSpawn
    <2>1. answered' = (Cur # "llmd" /\ answered) /\ UNCHANGED <<running, pending, asking, armed, bait>>
      BY <1>1 DEF WSpawn, wdt
    <2> QED BY <2>1, Zenon
  <1>2. CASE WOther \/ WWake \/ SeeGrowth \/ SoftQuiet \/ BeginForensics \/ WEndPass \/ WTick \/ WChild
    <2>1. UNCHANGED <<running, pending, asking, armed, bait>> /\ answered' \in {answered, FALSE}
      BY <1>2 DEF WOther, WWake, SeeGrowth, SoftQuiet, BeginForensics, WEndPass, WTick, WChild,
                  watchVars, asks, wdt
    <2> QED BY <2>1, Zenon
  <1>3. CASE WEnterLoop
    <2>1. UNCHANGED <<running, pending, asking, answered>> /\ armed' \in WdtOpens /\ bait' = FALSE
      BY <1>3 DEF WEnterLoop, asks
    <2> QED BY <2>1, Limits, Zenon
  <1>4. CASE HwCheck
    <2>1. UNCHANGED <<running, pending, asking, answered, armed>> /\ (bait' = Frozen \/ bait' = bait)
      BY <1>4 DEF HwCheck, asks
    <2>2. Frozen \in BOOLEAN
      BY Zenon DEF Frozen
    <2> QED BY <2>1, <2>2, Zenon
  <1>5. CASE KillStalled
    BY <1>5, Zenon DEF KillStalled, wdt
  <1>6. CASE LlmdWrites
    <2>1. UNCHANGED <<running, pending, asking, armed, bait>> /\ (answered' = answered \/ answered' = asking)
      BY <1>6 DEF LlmdWrites, wdt
    <2> QED BY <2>1, Zenon
  <1>7. CASE User
    BY <1>7, Zenon DEF User, Ask, AskEnds, AskInterrupted, wdt
  <1>8. CASE ChatdKilled \/ ChatdStopped
    BY <1>8, Zenon DEF ChatdKilled, ChatdStopped, asks, wdt
  <1>9. CASE Reboot
    BY <1>9, Zenon DEF Reboot, FreshWatch
  <1>10. CASE UNCHANGED allVars
    BY <1>10, Zenon DEF allVars, watchVars, asks, wdt
  <1> QED BY <1>1, <1>2, <1>3, <1>4, <1>5, <1>6, <1>7, <1>8, <1>9, <1>10 DEF WNext, Loop

LEMMA TimeStep == ASSUME Flags, Times, [WNext]_allVars PROVE Times'
  <1> USE Limits DEF Times
  <1>1. CASE WSpawn \/ WOther
    <2>1. UNCHANGED <<stage, askAge, seen, quiet, bite, sinceFeed, lag>> /\ llmLog' \in {llmLog, "empty"}
      BY <1>1 DEF WSpawn, WOther, watchVars, asks, log, wdt
    <2>2. pc # "watch"
      BY <1>1 DEF WSpawn, WOther, Spawning, SkipDisabled, StartChild, AwaitEnds, Reap, SeeReady,
                  LeaveAlone, Respawn, RespawnTts
    <2> QED BY <2>1, <2>2
  <1>2. CASE WEnterLoop \/ WWake
    BY <1>2 DEF WEnterLoop, WWake, EnterLoop, Wake, asks, log, wdt
  <1>3. CASE WTick
    <2>1. pc' = pc /\ UNCHANGED <<stage, llmLog, seen>>
      BY <1>3 DEF WTick, Tick, vars
    <2>2. quiet' \in 0..FreezeTicks + 1 /\ sinceFeed' \in 0..FeedTicks + 1 /\ askAge' \in 0..FreezeTicks + 1
      BY <1>3, UntilType DEF WTick
    <2>3. lag' \in 0..MaxLag
      BY <1>3 DEF WTick
    <2>4. bite' \in 0..BiteTicks
      <3>1. armed => bite # 0
        BY <1>3 DEF WTick, Expired
      <3>2. bite' = IF armed THEN bite - 1 ELSE bite
        BY <1>3 DEF WTick
      <3> QED BY <3>1, <3>2
    <2> QED BY <2>1, <2>2, <2>3, <2>4
  <1>4. CASE HwCheck \/ SeeGrowth \/ SoftQuiet \/ BeginForensics \/ KillStalled
    <2>1. pc = "watch" /\ pc' = pc
      BY <1>4 DEF HwCheck, SeeGrowth, SoftQuiet, BeginForensics, KillStalled, vars, chatdState
    <2>2. UNCHANGED <<askAge, lag>> /\ stage' \in {"soft", "forensics", "done"}
      BY <1>4 DEF HwCheck, SeeGrowth, SoftQuiet, BeginForensics, KillStalled, asks
    <2>3. bite' \in {bite, BiteTicks} /\ sinceFeed' \in {sinceFeed, 0} /\ quiet' \in {quiet, 0}
      BY <1>4 DEF HwCheck, SeeGrowth, SoftQuiet, BeginForensics, KillStalled, wdt, log
    <2>4. seen' \in {seen, "empty", "text"} /\ llmLog' \in {llmLog, "empty", "same"}
      BY <1>4 DEF HwCheck, SeeGrowth, SoftQuiet, BeginForensics, KillStalled, wdt, log
    <2> QED BY <2>1, <2>2, <2>3, <2>4
  <1>5. CASE WEndPass
    BY <1>5 DEF WEndPass, EndPass, asks, log, wdt
  <1>6. CASE WChild \/ LlmdWrites
    <2>1. UNCHANGED <<pc, stage, askAge, seen, quiet, bite, sinceFeed, lag>> /\ llmLog' \in {llmLog, "more"}
      BY <1>6 DEF WChild, LlmdWrites, vars, chatdState, PrintReady, Exit, Detach, StrayPrints, StrayExit,
                  asks, wdt
    <2> QED BY <2>1
  <1>7. CASE User
    BY <1>7 DEF User, Ask, AskEnds, AskInterrupted, vars, log, wdt
  <1>8. CASE ChatdKilled \/ ChatdStopped
    BY <1>8 DEF ChatdKilled, ChatdStopped, vars, asks, log, wdt
  <1>9. CASE Reboot
    BY <1>9 DEF Reboot, FreshWatch, FreshTable
  <1>10. CASE UNCHANGED allVars
    BY <1>10 DEF allVars, watchVars, vars, asks, log, wdt
  <1> QED BY <1>1, <1>2, <1>3, <1>4, <1>5, <1>6, <1>7, <1>8, <1>9, <1>10 DEF WNext, Loop

-----------------------------------------------------------------------------
(* The theorems. *)

\* The watchdogs' counters stay within their limits: a board that was reset has
\* nothing left to count (chatd.cpp:587-698).
THEOREM WatchTypeOK == WSpec => []WTypeOK
  <1>1. Flags /\ Times /\ [WNext]_allVars => (Flags /\ Times)'
    BY FlagStep, TimeStep
  <1>2. Flags /\ Times => WTypeOK
    BY DEF Flags, Times, WTypeOK
  <1> QED BY <1>1, <1>2, WatchInitType, PTL DEF WSpec

\* For every table and all times: a stall kill is an exit of llmd, a reset of the
\* board begins anew, and all else leaves the table alone (chatd.cpp:615-695).
THEOREM WatchIsChatd ==
  ASSUME "start" \in Commands PROVE WSpec => StepsAsChatd
  <1>1. WInit => Init /\ IInv
    BY InitIInv DEF WInit
  <1>2. IInv /\ [WNext]_allVars => [Next \/ Init']_vars
    BY WatchStep DEF IInv
  <1>3. IInv /\ [Next \/ Init']_vars => IInv'
    <2>1. Init' => IInv'
      BY InitIInv, PTL
    <2>2. IInv /\ [Next]_vars => IInv'
      BY NextIInv
    <2> QED BY <2>1, <2>2
  <1> QED BY <1>1, <1>2, <1>3, PTL DEF WSpec, StepsAsChatd

\* Beside the watchdogs too no child runs twice, through kills of chatd, stalls
\* and resets (chatd.cpp:411-430, 666-695).
THEOREM WatchedLiveOnce ==
  ASSUME "start" \in Commands PROVE WSpec => []AtMostOneInstance
  <1>1. WInit => IInv
    BY InitIInv DEF WInit
  <1>2. IInv /\ [WNext]_allVars => IInv'
    <2>1. IInv /\ [WNext]_allVars => [Next \/ Init']_vars
      BY WatchStep DEF IInv
    <2>2. Init' => IInv'
      BY InitIInv, PTL
    <2> QED BY <2>1, <2>2, NextIInv
  <1>3. IInv => AtMostOneInstance
    BY DEF IInv, TypeOK, OneLife, AtMostOneInstance, Live
  <1> QED BY <1>1, <1>2, <1>3, PTL DEF WSpec

-----------------------------------------------------------------------------
(* A reset is the last resort.  The invariant follows one pass after another: *)
(* how long the hardware has not been fed, and for how long llmd was silent.  *)

\* Ticks since the last feed.
Unfed == BiteTicks - bite

\* A bound on the ticks since the watchdogs last looked.
Age == IF stage # "hw" THEN 0 ELSE IF pc = "sleep" THEN lag ELSE MaxLag

\* llmd is not up without a process, nor will it be seen ready without one.
LlmdIsThere ==
  /\ proc["llmd"] = "none" => ~up["llmd"]
  /\ pc = "await" /\ Cur = "llmd" /\ proc["llmd"] = "none" => ~inLog["llmd"]

\* A scan begins with the first entry.
ScanIsWhole == pc \in {"sleep", "watch"} => idx = 1

\* A time that is counted is counted while main sleeps, after the open.
Clock ==
  /\ pc # "sleep" => lag = 0
  /\ running /\ armed =>
       /\ ~Starting
       /\ bite = 0 => pc = "sleep"
       /\ sinceFeed = Least(Unfed, FeedTicks + 1)

\* Without a bait the last feed is not older than the pause and a pass.
FedInTime == running /\ armed /\ ~bait => Unfed <= FeedTicks + Age

\* Between the two watchdogs: if llmd is up the chain has been silent for long,
\* and either the feeding stopped just now, or the ask is a new one.
BaitIsFrozen ==
  running /\ armed /\ bait /\ stage = "soft" /\ up["llmd"] =>
    /\ quiet > FreezeTicks
    /\ \/ Unfed <= FeedTicks + MaxLag /\ (~pending => ~asking)
       \/ pending /\ (asking => askAge <= MaxLag)
       \/ llmLog = "more"

\* After them, with an llmd that is still silent: one more pass, and it is
\* killed or the bait ends.
BaitIsNew ==
  running /\ armed /\ bait /\ stage \in {"done", "hw"} /\ up["llmd"] /\ quiet > Age =>
    \/ Unfed <= FeedTicks + MaxLag + Age /\ (asking => askAge <= Age)
    \/ (pc = "scan" \/ (pc = "watch" /\ stage = "hw")) /\ llmLog = "more"

\* The scan is still to look at llmd's log.
Ahead ==
  \/ pc = "sleep" \/ stage = "done"
  \/ pc = "scan" /\ \E i \in 1..Len(Order) : i >= idx /\ Order[i] = "llmd"

\* READY is output: it ends the silence before llmd is seen to be up.
ReadyIsHeard ==
  running /\ ~Starting /\ proc["llmd"] = "alive" /\ inLog["llmd"] /\ ~up["llmd"] =>
    llmLog = "more" \/ (quiet <= Age /\ Ahead)

\* So is DONE: an answered ask was not silent all its time.
AnswerIsHeard == answered => asking /\ (llmLog = "more" \/ quiet <= askAge)

LastResort == /\ IInv /\ Flags /\ Times /\ LlmdIsThere /\ ScanIsWhole /\ Clock /\ FedInTime
              /\ BaitIsFrozen /\ BaitIsNew /\ ReadyIsHeard /\ AnswerIsHeard

\* The order of the times that the code's have (60 s, 240 s, 8 s), and a hardware
\* that waits for a feed longer than a pause and two passes.
InOrder == /\ "llmd" \in Names /\ "start" \in Commands
            /\ StallTicks <= FreezeTicks /\ MaxLag <= FreezeTicks
            /\ BiteTicks > FeedTicks + 2 * MaxLag

LEMMA ThereStep ==
  ASSUME "llmd" \in Names, IInv, LlmdIsThere, [Next]_vars
  PROVE  LlmdIsThere'
  <1> USE DEF LlmdIsThere, IInv, table, children
  <1>0. "llmd" \in Gated /\ TypeOK
    BY DEF Gated
  <1>1. CASE SkipDisabled \/ EnterLoop \/ Wake \/ Tick \/ EndPass
    BY <1>1 DEF SkipDisabled, EnterLoop, Wake, Tick, EndPass
  <1>2. CASE Spawning
    <2>1. idx \in 1..Len(Order) /\ Cur = Order[idx] /\ Cur \in Names /\ proc[Cur] = "none" /\ SpawnedAt(Cur)
      BY <1>2, SpawnIsClean
    <2>2. proc'["llmd"] = "none" => ~up'["llmd"]
      BY <2>1 DEF SpawnedAt
    <2>3. pc' = "await" => Cur' = Cur
      BY <1>2 DEF Spawning, StartChild, Respawn, RespawnTts, NextEntry, Cur
    <2>4. Cur = "llmd" => ~inLog'["llmd"]
      BY <2>1 DEF SpawnedAt
    <2> QED BY <2>2, <2>3, <2>4
  <1>3. CASE AwaitEnds
    <2>1. Cur \in Names /\ up \in [Names -> BOOLEAN]
      BY <1>3, CurIsName DEF AwaitEnds, TypeOK
    <2>2. CASE Cur = "llmd"
      BY <1>0, <1>3, <2>1, <2>2 DEF AwaitEnds, Ready
    <2>3. CASE Cur # "llmd"
      BY <1>0, <1>3, <2>1, <2>3 DEF AwaitEnds
    <2> QED BY <2>2, <2>3
  <1>4. CASE Reap \/ SeeReady \/ LeaveAlone
    <2>1. pc' # "await" /\ idx \in 1..Len(Order) /\ up \in [Names -> BOOLEAN]
          /\ proc \in [Names -> {"none", "alive", "zombie"}]
      BY <1>4 DEF Reap, SeeReady, LeaveAlone, NextEntry, TypeOK
    <2>2. Cur \in Names
      BY <2>1, CurIsName
    <2>3. proc'["llmd"] = "none" => ~up'["llmd"]
      BY <1>4, <2>1, <2>2 DEF Reap, SeeReady, LeaveAlone, NewlyReady
    <2> QED BY <2>1, <2>3
  <1>5. CASE Child
    <2>1. UNCHANGED <<pc, idx, up>> /\ Cur' = Cur
      BY <1>5 DEF Child, PrintReady, Exit, Detach, StrayPrints, StrayExit, chatdState, Cur
    <2>2. proc'["llmd"] = "none" => proc["llmd"] = "none"
      BY <1>5 DEF Child, PrintReady, Exit, Detach, StrayPrints, StrayExit, TypeOK
    <2>3. proc["llmd"] = "none" => inLog'["llmd"] = inLog["llmd"]
      BY <1>5 DEF Child, PrintReady, Exit, Detach, StrayPrints, StrayExit, TypeOK
    <2> QED BY <2>1, <2>2, <2>3
  <1>6. CASE UNCHANGED vars
    BY <1>6 DEF vars, Cur
  <1> QED BY <1>1, <1>2, <1>3, <1>4, <1>5, <1>6 DEF Next, Boot, Scan, Spawning

LEMMA WholeStep == ASSUME ScanIsWhole, [Next]_vars PROVE ScanIsWhole'
  BY DEF ScanIsWhole, Next, Boot, Scan, Child, SkipDisabled, StartChild, AwaitEnds, EnterLoop, Wake, Tick,
         Reap, SeeReady, Respawn, RespawnTts, LeaveAlone, NextEntry, EndPass, PrintReady, Exit, Detach,
         StrayPrints, StrayExit, chatdState, vars

\* The scan of llmd's entry, and that of another.
ScanOfLlmd ==
  /\ Cur = "llmd"
  /\ ~(proc'["llmd"] = "alive" /\ inLog'["llmd"] /\ ~up'["llmd"])
  /\ up'["llmd"] => /\ llmLog' = llmLog
                    /\ up["llmd"] \/ (proc["llmd"] = "alive" /\ inLog["llmd"])

ScanOfOther ==
  /\ Cur # "llmd" /\ NextEntry
  /\ up'["llmd"] <=> up["llmd"]
  /\ inLog'["llmd"] <=> inLog["llmd"]
  /\ proc'["llmd"] = "alive" => proc["llmd"] = "alive"
  /\ llmLog' = llmLog

\* What a step of the scan means for llmd.
LEMMA ScanView ==
  ASSUME "llmd" \in Names, IInv, Times, LlmdIsThere, WSpawn \/ WOther, ~Starting
  PROVE  /\ pc = "scan" /\ pc' \in {"scan", "watch"} /\ stage = "hw" /\ ~Expired
         /\ UNCHANGED <<stage, running, pending, asking, askAge, quiet, armed, bite, sinceFeed, bait, lag>>
         /\ answered' => answered /\ llmLog' = llmLog
         /\ ScanOfLlmd \/ ScanOfOther
  <1>0. TypeOK /\ "llmd" \in Gated
    BY DEF IInv, Gated
  <1>1. pc = "scan" /\ pc' \in {"scan", "watch"} /\ NextEntry /\ idx \in 1..Len(Order)
    BY <1>0 DEF WSpawn, WOther, Spawning, SkipDisabled, StartChild, AwaitEnds, Reap, SeeReady,
           LeaveAlone, Respawn, RespawnTts, Starting, NextEntry, TypeOK
  <1>2. /\ stage = "hw" /\ ~Expired
        /\ UNCHANGED <<stage, running, pending, asking, askAge, quiet, armed, bite, sinceFeed, bait, lag>>
        /\ answered' => answered /\ llmLog' = llmLog
    <2>1. stage = "hw" /\ ~Expired
      BY <1>1 DEF Times, WSpawn, WOther, Active
    <2>2. UNCHANGED <<stage, running, pending, asking, askAge, quiet, armed, bite, sinceFeed, bait, lag>>
      BY DEF WSpawn, WOther, watchVars, asks, log, wdt
    <2>3. answered' => answered /\ llmLog' = llmLog
      <3>1. CASE WSpawn
        BY <3>1, Zenon DEF WSpawn
      <3>2. CASE WOther
        BY <3>2, Zenon DEF WOther, watchVars, asks, log
      <3> QED BY <3>1, <3>2
    <2> QED BY <2>1, <2>2, <2>3
  <1>3. Cur \in Names
    BY <1>1, CurIsName
  <1>4. ASSUME WSpawn PROVE ScanOfLlmd \/ ScanOfOther
    <2>1. Cur = Order[idx] /\ proc[Cur] = "none" /\ SpawnedAt(Cur)
      BY <1>0, <1>4, SpawnIsClean DEF IInv, WSpawn
    <2>2. CASE Cur = "llmd"
      <3>1. ~up["llmd"]
        BY <2>1, <2>2 DEF LlmdIsThere
      <3>2. ~inLog'["llmd"] /\ ~up'["llmd"]
        BY <2>1, <2>2, <3>1 DEF SpawnedAt
      <3> QED BY <2>2, <3>2 DEF ScanOfLlmd
    <2>3. CASE Cur # "llmd"
      <3>1. llmLog' = llmLog
        BY <1>4, <2>3 DEF WSpawn
      <3> QED BY <1>1, <2>1, <2>3, <3>1 DEF SpawnedAt, ScanOfOther
    <2> QED BY <2>2, <2>3
  <1>5. ASSUME WOther PROVE ScanOfLlmd \/ ScanOfOther
    <2>1. (Reap \/ SeeReady \/ LeaveAlone) /\ llmLog' = llmLog
      BY <1>1, <1>5 DEF WOther, SkipDisabled, AwaitEnds, watchVars, log
    <2>2. up \in [Names -> BOOLEAN] /\ proc \in [Names -> {"none", "alive", "zombie"}]
      BY <1>0 DEF TypeOK
    <2>3. CASE Cur = "llmd"
      BY <1>0, <1>3, <2>1, <2>2, <2>3 DEF Reap, SeeReady, LeaveAlone, NewlyReady, children, table, ScanOfLlmd
    <2>4. CASE Cur # "llmd"
      BY <1>0, <1>1, <1>3, <2>1, <2>2, <2>4 DEF Reap, SeeReady, LeaveAlone, children, table, ScanOfOther
    <2> QED BY <2>3, <2>4
  <1> QED BY <1>1, <1>2, <1>4, <1>5
-----------------------------------------------------------------------------
(* Step by step. *)

Passes == /\ Clock /\ FedInTime /\ BaitIsFrozen /\ BaitIsNew /\ ReadyIsHeard /\ AnswerIsHeard

LEMMA Bounds ==
  ASSUME Times, InOrder
  PROVE  /\ lag \in Nat /\ lag <= MaxLag /\ quiet \in Nat /\ quiet <= FreezeTicks + 1
         /\ askAge \in Nat /\ askAge <= FreezeTicks + 1
         /\ bite \in Nat /\ bite <= BiteTicks /\ sinceFeed \in Nat
         /\ Unfed \in Nat /\ Age \in Nat /\ Age <= MaxLag
         /\ StallTicks \in Nat /\ FreezeTicks \in Nat /\ FeedTicks \in Nat /\ BiteTicks \in Nat
         /\ MaxLag \in Nat
  BY Limits DEF Times, InOrder, Unfed, Age

LEMMA PassesInit == InOrder /\ WInit => LlmdIsThere /\ ScanIsWhole /\ Passes
  BY DEF InOrder, WInit, Init, LlmdIsThere, ScanIsWhole, Passes, Clock, FedInTime, BaitIsFrozen, BaitIsNew, ReadyIsHeard, AnswerIsHeard, Starting

\* Before the loop nothing is armed; an llmd that is started anew has not answered.
LEMMA StartPasses ==
  ASSUME LastResort, WSpawn \/ WOther, Starting PROVE Passes'
  <1>1. /\ Starting' /\ pc' # "sleep" /\ pc # "sleep" /\ running
        /\ UNCHANGED <<running, armed, lag, asking, askAge, quiet>>
    BY DEF WSpawn, WOther, Spawning, SkipDisabled, StartChild, AwaitEnds, Reap, SeeReady, LeaveAlone,
           Respawn, RespawnTts, Starting, watchVars, Active, asks, log, wdt
  <1>2. ~armed /\ lag = 0
    BY <1>1 DEF LastResort, Clock
  <1>3. answered' => answered /\ llmLog' = llmLog
    <2>1. CASE WSpawn
      BY <2>1, Zenon DEF WSpawn
    <2>2. CASE WOther
      BY <2>2, Zenon DEF WOther, watchVars, asks, log
    <2> QED BY <2>1, <2>2
  <1>4. AnswerIsHeard'
    BY <1>1, <1>3 DEF LastResort, AnswerIsHeard
  <1> QED BY <1>1, <1>2, <1>4 DEF Passes, Clock, FedInTime, BaitIsFrozen, BaitIsNew, ReadyIsHeard

LEMMA ScanPasses ==
  ASSUME LastResort, InOrder, WSpawn \/ WOther, ~Starting PROVE Passes'
  <1> USE DEF LastResort
  <1>1. /\ pc = "scan" /\ pc' \in {"scan", "watch"} /\ stage = "hw" /\ ~Expired /\ ~Starting'
        /\ UNCHANGED <<stage, running, pending, asking, askAge, quiet, armed, bite, sinceFeed, bait, lag>>
        /\ answered' => answered /\ llmLog' = llmLog
        /\ ScanOfLlmd \/ ScanOfOther
    BY ScanView DEF InOrder, Starting
  <1>2. Age = MaxLag /\ Age' = MaxLag /\ Unfed' = Unfed
    BY <1>1 DEF Age, Unfed
  <1>3. Clock' /\ FedInTime'
    BY <1>1, <1>2 DEF Clock, FedInTime, Expired
  <1>4. BaitIsFrozen'
    BY <1>1 DEF BaitIsFrozen
  <1>5. up'["llmd"] => llmLog' = llmLog
    BY <1>1 DEF ScanOfLlmd, ScanOfOther
  <1>6. up'["llmd"] /\ ~up["llmd"] /\ running => llmLog = "more" \/ quiet <= Age
    BY <1>1 DEF ScanOfLlmd, ScanOfOther, ReadyIsHeard
  <1>7. BaitIsNew'
    BY <1>1, <1>2, <1>5, <1>6, Bounds DEF BaitIsNew
  <1>8. ReadyIsHeard'
    <2>1. CASE ScanOfLlmd
      BY <2>1 DEF ScanOfLlmd, ReadyIsHeard
    <2>2. CASE ScanOfOther
      <3>1. idx \in 1..Len(Order) /\ Len(Order) \in Nat
        BY <1>1, TableAssumption DEF IInv, TypeOK
      <3>2. ASSUME NEW i \in 1..Len(Order), i >= idx, Order[i] = "llmd" PROVE pc' = "scan" /\ i >= idx'
        <4>1. i # idx
          BY <2>2, <3>2 DEF ScanOfOther, Cur
        <4> QED BY <1>1, <2>2, <3>1, <3>2, <4>1 DEF ScanOfOther, NextEntry
      <3>3. Ahead => Ahead'
        BY <1>1, <3>2 DEF Ahead
      <3> QED BY <1>1, <1>2, <2>2, <3>3 DEF ScanOfOther, ReadyIsHeard
    <2> QED BY <1>1, <2>1, <2>2
  <1>9. AnswerIsHeard'
    BY <1>1 DEF AnswerIsHeard
  <1> QED BY <1>3, <1>4, <1>7, <1>8, <1>9 DEF Passes

LEMMA EnterPasses == ASSUME LastResort, InOrder, WEnterLoop PROVE Passes'
  <1> USE DEF LastResort
  <1>1. /\ pc' = "sleep" /\ stage' = "hw" /\ lag' = 0 /\ quiet' = 0 /\ bait' = FALSE
        /\ bite' = BiteTicks /\ sinceFeed' = 0
        /\ UNCHANGED <<pending, asking, askAge, answered>>
    BY DEF WEnterLoop, EnterLoop, asks, Times
  <1>2. Unfed' = 0 /\ Age' = 0 /\ askAge' \in Nat /\ FeedTicks \in Nat
    BY <1>1, Bounds DEF Unfed, Age
  <1> QED BY <1>1, <1>2 DEF Passes, Clock, Starting, Least, FedInTime, BaitIsFrozen, BaitIsNew, ReadyIsHeard, Ahead, AnswerIsHeard

LEMMA WakePasses == ASSUME LastResort, InOrder, WWake PROVE Passes'
  <1> USE DEF LastResort
  <1>1. /\ pc = "sleep" /\ pc' = "scan" /\ stage = "hw" /\ lag' = 0 /\ ~Expired
        /\ UNCHANGED <<stage, running, pending, asking, askAge, answered, llmLog, quiet, armed, bite, sinceFeed, bait>>
        /\ UNCHANGED <<proc, inLog, up>>
    BY DEF WWake, Wake, asks, log, wdt, Times, Active, children, table
  <1>2. idx = 1 /\ idx' = 1
    BY <1>1 DEF WWake, Wake, ScanIsWhole
  <1>3. Age = lag /\ Age' = MaxLag /\ Unfed' = Unfed
    BY <1>1 DEF Age, Unfed
  <1>4. Ahead'
    <2>1. PICK i \in DOMAIN Order : Order[i] = "llmd"
      BY DEF InOrder, Names
    <2>2. i \in 1..Len(Order) /\ i >= 1
      BY TableAssumption
    <2> QED BY <1>1, <1>2, <2>1, <2>2 DEF Ahead
  <1> QED BY <1>1, <1>3, <1>4, Bounds DEF Passes, Clock, Expired, Starting, FedInTime, BaitIsFrozen, BaitIsNew, ReadyIsHeard, AnswerIsHeard

\* A tick ages everything alike.
LEMMA TickPasses == ASSUME LastResort, InOrder, WTick PROVE Passes'
  <1> USE DEF LastResort
  <1>1. /\ UNCHANGED <<stage, running, pending, asking, answered, llmLog, armed, bait, pc, idx, proc, inLog, up>>
        /\ quiet' = Until(quiet, FreezeTicks) /\ askAge' = IF asking THEN Until(askAge, FreezeTicks) ELSE askAge
    BY DEF WTick, Tick, vars, children, table
  <1>2. AnswerIsHeard'
    BY <1>1, Bounds DEF AnswerIsHeard, Until, Least
  <1>3. CASE ~running
    <2>1. lag' = lag
      BY <1>3 DEF WTick
    <2> QED BY <1>1, <1>2, <1>3, <2>1 DEF Passes, Clock, FedInTime, BaitIsFrozen, BaitIsNew, ReadyIsHeard
  <1>4. CASE running
    <2>1. pc = "sleep" /\ stage = "hw" /\ lag < MaxLag /\ lag' = lag + 1 /\ Age = lag /\ Age' = lag + 1
      BY <1>1, <1>4 DEF WTick, Times, Age
    <2>2. /\ sinceFeed' = Until(sinceFeed, FeedTicks) /\ bite' = IF armed THEN bite - 1 ELSE bite
          /\ armed => Unfed' = Unfed + 1
      BY <1>1, Bounds DEF WTick, Unfed
    <2>3. Clock'
      BY <1>1, <2>1, <2>2, Bounds DEF Clock, Starting, Until, Least
    <2>4. FedInTime'
      BY <1>1, <2>1, <2>2, Bounds DEF FedInTime
    <2>5. BaitIsFrozen'
      BY <1>1, <2>1 DEF BaitIsFrozen
    <2>6. BaitIsNew'
      <3>1. quiet' > Age' => quiet > Age
        BY <1>1, <2>1, Bounds DEF Until, Least
      <3>2. asking /\ askAge <= Age => askAge' <= Age'
        BY <1>1, <2>1, Bounds DEF Until, Least
      <3> QED BY <1>1, <2>1, <2>2, <3>1, <3>2, Bounds DEF BaitIsNew
    <2>7. ReadyIsHeard'
      <3>1. quiet <= Age => quiet' <= Age'
        BY <1>1, <2>1, Bounds DEF Until, Least
      <3> QED BY <1>1, <2>1, <3>1 DEF ReadyIsHeard, Starting, Ahead
    <2> QED BY <1>2, <2>3, <2>4, <2>5, <2>6, <2>7 DEF Passes
  <1> QED BY <1>3, <1>4

\* The hardware watchdog: what it is fed, and what it knows when it is not.
LEMMA HwPasses == ASSUME LastResort, InOrder, HwCheck PROVE Passes'
  <1> USE DEF LastResort
  <1>1. /\ pc = "watch" /\ stage = "hw" /\ stage' = "soft" /\ ~Expired /\ running
        /\ UNCHANGED <<running, pending, asking, askAge, answered, llmLog, quiet, armed, lag, pc, idx, proc, inLog, up>>
    BY DEF HwCheck, Active, asks, log, vars, children, table
  <1>2. Age = MaxLag /\ Age' = 0
    BY <1>1 DEF Age
  <1>3. armed => /\ bait' <=> Frozen
                 /\ IF ~Frozen /\ sinceFeed > FeedTicks
                    THEN bite' = BiteTicks /\ sinceFeed' = 0
                    ELSE UNCHANGED <<bite, sinceFeed>>
    <2>1. armed => bait' = Frozen
      BY Zenon DEF HwCheck
    <2>2. armed => (bait' <=> Frozen)
      BY <2>1, Zenon
    <2> QED BY <2>2 DEF HwCheck
  <1>4. Clock'
    BY <1>1, <1>3, Bounds DEF Clock, Starting, Expired, Unfed, Least
  <1>5. FedInTime'
    BY <1>1, <1>2, <1>3, Bounds DEF FedInTime, Clock, Unfed, Least
  <1>6. BaitIsFrozen'
    <2>1. CASE armed /\ Frozen /\ up["llmd"]
      <3>1. quiet > FreezeTicks /\ pending /\ quiet > Age /\ Unfed' = Unfed
        BY <1>2, <1>3, <2>1, Bounds DEF Frozen, InOrder, Unfed
      <3>2. CASE ~bait
        BY <1>1, <1>2, <2>1, <3>1, <3>2 DEF FedInTime, BaitIsFrozen
      <3>3. CASE bait
        BY <1>1, <1>2, <2>1, <3>1, <3>3 DEF BaitIsNew, BaitIsFrozen
      <3> QED BY <3>2, <3>3
    <2>2. CASE ~(armed /\ Frozen /\ up["llmd"])
      <3>1. ~(armed' /\ bait' /\ up'["llmd"])
        BY <1>1, <1>3, <2>2
      <3> QED BY <3>1 DEF BaitIsFrozen
    <2> QED BY <2>1, <2>2
  <1>7. ReadyIsHeard'
    BY <1>1 DEF ReadyIsHeard, Ahead, Starting
  <1>8. AnswerIsHeard' /\ BaitIsNew'
    BY <1>1 DEF AnswerIsHeard, BaitIsNew
  <1> QED BY <1>4, <1>5, <1>6, <1>7, <1>8 DEF Passes

\* The software watchdog: a log that grew, or an llmd that is killed, ends the
\* silence; it leaves an llmd alone only if nothing is asked.
LEMMA SoftPasses ==
  ASSUME LastResort, InOrder, SeeGrowth \/ SoftQuiet \/ BeginForensics \/ KillStalled PROVE Passes'
  <1> USE DEF LastResort
  <1>1. /\ pc = "watch" /\ stage \in {"soft", "forensics"} /\ stage' \in {"done", "forensics"} /\ running
        /\ ~Expired
        /\ UNCHANGED <<running, asking, askAge, answered, armed, bite, sinceFeed, bait, lag, pc, idx, inLog, up>>
    BY DEF SeeGrowth, SoftQuiet, BeginForensics, KillStalled, Active, asks, wdt, vars, children, chatdState, table
  <1>2. Age = 0 /\ Age' = 0 /\ Unfed' = Unfed
    BY <1>1 DEF Age, Unfed
  <1>3. Clock' /\ FedInTime' /\ BaitIsFrozen'
    BY <1>1, <1>2 DEF Clock, FedInTime, BaitIsFrozen, Starting
  <1>4. CASE SeeGrowth
    <2>1. quiet' = 0 /\ stage' = "done"
      BY <1>4 DEF SeeGrowth
    <2> QED BY <1>1, <1>2, <1>3, <2>1, Bounds DEF Passes, BaitIsNew, ReadyIsHeard, Ahead, AnswerIsHeard
  <1>5. CASE SoftQuiet \/ BeginForensics
    <2>1. stage = "soft" /\ UNCHANGED <<pending, llmLog, quiet, proc>> /\ ~SizeChanged
      BY <1>5 DEF SoftQuiet, BeginForensics, Stalled, asks, log, vars, children
    <2>2. llmLog # "more"
      BY <2>1 DEF SizeChanged
    <2>3. ReadyIsHeard'
      BY <1>1, <2>1, <2>2 DEF ReadyIsHeard, Ahead, Starting
    <2>4. BaitIsNew'
      <3> SUFFICES ASSUME stage' = "done", armed, bait, up["llmd"]
                   PROVE  Unfed <= FeedTicks + MaxLag /\ ~asking
        BY <1>1, <1>2, Bounds DEF BaitIsNew
      <3>1. SoftQuiet
        BY <1>5 DEF BeginForensics
      <3>2. ~Stalled /\ proc["llmd"] # "none"
        BY <3>1 DEF SoftQuiet, LlmdIsThere
      <3>3. quiet > FreezeTicks
        BY <1>1, <2>1 DEF BaitIsFrozen
      <3>4. ~pending
        BY <2>1, <3>2, <3>3, Bounds DEF Stalled, InOrder
      <3> QED BY <1>1, <2>1, <2>2, <3>4 DEF BaitIsFrozen
    <2>5. AnswerIsHeard'
      BY <1>1, <2>1 DEF AnswerIsHeard
    <2> QED BY <1>3, <2>3, <2>4, <2>5 DEF Passes
  <1>6. CASE KillStalled
    <2>1. quiet' = 0 /\ stage' = "done" /\ proc' = KillLlmd
      BY <1>6 DEF KillStalled
    <2>2. proc'["llmd"] # "alive"
      BY <2>1 DEF KillLlmd, InOrder
    <2> QED BY <1>1, <1>2, <1>3, <2>1, <2>2, Bounds DEF Passes, BaitIsNew, ReadyIsHeard, AnswerIsHeard
  <1> QED BY <1>4, <1>5, <1>6

LEMMA EndPasses == ASSUME LastResort, InOrder, WEndPass PROVE Passes'
  <1> USE DEF LastResort
  <1>1. /\ pc = "watch" /\ pc' = "sleep" /\ stage = "done" /\ stage' = "hw" /\ ~Expired
        /\ UNCHANGED <<running, pending, asking, askAge, answered, llmLog, quiet, armed, bite, sinceFeed, bait, lag>>
        /\ UNCHANGED <<idx, proc, inLog, up>>
    BY DEF WEndPass, EndPass, Active, asks, log, wdt, children, table
  <1>2. Age = 0 /\ Age' = 0 /\ Unfed' = Unfed /\ lag = 0
    BY <1>1 DEF Age, Unfed, Clock
  <1> QED BY <1>1, <1>2 DEF Passes, Clock, Expired, Starting, FedInTime, BaitIsFrozen, BaitIsNew, ReadyIsHeard, Ahead, AnswerIsHeard

\* What the children and the users do: output only ends a silence, and a new ask
\* is younger than a pass.
WorldStep == WChild \/ LlmdWrites \/ User

LEMMA WorldPasses == ASSUME LastResort, InOrder, WorldStep PROVE Passes'
  <1> USE DEF LastResort, WorldStep
  <1>1. /\ UNCHANGED <<stage, running, quiet, armed, bite, sinceFeed, bait, lag, pc, idx, up>> /\ ~Expired
        /\ llmLog' \in {llmLog, "more"}
    BY DEF WChild, LlmdWrites, User, Ask, AskEnds, AskInterrupted, PrintReady, Exit, Detach, StrayPrints,
           StrayExit, vars, chatdState, table, log, wdt
  <1>2. Age' = Age /\ Unfed' = Unfed
    BY <1>1 DEF Age, Unfed
  <1>3. Clock' /\ FedInTime'
    BY <1>1, <1>2 DEF Clock, FedInTime, Starting, Expired
  <1>4. CASE WChild \/ LlmdWrites
    <2>1. UNCHANGED <<pending, asking, askAge>>
      BY <1>4 DEF WChild, LlmdWrites, asks
    <2>2. answered' => answered \/ (asking /\ llmLog' = "more")
      <3>1. CASE WChild
        BY <3>1, Zenon DEF WChild, asks
      <3>2. CASE LlmdWrites
        BY <3>2, Zenon DEF LlmdWrites
      <3> QED BY <1>4, <3>1, <3>2
    <2>3. \/ llmLog' = "more"
          \/ /\ llmLog' = llmLog /\ inLog'["llmd"] = inLog["llmd"]
             /\ proc'["llmd"] = "alive" => proc["llmd"] = "alive"
      BY <1>1, <1>4 DEF WChild, LlmdWrites, PrintReady, Exit, Detach, StrayPrints, StrayExit, vars,
                        children, IInv, TypeOK, InOrder
    <2>4. BaitIsFrozen' /\ BaitIsNew'
      BY <1>1, <1>2, <2>1, <2>3 DEF BaitIsFrozen, BaitIsNew
    <2>5. ReadyIsHeard'
      BY <1>1, <1>2, <2>3 DEF ReadyIsHeard, Ahead, Starting
    <2>6. AnswerIsHeard'
      BY <1>1, <2>1, <2>2 DEF AnswerIsHeard
    <2> QED BY <1>3, <2>4, <2>5, <2>6 DEF Passes
  <1>5. CASE User
    <2>1. UNCHANGED <<llmLog, proc, inLog>>
      BY <1>5 DEF User, Ask, AskEnds, AskInterrupted, vars, children, log
    <2>2. ReadyIsHeard'
      BY <1>1, <1>2, <2>1 DEF ReadyIsHeard, Ahead, Starting
    <2>3. CASE Ask
      <3>1. asking' /\ pending' /\ askAge' = 0 /\ ~asking /\ ~answered'
        BY <2>3, Zenon DEF Ask
      <3> QED BY <1>1, <1>2, <1>3, <2>1, <2>2, <3>1, Bounds DEF Passes, BaitIsFrozen, BaitIsNew, AnswerIsHeard
    <2>4. CASE AskEnds
      <3>1. ~asking' /\ asking /\ (answered \/ askAge > FreezeTicks) /\ ~answered'
        BY <2>4, Zenon DEF AskEnds
      <3>2. BaitIsFrozen'
        BY <1>1, <1>2, <2>1, <3>1, Bounds DEF BaitIsFrozen, AnswerIsHeard, InOrder
      <3>3. BaitIsNew' /\ AnswerIsHeard'
        BY <1>1, <1>2, <2>1, <3>1 DEF BaitIsNew, AnswerIsHeard
      <3> QED BY <1>3, <2>2, <3>2, <3>3 DEF Passes
    <2>5. CASE AskInterrupted
      <3>1. ~asking' /\ pending' = pending /\ ~answered'
        BY <2>5, Zenon DEF AskInterrupted
      <3> QED BY <1>1, <1>2, <1>3, <2>1, <2>2, <3>1 DEF Passes, BaitIsFrozen, BaitIsNew, AnswerIsHeard
    <2> QED BY <1>5, <2>3, <2>4, <2>5 DEF User
  <1> QED BY <1>4, <1>5

LEMMA GonePasses == ASSUME LastResort, ChatdKilled \/ ChatdStopped \/ Reboot PROVE Passes'
  <1> USE DEF LastResort
  <1>1. CASE ChatdKilled \/ ChatdStopped
    <2>1. /\ ~running' /\ UNCHANGED <<pc, lag, asking, askAge, quiet, llmLog>> /\ answered' = answered
      BY <1>1 DEF ChatdKilled, ChatdStopped, vars, asks, log
    <2> QED BY <2>1 DEF Passes, Clock, FedInTime, BaitIsFrozen, BaitIsNew, ReadyIsHeard, AnswerIsHeard
  <1>2. CASE Reboot
    <2>1. ~armed' /\ pc' = "start" /\ lag' = 0 /\ ~answered'
      BY <1>2, Zenon DEF Reboot, FreshTable, FreshWatch
    <2> QED BY <2>1 DEF Passes, Clock, FedInTime, BaitIsFrozen, BaitIsNew, ReadyIsHeard, AnswerIsHeard, Starting
  <1> QED BY <1>1, <1>2

LEMMA LastResortStep == InOrder /\ LastResort /\ [WNext]_allVars => LastResort'
  <1> SUFFICES ASSUME InOrder, LastResort, [WNext]_allVars PROVE LastResort'
    OBVIOUS
  <1>1. Passes'
    <2>1. CASE WSpawn \/ WOther
      BY <2>1, StartPasses, ScanPasses
    <2>2. CASE UNCHANGED allVars
      BY <2>2 DEF allVars, vars, children, table, watchVars, asks, log, wdt, LastResort, Passes, Clock, FedInTime,
                  BaitIsFrozen, BaitIsNew, ReadyIsHeard, AnswerIsHeard, Age, Ahead, Unfed, Starting
    <2> QED BY <2>1, <2>2, EnterPasses, WakePasses, TickPasses, HwPasses, SoftPasses, EndPasses, WorldPasses,
               GonePasses DEF WNext, Loop, WorldStep
  <1>2. [Next \/ Init']_vars /\ Flags' /\ Times'
    BY WatchStep, FlagStep, TimeStep DEF LastResort, IInv, InOrder
  <1>3. CASE [Next]_vars
    BY <1>1, <1>2, <1>3, NextIInv, ThereStep, WholeStep DEF LastResort, Passes, InOrder
  <1>4. CASE Init'
    <2>1. IInv'
      BY <1>4, InitIInv, PTL
    <2>2. LlmdIsThere' /\ ScanIsWhole'
      BY <1>4 DEF Init, LlmdIsThere, ScanIsWhole, InOrder
    <2> QED BY <1>1, <1>2, <2>1, <2>2 DEF LastResort, Passes
  <1> QED BY <1>2, <1>3, <1>4

\* While chatd runs, the board is reset only out of a bait, and never with an llmd
\* that has been up and silent for more than a pass (chatd.cpp:597-599): for every
\* table and all times in the order of the code's, if the hardware's time is
\* longer than a pause between two feeds and two passes.
THEOREM WatchRebootIsLastResort ==
  ASSUME "llmd" \in Names, "start" \in Commands,
         StallTicks <= FreezeTicks, MaxLag <= FreezeTicks,
         BiteTicks > FeedTicks + 2 * MaxLag
  PROVE  WSpec => RebootIsLastResort
  <1>0. InOrder
    BY DEF InOrder
  <1>1. WInit => LastResort
    BY <1>0, InitIInv, WatchInitType, PassesInit DEF WInit, LastResort, Passes
  <1>2. LastResort /\ [WNext]_allVars => LastResort'
    BY <1>0, LastResortStep
  <1>3. LastResort /\ Reboot /\ running => bait /\ (up["llmd"] => quiet <= MaxLag)
    <2> SUFFICES ASSUME LastResort, Reboot, running PROVE bait /\ (up["llmd"] => quiet <= MaxLag)
      OBVIOUS
    <2>1. armed /\ bite = 0 /\ pc = "sleep" /\ stage = "hw"
      BY DEF Reboot, Expired, LastResort, Clock, Times
    <2>2. Unfed = BiteTicks /\ Age = lag /\ lag <= MaxLag
      BY <1>0, <2>1, Bounds DEF Unfed, Age, LastResort
    <2>3. bait
      BY <1>0, <2>1, <2>2, Bounds DEF LastResort, FedInTime, InOrder
    <2>4. up["llmd"] => quiet <= MaxLag
      BY <1>0, <2>1, <2>2, <2>3, Bounds DEF LastResort, BaitIsNew, InOrder
    <2> QED BY <2>3, <2>4
  <1> QED BY <1>1, <1>2, <1>3, PTL DEF WSpec, RebootIsLastResort
=============================================================================
