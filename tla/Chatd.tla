------------------------------- MODULE Chatd -------------------------------
(***************************************************************************)
(* The nanny process llm/board/chatd.cpp: the child table, spawn_child,    *)
(* the ordered start in main and reap_and_restart.  The two watchdogs that *)
(* share the supervise loop are added by ChatdWatch.                       *)
(*                                                                         *)
(* One tick is the first backoff (1000 ms).  reap_and_restart samples the  *)
(* clock once per pass, so time moves only between passes.                 *)
(***************************************************************************)
EXTENDS Integers, Sequences

CONSTANTS
  Order,         \* names of the child table, in start order (build_children)
  Enabled,       \* the children with c.enabled
  BackoffCap,    \* 30000 ms, in ticks
  TtsCap,        \* 2000 ms, in ticks
  RecycleAt,     \* tts restarts without READY that recycle llmd (3)
  ForkOutcomes,  \* possible results of fork(): {TRUE}, or BOOLEAN under memory pressure
  Commands       \* argv[1] of the process that becomes the daemon

Names == {Order[i] : i \in DOMAIN Order}

ASSUME TableAssumption ==
  /\ Order \in Seq(STRING) /\ Order # <<>>
  /\ \A i, j \in DOMAIN Order : Order[i] = Order[j] => i = j
  /\ Enabled \subseteq Names

ASSUME LimitAssumption ==
  /\ BackoffCap \in Nat \ {0}
  /\ TtsCap \in Nat \ {0}
  /\ RecycleAt \in Nat \ {0}
  /\ ForkOutcomes \subseteq BOOLEAN
  /\ Commands \subseteq {"start", "restart"}

\* player is the one entry without a ready_pat.
Gated == Names \ {"player"}

Never == -1      \* restart_at_ms = 0

VARIABLES
  pc,         \* where main is: "start", "await", "sleep", "scan", "watch"
  idx,        \* index of the child main or reap_and_restart is at
  shutting,   \* g_shutting_down
  proc,       \* the process c.pid names: "none" iff c.pid = -1
  strays,     \* live processes of a child that no c.pid names
  said,       \* history: this round of the child has printed its ready_pat
  inLog,      \* c.ready_pat occurs in c.log_path
  up,         \* c.up
  backoff,    \* c.backoff_ms, in ticks
  due,        \* c.restart_at_ms, as the ticks left until it
  ttsFailRun, \* tts_fail_run
  ttsDeaths   \* history: tts deaths since it was last seen ready, or the last recycle

table == <<up, backoff, due>>
children == <<proc, strays, said, inLog>>
vars == <<pc, idx, shutting, children, table, ttsFailRun, ttsDeaths>>

-----------------------------------------------------------------------------
Cur == Order[idx]
Starting == pc \in {"start", "await"}

Least(a, b) == IF a <= b THEN a ELSE b

\* ready(): an empty pattern is ready at once.
Ready(c) == c \in Gated => inLog[c]


\* Two faults: the doubled delay is not capped; tts is capped like the others.
FaultUncapped(c) == IF backoff[c] = 0 THEN 1 ELSE 2 * backoff[c]
FaultTtsWaits(c) == Least(IF backoff[c] = 0 THEN 1 ELSE 2 * backoff[c], BackoffCap)

\* The delay after one more exit: doubled from one tick, capped, tts capped lower.
NextBackoff(c) ==
  LET doubled == IF backoff[c] = 0 THEN 1 ELSE 2 * backoff[c]
      capped  == Least(doubled, BackoffCap)
  IN  IF c = "tts" THEN Least(capped, TtsCap) ELSE capped


\* Fault: no pkill before the fork.
FaultNoPkill(c) == strays

\* pkill -x kvr_new: the runners that outlived their wrapper die first.
StraysAfterPkill(c) == IF c = "tts" THEN [strays EXCEPT ![c] = 0] ELSE strays

\* A process still named by c.pid is no longer named once c.pid is overwritten.
StraysAfterFork(c, procs) ==
  IF procs[c] = "alive" THEN [StraysAfterPkill(c) EXCEPT ![c] = @ + 1]
                        ELSE StraysAfterPkill(c)


\* Fault: the log keeps what earlier rounds wrote.
FaultStaleLog(c, procs) ==
  /\ UNCHANGED inLog
  /\ said' = [said EXCEPT ![c] = FALSE]
  /\ proc' = [procs EXCEPT ![c] = "alive"]
  /\ strays' = StraysAfterFork(c, procs)
  /\ up' = [up EXCEPT ![c] = FALSE]

\* spawn_child: kill old runners, empty the log, fork.  A failed fork returns
\* without touching the entry; the log is already empty by then.
SpawnFrom(c, procs) ==
  /\ inLog' = [inLog EXCEPT ![c] = FALSE]
  /\ said' = [said EXCEPT ![c] = FALSE]
  /\ \E forked \in ForkOutcomes :
       IF forked
       THEN /\ proc' = [procs EXCEPT ![c] = "alive"]
            /\ strays' = StraysAfterFork(c, procs)
            /\ up' = [up EXCEPT ![c] = FALSE]
       ELSE /\ proc' = procs
            /\ strays' = StraysAfterPkill(c)
            /\ UNCHANGED up

-----------------------------------------------------------------------------
(* main: the ordered start. *)

SkipDisabled ==
  /\ pc = "start" /\ idx <= Len(Order)
  /\ Cur \notin Enabled
  /\ idx' = idx + 1
  /\ UNCHANGED <<pc, shutting, children, table, ttsFailRun, ttsDeaths>>

StartChild ==
  /\ pc = "start" /\ idx <= Len(Order)
  /\ Cur \in Enabled
  /\ SpawnFrom(Cur, proc)
  /\ pc' = "await"
  /\ UNCHANGED <<idx, shutting, backoff, due, ttsFailRun, ttsDeaths>>

\* The poll loop ends on READY, or when ready_timeout_ms is over; c.up is what
\* ready() then says.  Nothing is reaped meanwhile.
AwaitEnds ==
  /\ pc = "await"
  /\ up' = [up EXCEPT ![Cur] = Ready(Cur)]
  /\ pc' = "start"
  /\ idx' = idx + 1
  /\ UNCHANGED <<shutting, children, backoff, due, ttsFailRun, ttsDeaths>>

EnterLoop ==
  /\ pc = "start" /\ idx > Len(Order)
  /\ pc' = "sleep"
  /\ idx' = 1
  /\ UNCHANGED <<shutting, children, table, ttsFailRun, ttsDeaths>>

-----------------------------------------------------------------------------
(* The supervise loop. *)

Wake ==
  /\ pc = "sleep"
  /\ pc' = "scan"
  /\ UNCHANGED <<idx, shutting, children, table, ttsFailRun, ttsDeaths>>

\* The clock moves while main sleeps; a due restart stays due.
Tick ==
  /\ pc = "sleep"
  /\ \E c \in Names : due[c] > 0
  /\ due' = [c \in Names |-> IF due[c] > 0 THEN due[c] - 1 ELSE due[c]]
  /\ UNCHANGED <<pc, idx, shutting, children, up, backoff, ttsFailRun, ttsDeaths>>

\* On to the next entry of g_children.
NextEntry ==
  IF idx = Len(Order) THEN pc' = "watch" /\ idx' = 1
                      ELSE idx' = idx + 1 /\ UNCHANGED pc


\* Fault: only a child that had been ready is scheduled for a restart.
FaultReapReadyOnly ==
  /\ pc = "scan"
  /\ proc[Cur] = "zombie"
  /\ proc' = [proc EXCEPT ![Cur] = "none"]
  /\ up' = [up EXCEPT ![Cur] = FALSE]
  /\ IF shutting \/ ~up[Cur]
     THEN UNCHANGED <<backoff, due>>
     ELSE /\ backoff' = [backoff EXCEPT ![Cur] = NextBackoff(Cur)]
          /\ due' = [due EXCEPT ![Cur] = NextBackoff(Cur)]
  /\ ttsDeaths' = IF Cur = "tts" THEN Least(ttsDeaths + 1, RecycleAt) ELSE ttsDeaths
  /\ NextEntry
  /\ UNCHANGED <<shutting, strays, said, inLog, ttsFailRun>>

\* waitpid returned the child.  While shutting down nothing is scheduled.
Reap ==
  /\ pc = "scan"
  /\ proc[Cur] = "zombie"
  /\ proc' = [proc EXCEPT ![Cur] = "none"]
  /\ up' = [up EXCEPT ![Cur] = FALSE]
  /\ IF shutting
     THEN UNCHANGED <<backoff, due>>
     ELSE /\ backoff' = [backoff EXCEPT ![Cur] = NextBackoff(Cur)]
          /\ due' = [due EXCEPT ![Cur] = NextBackoff(Cur)]
  /\ ttsDeaths' = IF Cur = "tts" THEN Least(ttsDeaths + 1, RecycleAt) ELSE ttsDeaths
  /\ NextEntry
  /\ UNCHANGED <<shutting, strays, said, inLog, ttsFailRun>>

NewlyReady(c) == proc[c] = "alive" /\ ~up[c] /\ c \in Gated /\ inLog[c]


\* Three faults: READY leaves the delay, the run of failures, or up as it was.
FaultKeepBackoff ==
  /\ pc = "scan" /\ NewlyReady(Cur)
  /\ up' = [up EXCEPT ![Cur] = TRUE]
  /\ ttsFailRun' = IF Cur = "tts" THEN 0 ELSE ttsFailRun
  /\ ttsDeaths' = IF Cur = "tts" THEN 0 ELSE ttsDeaths
  /\ NextEntry
  /\ UNCHANGED <<shutting, children, backoff, due>>

FaultKeepFailRun ==
  /\ pc = "scan" /\ NewlyReady(Cur)
  /\ up' = [up EXCEPT ![Cur] = TRUE]
  /\ backoff' = [backoff EXCEPT ![Cur] = 0]
  /\ ttsDeaths' = IF Cur = "tts" THEN 0 ELSE ttsDeaths
  /\ NextEntry
  /\ UNCHANGED <<shutting, children, due, ttsFailRun>>

FaultNotUp ==
  /\ pc = "scan" /\ NewlyReady(Cur)
  /\ backoff' = [backoff EXCEPT ![Cur] = 0]
  /\ ttsFailRun' = IF Cur = "tts" THEN 0 ELSE ttsFailRun
  /\ ttsDeaths' = IF Cur = "tts" THEN 0 ELSE ttsDeaths
  /\ NextEntry
  /\ UNCHANGED <<shutting, children, up, due>>

SeeReady ==
  /\ pc = "scan"
  /\ NewlyReady(Cur)
  /\ up' = [up EXCEPT ![Cur] = TRUE]
  /\ backoff' = [backoff EXCEPT ![Cur] = 0]
  /\ ttsFailRun' = IF Cur = "tts" THEN 0 ELSE ttsFailRun
  /\ ttsDeaths' = IF Cur = "tts" THEN 0 ELSE ttsDeaths
  /\ NextEntry
  /\ UNCHANGED <<shutting, children, due>>


\* Fault: a child whose delay has reached the cap is given up.
FaultGiveUp(c) ==
  proc[c] = "none" /\ ~shutting /\ c \in Enabled /\ due[c] = 0 /\ backoff[c] < BackoffCap

MustRespawn(c) == proc[c] = "none" /\ ~shutting /\ c \in Enabled /\ due[c] = 0

Respawn ==
  /\ pc = "scan"
  /\ MustRespawn(Cur) /\ Cur # "tts"
  /\ due' = [due EXCEPT ![Cur] = Never]
  /\ SpawnFrom(Cur, proc)
  /\ NextEntry
  /\ UNCHANGED <<shutting, backoff, ttsFailRun, ttsDeaths>>

\* A tts restart counts against the run of failures; a run of RecycleAt kills
\* llmd, whose pinned memory is taken for the cause, up or still loading.
RecycleDue == ttsFailRun + 1 >= RecycleAt


\* Fault: the recycle kills the whole table.
FaultKillAll ==
  [c \in Names |-> IF proc[c] = "alive" THEN "zombie" ELSE proc[c]]

KillLlmd ==
  [c \in Names |-> IF c = "llmd" /\ proc[c] = "alive" THEN "zombie" ELSE proc[c]]

RespawnTts ==
  /\ pc = "scan"
  /\ MustRespawn(Cur) /\ Cur = "tts"
  /\ due' = [due EXCEPT ![Cur] = Never]
  /\ ttsFailRun' = IF RecycleDue THEN 0 ELSE ttsFailRun + 1
  /\ ttsDeaths' = IF RecycleDue THEN 0 ELSE ttsDeaths
  /\ SpawnFrom(Cur, IF RecycleDue THEN KillLlmd ELSE proc)
  /\ NextEntry
  /\ UNCHANGED <<shutting, backoff>>

Spawning == StartChild \/ Respawn \/ RespawnTts

LeaveAlone ==
  /\ pc = "scan"
  /\ proc[Cur] # "zombie" /\ ~NewlyReady(Cur) /\ ~MustRespawn(Cur)
  /\ NextEntry
  /\ UNCHANGED <<shutting, children, table, ttsFailRun, ttsDeaths>>

\* A pass in which neither watchdog acts (ChatdWatch refines this step).
EndPass ==
  /\ pc = "watch"
  /\ pc' = "sleep"
  /\ UNCHANGED <<idx, shutting, children, table, ttsFailRun, ttsDeaths>>

-----------------------------------------------------------------------------
(* The children. *)

chatdState == <<pc, idx, shutting, table, ttsFailRun, ttsDeaths>>

PrintReady(c) ==
  /\ proc[c] = "alive" /\ c \in Gated
  /\ said' = [said EXCEPT ![c] = TRUE]
  /\ inLog' = [inLog EXCEPT ![c] = TRUE]
  /\ UNCHANGED <<chatdState, proc, strays>>

\* A crash, a clean exit, a kill from outside, or an exec that failed.
Exit(c) ==
  /\ proc[c] = "alive"
  /\ proc' = [proc EXCEPT ![c] = "zombie"]
  /\ UNCHANGED <<chatdState, strays, said, inLog>>

\* The tts wrapper (safe_run.sh) dies and leaves its runner behind.
Detach ==
  /\ "tts" \in Names /\ proc["tts"] = "alive"
  /\ proc' = [proc EXCEPT !["tts"] = "zombie"]
  /\ strays' = [strays EXCEPT !["tts"] = @ + 1]
  /\ UNCHANGED <<chatdState, said, inLog>>

\* A left-behind runner still writes the log.  It speaks for the present round
\* only as long as no newer process was started.
StrayPrints ==
  /\ "tts" \in Names /\ strays["tts"] > 0
  /\ inLog' = [inLog EXCEPT !["tts"] = TRUE]
  /\ said' = [said EXCEPT !["tts"] = @ \/ proc["tts"] # "alive"]
  /\ UNCHANGED <<chatdState, proc, strays>>

StrayExit ==
  /\ "tts" \in Names /\ strays["tts"] > 0
  /\ strays' = [strays EXCEPT !["tts"] = @ - 1]
  /\ UNCHANGED <<chatdState, proc, said, inLog>>

-----------------------------------------------------------------------------
\* An earlier chatd may have left full logs and a detached runner.
Init ==
  /\ pc = "start" /\ idx = 1
  /\ shutting \in {cmd = "restart" : cmd \in Commands}
  /\ proc = [c \in Names |-> "none"]
  /\ strays \in {s \in [Names -> 0..1] : \A c \in Names : c # "tts" => s[c] = 0}
  /\ said = [c \in Names |-> FALSE]
  /\ inLog \in [Names -> BOOLEAN]
  /\ up = [c \in Names |-> FALSE]
  /\ backoff = [c \in Names |-> 0]
  /\ due = [c \in Names |-> Never]
  /\ ttsFailRun = 0
  /\ ttsDeaths = 0

Boot == SkipDisabled \/ StartChild \/ AwaitEnds \/ EnterLoop

Scan == Reap \/ SeeReady \/ Respawn \/ RespawnTts \/ LeaveAlone

Child ==
  \/ \E c \in Names : PrintReady(c) \/ Exit(c)
  \/ Detach \/ StrayPrints \/ StrayExit

Next == Boot \/ Wake \/ Tick \/ Scan \/ EndPass \/ Child

\* chatd is one thread that never blocks for good; every pass sleeps 200 ms,
\* so the clock cannot stand still while passes go on.
Fairness == WF_vars(Boot \/ Wake \/ Scan \/ EndPass) /\ SF_vars(Tick)

Spec == Init /\ [][Next]_vars

LiveSpec == Spec /\ Fairness

\* A child that lives long enough prints its pattern.
PatientSpec == LiveSpec /\ \A c \in Names : WF_vars(PrintReady(c))

-----------------------------------------------------------------------------
(* Properties. *)

TypeOK ==
  /\ pc \in {"start", "await", "sleep", "scan", "watch"}
  /\ idx \in 1..Len(Order) + 1
  /\ pc # "start" => idx \in 1..Len(Order)
  /\ shutting \in BOOLEAN
  /\ proc \in [Names -> {"none", "alive", "zombie"}]
  /\ strays \in [Names -> Nat]
  /\ said \in [Names -> BOOLEAN]
  /\ inLog \in [Names -> BOOLEAN]
  /\ up \in [Names -> BOOLEAN]
  /\ backoff \in [Names -> 0..BackoffCap]
  /\ due \in [Names -> {Never} \cup 0..BackoffCap]
  /\ ttsFailRun \in 0..RecycleAt
  /\ ttsDeaths \in 0..RecycleAt

Live(c) == strays[c] + (IF proc[c] = "alive" THEN 1 ELSE 0)

\* No child ever runs twice: not across restarts, not with a detached runner
\* of an earlier round (the pkill in spawn_child), not with the runner that an
\* earlier chatd left (two kpud once exhausted CMA, two runners share a FIFO).
AtMostOneInstance == \A c \in Names : Live(c) <= 1

\* A child counts as up only on a READY of its present round, never on one
\* that an earlier round left in the log (the truncate in spawn_child).
ReadyIsFresh == \A c \in Gated : up[c] => said[c]

\* A child that reached READY starts its next crash with the first delay again.
UpHasNoBackoff == \A c \in Names : up[c] => backoff[c] = 0

\* tts is never kept waiting longer than its own cap, however often it dies and
\* whatever becomes of its restarts (chatd.cpp:386-391: else the gap lets the hardware reset the board).
TtsIsQuick == "tts" \in Names => backoff["tts"] <= TtsCap /\ due["tts"] <= TtsCap

BackoffIsRight == UpHasNoBackoff /\ TtsIsQuick

\* Children main has come past in the ordered start.
Passed == IF Starting THEN {Order[i] : i \in 1..idx - 1} ELSE Names

\* Every enabled child that is dead has its restart scheduled
\* (chatd.cpp:19: any child that exits abnormally is restarted with backoff).
NoChildForgotten ==
  \A c \in Passed \cap Enabled : proc[c] = "none" => due[c] # Never

\* llmd is sacrificed only after RecycleAt tts deaths with no READY between.
Recycles == "tts" \in Names /\ RespawnTts /\ RecycleDue
RecycleIsEarned == [][Recycles => ttsDeaths = RecycleAt]_vars

\* A child that does not keep dying is seen up in the end.
UpUnlessCrashing ==
  \A c \in Enabled \cap Gated : []<>up[c] \/ []<>(proc[c] = "zombie")
=============================================================================
