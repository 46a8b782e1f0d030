----------------------------- MODULE ChatdWatch -----------------------------
(***************************************************************************)
(* chatd with both watchdogs of its supervise loop (chatd.cpp:587-698), the *)
(* hardware watchdog device, and the ask_pending flag that ask.sh sets.     *)
(* The table, the scan and the children are those of Chatd.                 *)
(***************************************************************************)
EXTENDS Chatd

CONSTANTS
  StallTicks,   \* quiet time after which a pending ask costs llmd its life (60 s)
  FreezeTicks,  \* quiet time after which the hardware is no longer fed (240 s)
  FeedTicks,    \* pause between two feeds (8 s)
  BiteTicks,    \* time the hardware waits for a feed
  MaxLag,       \* ticks one pass of the loop may take; bounds CPU starvation
  WdtOpens      \* whether WDT_ENABLE=1 and /dev/watchdog opens: subset of BOOLEAN

ASSUME WatchAssumption ==
  /\ {StallTicks, FreezeTicks, FeedTicks, BiteTicks, MaxLag} \subseteq Nat \ {0}
  /\ WdtOpens \subseteq BOOLEAN

VARIABLES
  stage,      \* within pc = "watch": "hw", "soft", "forensics" or "done"
  running,    \* the chatd process exists
  pending,    \* the file ask_pending exists
  asking,     \* an ask.sh waits for its answer
  askAge,     \* ticks since that ask.sh wrote its question
  answered,   \* llm_out.log holds a DONE more than when that ask.sh began
  llmLog,     \* llm_out.log: "empty", "same" as llm_size, or "more"
  seen,       \* llm_size: "none" (-1), "empty" (0) or "text"
  quiet,      \* ticks since llm_last_change
  armed,      \* the device was opened and not closed with "V"
  bite,       \* ticks until the hardware resets the board
  sinceFeed,  \* ticks since wdt_last_feed
  bait,       \* wdt_bait
  lag         \* ticks since the last pass began

asks == <<pending, asking, askAge, answered>>
log == <<llmLog, seen, quiet>>
wdt == <<armed, bite, sinceFeed, bait>>
watchVars == <<stage, running, asks, log, wdt, lag>>
allVars == <<vars, watchVars>>

\* Time stops, until the reset, once the hardware has bitten.
Expired == armed /\ bite = 0
Active == running /\ ~Expired

Until(n, limit) == Least(n + 1, limit + 1)

-----------------------------------------------------------------------------
(* Steps of the table.  A spawn of llmd empties its log, READY is output.    *)

WSpawn ==
  /\ Active /\ Spawning
  /\ llmLog' = IF Cur = "llmd" THEN "empty" ELSE llmLog
  /\ answered' = (Cur # "llmd" /\ answered)
  /\ UNCHANGED <<stage, running, pending, asking, askAge, seen, quiet, wdt, lag>>

WOther ==
  /\ Active /\ (SkipDisabled \/ AwaitEnds \/ Reap \/ SeeReady \/ LeaveAlone)
  /\ UNCHANGED watchVars

\* Before the loop: llm_size = -1, llm_last_change = now, the device is opened
\* and fed once.
WEnterLoop ==
  /\ Active /\ EnterLoop
  /\ seen' = "none" /\ quiet' = 0
  /\ armed' \in WdtOpens /\ bite' = BiteTicks /\ sinceFeed' = 0 /\ bait' = FALSE
  /\ lag' = 0
  /\ UNCHANGED <<stage, running, asks, llmLog>>

WWake ==
  /\ Active /\ Wake
  /\ lag' = 0
  /\ UNCHANGED <<stage, running, asks, log, wdt>>

\* Time passes while main sleeps (the time a pass takes is charged to the next
\* sleep), and for the board also when chatd is gone.
WTick ==
  /\ ~Expired
  /\ IF running
     THEN /\ pc = "sleep" /\ lag < MaxLag
          /\ Tick \/ (UNCHANGED vars /\ \A c \in Names : due[c] <= 0)
          /\ lag' = lag + 1
     ELSE UNCHANGED <<vars, lag>>
  /\ quiet' = Until(quiet, FreezeTicks)
  /\ sinceFeed' = Until(sinceFeed, FeedTicks)
  /\ bite' = IF armed THEN bite - 1 ELSE bite
  /\ askAge' = IF asking THEN Until(askAge, FreezeTicks) ELSE askAge
  /\ UNCHANGED <<stage, running, pending, asking, answered, llmLog, seen, armed, bait>>

-----------------------------------------------------------------------------
(* The watchdogs, after each scan. *)

Frozen == pending /\ quiet > FreezeTicks


\* Two faults: after the open the hardware is not fed again; the
\* feeding goes on while the chain is frozen.
FaultRareFeed ==
  /\ Active /\ pc = "watch" /\ stage = "hw"
  /\ bait' = (armed /\ Frozen)
  /\ UNCHANGED <<bite, sinceFeed>>
  /\ stage' = "soft"
  /\ UNCHANGED <<vars, running, asks, log, armed, lag>>

FaultFeedAlways ==
  /\ Active /\ pc = "watch" /\ stage = "hw"
  /\ bait' = (armed /\ Frozen)
  /\ IF armed /\ sinceFeed > FeedTicks
     THEN bite' = BiteTicks /\ sinceFeed' = 0
     ELSE UNCHANGED <<bite, sinceFeed>>
  /\ stage' = "soft"
  /\ UNCHANGED <<vars, running, asks, log, armed, lag>>

\* Feed unless the chain is frozen; a log that grew again ends the bait.
HwCheck ==
  /\ Active /\ pc = "watch" /\ stage = "hw"
  /\ IF armed
     THEN /\ bait' = Frozen
          /\ IF ~Frozen /\ sinceFeed > FeedTicks
             THEN bite' = BiteTicks /\ sinceFeed' = 0
             ELSE UNCHANGED <<bite, sinceFeed>>
     ELSE UNCHANGED <<bait, bite, sinceFeed>>
  /\ stage' = "soft"
  /\ UNCHANGED <<vars, running, asks, log, armed, lag>>

SizeChanged == llmLog = "more" \/ (llmLog = "empty" /\ seen # "empty")

\* The stat finds another size: the chain is alive.
SeeGrowth ==
  /\ Active /\ pc = "watch" /\ stage = "soft"
  /\ SizeChanged
  /\ seen' = IF llmLog = "empty" THEN "empty" ELSE "text"
  /\ llmLog' = IF llmLog = "empty" THEN "empty" ELSE "same"
  /\ quiet' = 0
  /\ stage' = "done"
  /\ UNCHANGED <<vars, running, asks, wdt, lag>>


\* Fault: looks for an llmd that is not up.
FaultStalledDown ==
  /\ ~SizeChanged /\ quiet > StallTicks /\ pending
  /\ "llmd" \in Names /\ proc["llmd"] # "none" /\ ~up["llmd"]

Stalled ==
  /\ ~SizeChanged /\ quiet > StallTicks /\ pending
  /\ "llmd" \in Names /\ proc["llmd"] # "none" /\ up["llmd"]

SoftQuiet ==
  /\ Active /\ pc = "watch" /\ stage = "soft"
  /\ ~SizeChanged /\ ~Stalled
  /\ stage' = "done"
  /\ UNCHANGED <<vars, running, asks, log, wdt, lag>>

\* Two samples of /proc 2 s apart and a dump of the thread stacks.
BeginForensics ==
  /\ Active /\ pc = "watch" /\ stage = "soft"
  /\ Stalled
  /\ stage' = "forensics"
  /\ UNCHANGED <<vars, running, asks, log, wdt, lag>>


\* Fault: reaps what it killed itself, without a restart being scheduled.
FaultKillAndReap ==
  /\ Active /\ pc = "watch" /\ stage = "forensics"
  /\ proc' = [proc EXCEPT !["llmd"] = "none"]
  /\ pending' = FALSE
  /\ quiet' = 0
  /\ stage' = "done"
  /\ UNCHANGED <<chatdState, strays, said, inLog,
                 running, asking, askAge, answered, llmLog, seen, wdt, lag>>

\* The kill does not look again at what it was decided on.
KillStalled ==
  /\ Active /\ pc = "watch" /\ stage = "forensics"
  /\ proc' = KillLlmd
  /\ pending' = FALSE
  /\ quiet' = 0
  /\ stage' = "done"
  /\ UNCHANGED <<chatdState, strays, said, inLog,
                 running, asking, askAge, answered, llmLog, seen, wdt, lag>>


\* Fault: the next pass does not begin with the hardware watchdog.
FaultStageKept ==
  /\ Active /\ stage = "done" /\ EndPass
  /\ UNCHANGED <<stage, running, asks, log, wdt, lag>>

WEndPass ==
  /\ Active /\ stage = "done" /\ EndPass
  /\ stage' = "hw"
  /\ UNCHANGED <<running, asks, log, wdt, lag>>

-----------------------------------------------------------------------------
(* The world around chatd. *)

WChild ==
  /\ ~Expired
  /\ \/ /\ \E c \in Names \ {"llmd"} : PrintReady(c)
        /\ UNCHANGED llmLog
     \/ /\ "llmd" \in Names /\ PrintReady("llmd")
        /\ llmLog' = "more"
     \/ /\ (\E c \in Names : Exit(c)) \/ Detach \/ StrayPrints \/ StrayExit
        /\ UNCHANGED llmLog
  /\ UNCHANGED <<stage, running, asks, seen, quiet, wdt, lag>>

\* llmd writes to its log: progress of a turn, or its DONE.
LlmdWrites ==
  /\ ~Expired /\ "llmd" \in Names /\ proc["llmd"] = "alive"
  /\ llmLog' = "more"
  /\ answered' \in {answered, asking}
  /\ UNCHANGED <<vars, stage, running, pending, asking, askAge, seen, quiet, wdt, lag>>

\* ask.sh: set the flag and write the question.
Ask ==
  /\ ~Expired /\ ~asking
  /\ asking' = TRUE /\ pending' = TRUE /\ askAge' = 0 /\ answered' = FALSE
  /\ UNCHANGED <<vars, stage, running, log, wdt, lag>>

\* It waits for one more DONE, 480 s at most, and removes the flag.
AskEnds ==
  /\ ~Expired /\ asking
  /\ answered \/ askAge > FreezeTicks
  /\ asking' = FALSE /\ pending' = FALSE /\ askAge' = 0 /\ answered' = FALSE
  /\ UNCHANGED <<vars, stage, running, log, wdt, lag>>

\* ask.sh is interrupted: nothing removes the flag.
AskInterrupted ==
  /\ ~Expired /\ asking
  /\ asking' = FALSE /\ askAge' = 0 /\ answered' = FALSE
  /\ UNCHANGED <<vars, stage, running, pending, log, wdt, lag>>

\* chatd is killed with SIGKILL: the device stays open and unfed.
ChatdKilled ==
  /\ Active
  /\ running' = FALSE
  /\ UNCHANGED <<vars, stage, asks, log, wdt, lag>>

\* SIGTERM (chatd stop): the handler writes "V", closes the device and exits.
ChatdStopped ==
  /\ Active
  /\ running' = FALSE
  /\ armed' = FALSE
  /\ UNCHANGED <<vars, stage, asks, log, bite, sinceFeed, bait, lag>>

\* A fresh board: tmpfs is empty and S99chat runs "chatd start".
FreshTable ==
  /\ pc' = "start" /\ idx' = 1 /\ shutting' = FALSE
  /\ proc' = [c \in Names |-> "none"] /\ strays' = [c \in Names |-> 0]
  /\ said' = [c \in Names |-> FALSE] /\ inLog' = [c \in Names |-> FALSE]
  /\ up' = [c \in Names |-> FALSE] /\ backoff' = [c \in Names |-> 0]
  /\ due' = [c \in Names |-> Never] /\ ttsFailRun' = 0 /\ ttsDeaths' = 0


\* Fault: the boot script does not start chatd.
FaultNoStart ==
  /\ stage' = "hw" /\ running' = FALSE
  /\ pending' = FALSE /\ asking' = FALSE /\ askAge' = 0 /\ answered' = FALSE
  /\ llmLog' = "empty" /\ seen' = "none" /\ quiet' = 0
  /\ armed' = FALSE /\ bite' = BiteTicks /\ sinceFeed' = 0 /\ bait' = FALSE
  /\ lag' = 0

FreshWatch ==
  /\ stage' = "hw" /\ running' = TRUE
  /\ pending' = FALSE /\ asking' = FALSE /\ askAge' = 0 /\ answered' = FALSE
  /\ llmLog' = "empty" /\ seen' = "none" /\ quiet' = 0
  /\ armed' = FALSE /\ bite' = BiteTicks /\ sinceFeed' = 0 /\ bait' = FALSE
  /\ lag' = 0

Reboot == Expired /\ FreshTable /\ FreshWatch

-----------------------------------------------------------------------------
WInit ==
  /\ Init
  /\ stage = "hw" /\ running = TRUE
  /\ pending = FALSE /\ asking = FALSE /\ askAge = 0 /\ answered = FALSE
  /\ llmLog = "empty" /\ seen = "none" /\ quiet = 0
  /\ armed = FALSE /\ bite = BiteTicks /\ sinceFeed = 0 /\ bait = FALSE
  /\ lag = 0

Loop == \/ WSpawn \/ WOther \/ WEnterLoop \/ WWake
        \/ HwCheck \/ SeeGrowth \/ SoftQuiet \/ BeginForensics \/ KillStalled \/ WEndPass

User == Ask \/ AskEnds \/ AskInterrupted

WNext == Loop \/ WTick \/ WChild \/ LlmdWrites \/ User
         \/ ChatdKilled \/ ChatdStopped \/ Reboot

WSpec == WInit /\ [][WNext]_allVars

\* chatd keeps running its loop, every pass sleeps, and the hardware bites.
WLiveSpec ==
  WSpec /\ WF_allVars(Loop) /\ SF_allVars(WTick) /\ WF_allVars(Reboot)

-----------------------------------------------------------------------------
(* Properties. *)

WTypeOK ==
  /\ stage \in {"hw", "soft", "forensics", "done"}
  /\ pc # "watch" => stage = "hw"
  /\ {running, pending, asking, answered, armed, bait} \subseteq BOOLEAN
  /\ askAge \in 0..FreezeTicks + 1
  /\ llmLog \in {"empty", "same", "more"}
  /\ seen \in {"none", "empty", "text"}
  /\ quiet \in 0..FreezeTicks + 1
  /\ bite \in 0..BiteTicks
  /\ sinceFeed \in 0..FeedTicks + 1
  /\ lag \in 0..MaxLag

\* chatd with its watchdogs is chatd: a stall kill is an exit of llmd, and all
\* else the watchdogs do leaves the table alone.
StepsAsChatd == Init /\ [][Next \/ Init']_vars

\* While chatd runs, the board is reset only out of a bait, and never with an
\* llmd that has been up and silent for more than a pass: there the soft kill
\* comes first (chatd.cpp:597-599).
RebootIsLastResort ==
  [][Reboot /\ running => bait /\ (up["llmd"] => quiet <= MaxLag)]_allVars

\* A pending ask whose llmd is up does not stay without output for good: the
\* output comes, the flag goes or llmd is killed.
StallIsCured ==
  []<>(~running \/ ~pending \/ ~up["llmd"] \/ quiet <= StallTicks)

\* With the hardware watchdog no ask stays frozen for good, whatever state llmd
\* hangs in and even if chatd itself is killed.
FreezeIsCured == []<>(~armed \/ ~pending \/ quiet <= FreezeTicks)

\* A killed chatd comes back: the board resets.
ChatdIsRescued == (~running /\ armed) ~> running

\* A question gets its full stall time before llmd is killed for it: the
\* comment asks for an ask in flight and a log that has not grown for long
\* (chatd.cpp:590).
KillWaitsForAsk ==
  [][KillStalled /\ asking => askAge > StallTicks]_allVars
=============================================================================
