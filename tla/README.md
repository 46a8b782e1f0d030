# Verification of the K230 offline voice assistant

TLA+ specifications, TLC runs and TLAPS proofs for the program in this
repository: a Chinese voice assistant that runs entirely on a K230 board (Linux,
one big core, a KPU accelerator, 2 GB of RAM, one contiguous pool CMA/MMZ).
References such as `chatd.cpp:384` are to `src/`.

## 1. Inventory

### A. chatd, the nanny — `llm/board/chatd.cpp`, `chat_service/S99chat`, `chat.conf`, `llm/board/safe_run.sh`

*State.* The table `g_children` (kpud, tts, player, llmd; per entry `pid`, `up`,
`backoff_ms`, `restart_at_ms`, log file, READY pattern), `tts_fail_run`,
`g_shutting_down`, the lock file `chatd.lock`, the watchdogs' `llm_size`,
`llm_last_change`, `wdt_fd`, `wdt_last_feed`, `wdt_bait`. Outside the process: the
children's log files, the FIFOs, the flag file `ask_pending`, `/dev/watchdog`.

*Operations.* `start`/`stop`/`restart`/`status`; ordered start (539-548); the
supervise loop, every 200 ms: reap, READY poll, backoff, respawn (371-430), soft
stall watchdog and hardware watchdog (587-698); SIGTERM handler (528-538).

*Interaction.* fork/exec and SIGKILL/SIGTERM towards the children; READY lines in
log files the children append to and chatd truncates; `ask_pending` from `ask.sh`;
the lock file and signals between chatd processes; the hardware watchdog.

*Hard.* Children die at any point, and tts may die as a wrapper while its runner
lives on; stale log lines; a state read before a forensics pass of seconds and
used after it; three time limits that race; two chatds at once; SIGKILL of chatd.

*Correct means.* Never two instances of a child; `up` only on a READY of the
present round; bounded backoff, reset by READY; every death repaired; start in
order; llmd sacrificed only for cause; one chatd, which a stop finds; a reset of
the board only as the last resort; no ask frozen for good.

### B. kpud, the KPU GEMM daemon — `llm/board/kpud.cpp`

*State.* `g_cache` and `g_order` (interpreters per stem and tier S1/S4/S16), caps,
the input tile of each interpreter with `last_mt`, CMA buffers, `g_stop`, one
listening socket and one connection served at a time.
*Operations.* Warm-up, load on demand, the request protocol (head, payload,
answer or refusal with drain), SIGTERM.
*Interaction.* llmd over a Unix socket; chatd by log line and SIGTERM; llmd and
tts by way of CMA.
*Hard.* Framing after refusals and failures; clients that vanish between any two
bytes; loads that fail half-way; what an earlier call left in the tile.
*Correct means.* The stream stays in step, an answer has the length asked for,
caps hold, no buffer is lost, a run sees zeros right of its columns, a client never
waits for good, SIGTERM is obeyed.

### C. Voice pipeline — `chat_service/ask.sh`, `player.sh`, `chat_demo.sh`, `tts/port/kpu_vits_runner.cc`

*State.* The FIFOs `llm_in` and `tts_in` and what the readers have buffered of them; the
DONE lines of `llm_out.log` and `tts_out.log`; `ask_out.txt`; in `ask.sh` `LB`, `n`,
`resent`, `shown`; in `player.sh` `n`; the wav files; in `chat_demo.sh` `pofs`, `pend`,
`clean`, `sent`; in the runner the tokens, durations, mel and sound of the line in hand.
*Operations.* `ask.sh`: count DONE, write the question, every second count again and
print what is new, ask again after 90 s, give up after 480 s. The runner's daemon loop:
read a sentence, synthesise, write the file, log DONE. `player.sh`: count DONE, pick
the oldest new line, play, remove. chatd: one warm-up question at boot.
`chat_demo.sh`: poll the answer as it grows, cut it at the marks, send complete pieces
while fewer than `QUEUE_MAX` wait, play them one after the other.
*Interaction.* Logs one process appends to, chatd empties at every restart of that
process, and a script counts lines in.
*Hard.* Counts across an emptied log; a log or file read twice in one round; requests
lost with a killed reader; second copies of a question; a text that yields no
speech and so no DONE; a size and a content read one after the other; durations that
are fractions of frames, windows and chunks of a fixed size.
*Correct means.* Every sentence heard once and in order; every question answered, its
answer printed whole and not taken for another's; an answered ask ends; what is spoken is
what was written, every word of it; every frame of the sound from its own token, once.

### D. qwen_chat session — `llm/qwen_chat/src/llm.cpp`, `demo/cli_demo.cpp`

*State.* Token history, past key values, `all_seq_len_`/`gen_seq_len_`/`prompt_len_`.
*Operations.* `load`, `response`, `generate`, `forward`, `sample` (repetition penalty,
argmax, pruned head), `evaluate`, `reset`, the three drivers (chat, benchmark,
evaluate). *Hard.* Many turns with and without `reuse_kv`; ids and rows of a pruned
head; a budget checked between two counters. *Correct means.* The counters, the history,
the mask, the positions and the past describe the same tokens; the best id is picked; an
answer keeps its budget and ends.

### E. qwen_chat tokenizers — `llm/qwen_chat/src/tokenizer.cpp`

Special tokens, sentencepiece and byte-level BPE merging, tiktoken, wordpiece. *Hard.*
An agenda with stale entries; a list of boundaries that shrinks while it is walked; a
scan that moves its own index. *Correct means.* What the textbook algorithm gives, and no
text lost.

### Forensics — `chatd.cpp:140-184`

A directory that outlives reboots, with one file per death named by the wall clock, pruned in
the order of the names, on a board whose clock starts anew at every boot.

### F. Not part of the running system

`llm/board/lab/` (experiments, and the python predecessor of kpud), model
compilation and surgery (`llm/compile`, `llm/onnx`), vendor wrappers in `tts/port`,
image, firmware, deployment and benchmark scripts, vendored libraries. llmd itself
(llama.cpp) is a git submodule and not in the repository: it appears as an external
actor that reads questions, writes its log, connects to kpud and dies.

## 2. Modules

| Module | Models | Extends |
|---|---|---|
| `Nanny` | what chatd promises about its children: order, one life each, revival | |
| `Chatd` | child table, ordered start, supervise loop, children | |
| `ChatdNanny` | the refinement mapping from `Chatd` to `Nanny` | `Chatd` |
| `ChatdWatch` | both watchdogs, asks, hardware, kill/stop of chatd, reset | `Chatd` |
| `ChatdLock` | lock file, stop, restart, SIGTERM of several chatd processes | |
| `Kpud` | cache, caps, warm-up, protocol, clients | |
| `Speech` | sentence queue, runner loop, player.sh, restarts of both | |
| `AskSh` | ask.sh, the warm-up question, llmd as seen through files, its restart | |
| `ChatDemo` | one turn of chat_demo.sh | |
| `Synthesis` | the matcha daemon from a line of text to a wav file | |
| `LlmSession` | the session of qwen_chat over many turns | |
| `Tokenizer` | special tokens; Huggingface, Tiktoken and BERT encoding and decoding | |
| `SpmEncode` | Sentencepiece: the agenda and the merging | |
| `Forensics` | the directory of the deaths | |
| `MCChatd`, `MCChatdWatch`, `MCKpud`, `MCChatDemo` | tables, sets and functions for TLC | |
| `MCBoard` | the liveness of `Kpud`, `Speech`, `Forensics`, `ChatDemo` in one run | the four |
| `MCDaemons` | the safety of `ChatdLock` and `Kpud` in one run | the two |
| `MCEngines` | `LlmSession`, `Tokenizer`, `SpmEncode`, `Synthesis` in one run | the four |
| `ChatdProofs` | theorems about `Chatd` and `ChatdNanny`, and about `ChatdWatch` (section 4) | these, `TLAPS` |
| `AskProofs` | theorems about `AskSh` | this, `TLAPS` |
| `ChatdFilesProofs` | theorems about `ChatdLock` and `Forensics` | these, `TLAPS` |
| `BoardProofs` | theorems about `Speech`, `ChatDemo` and `Kpud` | these, `TLAPS` |
| `EngineProofs` | theorems about `LlmSession`, `Synthesis` and `SpmEncode` | these, `TLAPS` |
| `TokenizerProofs` | byte pair encoding is the textbook's; Huggingface and Tiktoken keep the text | `Tokenizer`, `TLAPS` |
| `TextProofs` | BERT keeps the text, and the scan does | `TokenizerProofs` |
| `SetInductions` | induction over the naturals, recursive functions and sequences of sequences, used by five of them | `TLAPS` |

The machines of `MCBoard` share no variable, and neither do those of `MCDaemons` and `MCEngines` (what
`ChatDemo` and `Speech` have in common, the tts daemon, is external to the one and modelled in
the other): `subject` says which of them moves, and the rest stay in one initial state.
This saves runs, not states: every machine is explored in full, under its own fairness.

An operator whose comment begins with *Fault* is a plausible mistake in the
definition that follows it; it is used by nothing in the specifications. It shows
that the property it belongs to (PROJECT.json, `mutants`) can see such a mistake.

### Chatd and the code

`pc` and `idx` say where `main` is: `start`/`await` in the loop over the table
(539-548), `sleep` in `usleep`, `scan` in `reap_and_restart` at entry `idx`,
`watch` between the scan and the next sleep. One action is one entry's turn in one
pass: `Reap` (waitpid found it dead: schedule), `SeeReady`, `Respawn`/`RespawnTts`
(due and dead: spawn), `LeaveAlone`. `SpawnFrom` is the whole of `spawn_child`: the
pkill of old runners, the truncate of the log, the fork, which may fail.
`restart_at_ms` is kept as ticks to go (`due`, -1 for 0); `reap_and_restart` reads
the clock once per pass, so `Tick` fires only in the sleep. One tick is the
first delay, 1 s. `proc` is the process `c.pid` names, `strays` counts live processes
no `c.pid` names: an overwritten pid, a detached runner, what an earlier chatd
left. `said` and `ttsDeaths` are history variables, read by properties only. A child
may print READY any time, exit any time and, for tts, leave its runner behind.
`player` is the one entry without a READY pattern (274-288), so `ready()` is true for
it at once in the ordered start and it is never seen ready by the loop.

Initially (`Init`) logs may already hold READY lines and a runner of an earlier
chatd may be alive: both happen after a SIGKILL of chatd. `shutting` is true exactly
for a daemon that came out of `restart` (498).

### ChatdWatch and the code

The pass of the loop is cut where other processes can come between: `HwCheck`
(615-631), `SeeGrowth`/`SoftQuiet`/`BeginForensics` (632-665), `KillStalled`
(666-695). The log of llmd is abstracted to whether `stat` shows the size of the
last pass (`llmLog`); a log that is not there and an empty one are the same.
`WTick` may fire only while chatd sleeps or is gone; `lag` bounds by `MaxLag` what
one sleep and the pass before it take, so that slow passes delay a feed. The flag
is set and removed by `Ask`/`AskEnds`, and left behind by `AskInterrupted`. SIGKILL
leaves the device armed; SIGTERM disarms it ("V", close). `Expired` is the moment
the hardware bites: nothing but `Reboot` happens then, which runs S99chat with an
empty tmpfs. `WdtOpens` is whether the device is used and opens.

Abstracted: the warm-up ask of 553-586 (see `AskSh`), the forensics files, `drop_caches`.

### ChatdLock and the code

`path` is the file the name refers to, `content` the pid in each file, `fd` the
file a process has open: a file may be unlinked while its creator still writes to
it. `open(O_EXCL)`, reading the owner, judging it, `open(O_TRUNC)` and `dprintf` are
separate steps, and any number of processes may be at any of them. The stop half
reads the owner again, signals it, and looks up to `Polls` times whether it is gone (493-497:
100 looks in 10 s); then it goes on, with the target alive or not. S99chat's `rm -f` and its
`pkill` may come at any moment. Pids are not reused.

Two histories are read by properties only: `owed`, the daemons that ran when a stop was
issued, and `breach`, how the lock has been got round. It gets `race` when a pid is written while
another process goes by an earlier look at the file, and `rm` when the file is removed
beside a process that has the lock. The properties of a sound lock speak of the states before a
breach; `LockKeepsOut`, which is what the comment at 446-448 says, fails (run `lock_race`).

### Kpud and the code

`phase` is main, `at` the place in `handle_conn`. Floats on the wire are counted,
not modelled; a wrong count shows as floats where a head should be, which fail the
magic check. `Fold` is what `invoke` does to the input tile: zero the columns given
up since the last call, remember `last_mt`, write `mt` columns; `used` is the
right-most non-zero column. `Refused` is the cap and CMA check at the top of
`load_entry`, `Load` the rest of it, which ends in one of `Outcomes`. A client may leave, or die, at
any moment: what it had sent stays readable, or only a part of it (`Close` cuts what is on the
wire), and `SeeClosed` is recv finding the end between two requests or inside one. Clients send
row counts that fit their tier or that kpud refuses (`TileAssumption`): a tile of S16 has 256
columns, but kpud accepts up to 65536 rows (412) and would write beyond the tile
(296-349), where nothing the code says determines what follows. llmd, who cuts its tiles, is not here, so
this stays an assumption about it.
Loads that end with a wrong rank are left out of the runs, because that path loses
its buffer (Divergences) and `mmz` would grow without bound.

### Speech, AskSh and the code

Sentences and questions are numbers in the order they are sent; the number of a
sentence is also its wav name. `log` is the list of DONE lines, so that `grep -c` is
`Len` and `tail -n k | head -1` an index. A reader takes all the pipe holds in one read
(getline over stdio), and what it took is lost with it, while the pipe itself survives
because chatd holds both ends. A death of the runner stands for the wrapper and the
detached runner together: `spawn_child` kills the latter before it empties the log.
`Skip` is every way a sentence ends without DONE. In `player.sh` the two greps are
separate steps, and so are aplay and rm.

In `AskSh` one round of the loop is `Look` (16) and then `Show` or `ShowMore` (17-28), so
that llmd comes between. Rounds are not tied to llmd's pace: it may be faster or slower
by any amount. `text` is the length of the answer file. The watchdog's kill removes
`ask_pending` (`chatd.cpp:692`), other deaths do not: `LlmdDies` does either. The
histories `excused`, `raced`, `hurried`, `lost` say precisely which hazards a property
allows for; everything else that goes missing violates it.

### ChatDemo and the code

`dp` is the place in `one_stream`: `poll` the condition of the loop (37), `measure` and
`tail` the two looks at the file (39-43), `queue` the inner wait (53-57), `send` one
round of the sending loop each (60-68), `rest` 71-84, `play` 87-101. An answer is a
sequence of words and marks; `smile` is what is not blank but has no sound. `Pieces` is the
awk. `OldText` is what the turn before left in `clean`, which no line of the turn sets
before the loop. llmd (`Grow`, `LlmIsDone`) and the daemon (`Say`) are external and of any
speed. `demoRaced` remembers that the file grew between the two looks. Retries of aplay
(93-100) are one event.

### Synthesis and the code

`ReadLine` is 2042-2094 and the
reading around it: the longest word of the lexicon that fits, or a mark, which ends a
sentence if it may, or a character left out; then the blanks between the tokens. `Expand`
is A and B (2132-2181): any durations, `Bound` the sum cut to frames. `Window` is one
pass of the estimator, `Chunk` one of the vocoder with its crossfade, `EndSentence`
appends the sound, and writes the file after the last. A frame is its number, and sound is a
sequence of hops with the frames mixed in each. The networks are external.

### LlmSession and the code

`sp` is the place in `generate`: `forward` before a call of the network, `sample` after it.
`Respond` is everything up to the first forward, `Forward` the network with the mask and
positions it was given, `Sample` the sampling and the head of the next round (255-280).
Scores are any numbers of a set, times 110, so that the penalty 1.1 stays exact. `past` holds
for every token its position and what it saw, which is how wrong masks show. `Throw`: the
network throws after the past was moved into it. The driver is one of the three `main`s;
`benchmark` and `evaluate` never reset, hence the bound `MaxAll`. With `reuse_kv` and no
`reset` the history outlives the past (`OneTalk`, see Divergences). `SessionAgrees` covers that too:
`Carried` is what the turns before have left in history and counters, and the properties say that the
drift is exactly that, within a turn and between two, and nothing with a `reset` or without `reuse_kv`.

### Tokenizer and SpmEncode and the code

Texts are bytes; classes of characters are those of the C locale. `Tokenizer` scans for special
tokens (`Skip` and `TakeSpecial`, one per round of the loop, then `Rest`) and encodes each segment
with the algorithm of its kind. `Bpe` keeps the list of boundaries of 654-709, `TextbookBpe` is
the definition it is compared with: replace the bigram of the lowest rank wherever it stands until
none is a rule. `TokenAssumption` has the rules in the order they are learnt: a piece that a rule
makes is part of later rules only. Training writes them so, as long as no two rules make one
piece, and the tables of GPT-2 and Qwen have as many pieces beside the bytes as rules. It also has
pieces for the text (`HasPieces`), without which a text is lost whatever the code does: Tiktoken
stops at the first byte without a piece, BERT writes `UNK` for a word. For Tiktoken each byte of
the text is a piece; for BERT each letter and digit is one, at the head of a word and within, each
other sign, and each character of three bytes, the text is UTF-8 without characters of four bytes,
and the special tokens are ASCII ([CLS] and its like). Huggingface needs nothing, since it throws
at an unknown piece (`"dead"`). `Core` is what the encodings keep of a text (`Kept`), and
`NothingLost` compares the core of the text with that of what the ids decode to (`Back`).
`SpmEncode` has one step per entry taken from the agenda (338-364); the reference looks for the
best pair of the present symbols from nothing each time. The vocabularies are those of a loaded
file; the parser of the file is not modelled.

### Forensics and the code

`Snapshot` is `snapshot_forensics` with its rotation; a name is the digits of the clock, an
underscore, and the child, and `Before` is the order of strings. `Reboot` puts the clock anywhere.

## 3. Runs

| Run | Question | States |
|---|---|---|
| `chatd_table` | Four entries, one disabled, forks that fail, start and restart: all safety of the table, and the order promised by `Nanny` | 477 k |
| `chatd_promise` | tts and llmd, fork succeeds: nothing dead is forgotten, `Nanny` with its fairness, up unless it keeps dying | 9 k |
| `chatd_after_restart` | *violation*: a daemon made by `restart` forgets its children | |
| `watch` | both watchdogs: last resort, every stall and freeze cured, killed chatd rescued, the table untouched | 154 k |
| `watch_fresh_ask` | *violation*: a question gets its full stall time | |
| `daemons` | lock: three processes, no assumption about who starts when: one daemon, named by the lock, until a breach; what a finished stop has reached; no unjust refusal. kpud: one client that may die in mid-request, closed tier and open ones, all outcomes but rank: framing, answers, caps, buffers, tile | 1.7 M |
| `lock_race` | *violation*: two starts at once leave one daemon | |
| `ask` | two questions, warm-up, one llmd death: own answer, printed whole, question survives | 1.0 M |
| `ask_after_death` | *violation*: an ask whose answer is in the log ends | |
| `board` | kpud, two clients: every ask ends, SIGTERM is obeyed; speech: four sentences, two runner deaths, one player death, heard once, in order, none missing but those accounted for; forensics: the newest deaths are kept; demo: what is spoken is what was written, in order, and the turn ends | 231 k |
| `engines` | session: several turns agree, the best id is picked, answers end; tokens and pieces: as the textbook, no text lost; synthesis: a line is said whole, every frame in place | 213 k |
| `demo_rest` | *violation*: the rest of an answer is sent | |

Properties that belong together are one conjunction of named parts, which the module
states one by one: `AnswersAreApart` (`AnswerIsOwn`, `PrintedWhole`), `PlayedAsSaid`
(`PlayedOnce`, `PlayedInOrder`), `BackoffIsRight` (`UpHasNoBackoff`, `TtsIsQuick`: the
lower cap of tts), `DaemonIsAlone` (`OneDaemon`, `DaemonIsNamed`),
`StreamIsFramed` (`InStep`, `AnswerFits`), `CacheIsSound` (`CapHolds`, `BuffersAreOwned`),
`TilesAreClean` (`TailIsZero`, `NothingEvicted`), `DeathsAreKept`, `SpokenAsWritten`,
`SessionAgrees` (`PastIsCounted`, `HistoryIsPast`, `PastIsCausal`), `AnswerIsRight`
(`BestIsPicked`, `BudgetIsUsed`, `NoStopInside`), `TextIsKept`, `SpmIsTextbook`,
`LineIsSaid`, `FramesInPlace`.

*Bounds and why they are enough.* The scan treats an entry the same whatever the
others are, except that tts may kill llmd, which comes after it: the pair shows
every interaction, the four entries the order. `BackoffCap` 3 and `TtsCap` 2 keep
both caps below a doubled delay and apart from each other; `RecycleAt` 2 or 3 needs
repeated failures. In `ChatdWatch` the order stall < freeze < bite of the code is
kept, and the hardware's time exceeds a feed interval plus two slow passes: at 3
instead of 4 `RebootIsLastResort` fails, because a stale bait skips one feed. This is
the code's real condition on `CPU starvation`: the watchdog's timeout must exceed
8 s + 2 passes. Three chatd processes are a daemon, one that stops or replaces it
and one that starts meanwhile; they differ in nothing, so the run of the lock, which has safety
only, uses their symmetry. `Polls` 2 has a stop that gives up after a look, and one that does
not; the theorem has any number. One client is enough for framing, since kpud serves
one connection at a time; the second, in `board`, is for the listen queue. Row counts are one, for which
the tier is closed (cap 0), and the least and the most of S16, which has room for two of three
kernels: so the cap is hit, and a wide call comes before a narrow one in the same tile.

In `Speech` four sentences leave two on either side of a truncation, and the second
death empties a log the player has just realigned to. In `AskSh` two questions are one
ask and the next, which meets its late copies; `GiveUpAt` 3 against `ResendAt` 1 leaves
rounds before, at and after the second sending (with 2 the case of a second answer that
empties the file of the first does not occur); an answer of two words can be
partly printed.

In `Forensics` the clock shows 8 to 11, across a change of the number of digits and back, with two
files kept of four deaths. In `ChatDemo` answers have up to four pieces against `SENT_MAX` 3
and `QUEUE_MAX` 2. In `LlmSession` prompts are shorter and longer than `MaxNew` 4, which leaves
answers of one to four ids, and `MaxAll` 9 leaves room for two to five turns that are never reset.
Texts of up to six letters (Huggingface) hold every overlap of rules of two and three
letters; vocabularies have ties, merges that only a worse one leads to, and characters of
two and three bytes. In `Synthesis` `TB` 5 takes sentences of two tokens and not of three,
lines give up to twelve frames against windows of 3 and chunks of 2, and durations of 0, half a
frame and a frame and a half make every rounding happen.

*Deadlock* is checked for chatd, which never stops. A chatd process that has done
its command stops, and so does kpud after SIGTERM, and a user need not ask again: those runs say
`CHECK_DEADLOCK FALSE`.

*Fairness.* chatd is one thread whose calls all return; every pass sleeps 200 ms, so
the clock cannot stand still while passes go on (strong fairness of `Tick`, which
is enabled only in the sleep). `PatientSpec` adds that a child that lives long enough
prints its READY. The hardware bites (weak fairness of `Reboot`). No fairness of llmd,
of a user or of `ask.sh` is assumed. The lock has no liveness and no fairness: that a stop ends
is the bound of its loop, and that its target dies nobody promises. kpud gets the CPU; a
client reads what was sent to it. The runner, llmd, the player and ask.sh get the CPU,
and chatd restarts what died, which is `KeepsPromise`; nothing makes a user ask. `chat_demo.sh`, the llmd that answers it and the
daemon it speaks to get the CPU; the network of the session returns. In `board` and `engines`
each fairness condition holds of the machine that is the subject only. That a client lets go of its connection is a
premise of the two liveness properties of kpud, not of the specification: with
one thread a second client starves behind one that never leaves.

## 4. Proofs

`ChatdProofs` proves for every table, every set of enabled children, every limit, every
outcome of fork and both commands:

- `ChatdTypeOK`, `ChatdAtMostOneInstance`, `ChatdReadyIsFresh`, `ChatdBackoffIsRight`
  and `ChatdRecycleIsEarned`;
- `ChatdForgetsNoChild`: `NoChildForgotten`, if fork never fails and the daemon was made
  by `start`. The premises are necessary: `chatd_after_restart` is the counterexample
  without the second, and a failing fork is one without the first.

None of these is inductive. `AtMostOneInstance` alone says nothing of a `StartChild`
that overwrites a living `c.pid`: `Unborn` adds that an entry main has not come to
has no process and is not up, and `OneLife` that only tts can have a stray and only
while its `c.pid` names nothing alive, which is what the pkill relies on. `ReadyIsFresh` needs
`LogIsFresh`: the log of a child that is alive and not followed by a stray shows READY only if
this round said it. `UpHasNoBackoff` needs `WaitingIsDown` and `NoDelayYet` (no delay before the
loop), `TtsIsQuick` the lemma `QuickStep` (only the death of tts raises its delay, and to no more than
its own cap), `RecycleIsEarned` the counting `ttsFailRun` against `ttsDeaths`. Their conjunction is
`IInv`; there is one step per action, and below it one per conjunct the action disturbs.
`NoChildForgotten` is proved on top of `IInv` from `Scheduled`.

Beside the watchdogs chatd is chatd. `WatchIsChatd` is `StepsAsChatd`, for all
tables and times, if `chatd start` is among the commands (what S99chat runs): a stall kill is
an `Exit` of llmd, a reset is `Init` again, and everything else leaves the table alone or
is a step of `Chatd`. So `IInv` carries over: `WatchedLiveOnce` is `AtMostOneInstance`
through kills of chatd and resets of the board. `WatchTypeOK` bounds the watchdogs' times.

`ChatdKeepsOrder`: the safety part of the refinement (`KeepsOrder`), for every table, limit and
outcome of fork. Every action of `Chatd` is mapped to one of `Nanny` or to a stutter
(`ChatdNanny`); what the mapping needs of the state is `IInv`, where an entry main has not come
to has had no life.

`WatchRebootIsLastResort`: `RebootIsLastResort`. It is a matter of times, so it assumes the
order the code's have (`InOrder`): `StallTicks` and `MaxLag` are not above `FreezeTicks`, and the
hardware waits longer than a pause between two feeds and two passes, `BiteTicks` > `FeedTicks` +
2 * `MaxLag`. The last is necessary: else a chatd that is merely slow is reset. `LastResort` bounds
how long ago the last feed was by where the pass is (`FedInTime`), and says that a bait belongs to a
frozen and unanswered ask (`BaitIsFrozen`, `BaitIsNew`), and that a child that is up, or an ask that
is answered, was heard in the log (`ReadyIsHeard`, `AnswerIsHeard`).

`ChatdFilesProofs` has what chatd does with files.

- The lock, for any number of processes, killed and signalled at any moment, and nothing assumed of
  who starts when or of S99chat: `LockKeepsItsPromise` (`DaemonIsAlone`), `StopReachesDaemon`
  (`StopIsEffective`) and `RefusalIsAlwaysJustified`. `LockInv`: a pid in the
  file, or read from it, is of the past of the lock code (`NamedIsPast`), so that a refusal is always
  for a process that has the lock. Until a breach, the file names whoever has the lock (`HolderIsNamed`);
  who has looked at it found that one, or knows that there is none and has the file open
  (`LookerIsRight`), which only a pid written after the look can make false; and a stop is
  after the daemon it owes an end (`StopIsOnItsWay`).
- The forensics, for every `KEEP`, any clock and any number of deaths and boots: `ForensicsAreKept`.
  Digits are a recursive function of the clock: `DigitsOrder` shows that digit sequences of one
  length are in the order of the numbers, and `BeforeIs...` that names are in a strict total order,
  so that removing the first of them (`PruningDropsTheFirst`) leaves the newest while the
  clock is steady.

`BoardProofs` has `kpud`, for any clients, kernels, row counts and caps: `StreamAlwaysFramed`,
`TilesAlwaysClean`, and `CacheAlwaysSound` if no load ends with a wrong rank. Framing is
inductive only with all that is under way: `WireOK(c)` says what may be in the two
directions of a connection given the place of kpud and of its client (a request or the rest
of one, whole unless the client is gone, no more than one answer, never both), `TurnOK` what kpud has read, `QueueOK` who is
connected, waiting or served, `StoreOK` how cache, order and buffers count each other and
that `used` is the `last_mt` of every tile.

`AskProofs`: `AnswersAlwaysApart` for any number of questions and deaths. `AskInv` says where
the lines are (`Fresh`, `SentOnce`, `Resending`: which questions can still be in the pipe, in
llmd's hands or in the log, and in how many copies), whose the answer file is (`FileOK`,
`Printing`), when the log has a DONE more than at the start (`NewDone`, `Ended`), and that the
histories have room for what is still to come (`Room`).

`BoardProofs` also has what is heard.

- `AlwaysPlayedAsSaid` for any number of sentences and deaths. `SpeechInv`: numbers rise along
  pipe, runner and log, and each place is ahead of the next (`Queues`); every line the player has
  counted was played or is accounted for (`Behind`); the one it holds comes after all it played
  unless `raced` (`InTurn`).
- `DemoSpeaksAsWritten` and `DemoIsHeardInOrder`, for every answer, every pace of llmd and of
  the daemon and all limits. The first part is a theory of `Pieces`: cutting what was read is cutting the
  whole answer and stopping early, so that a longer look yields the old pieces and more. `DemoInv`
  then says, while text is read, what `pend` and `clean` hold of it (`ReadOnce`, `CleanIsRead`),
  which numbers were sent (`Numbered`, `SentSoFar`) and which words each of them has
  (`WordsAreRight`, `ReadIsSent`).

`EngineProofs` has the engines.

- `SessionAlwaysAgrees` and `AnswerIsAlwaysRight` for every vocabulary, pruning, prompt and all
  scores. The loop of `sample` is a recursive function; that it yields the best row is proved by
  induction over its rounds. `SessionInv` ties the counters to the past and the answer, turn by
  turn (`AnswerIsCounted`), and says that the chat driver starts each turn with nothing
  (`ChatForgets`). No driver is left out: where turns are never reset, history is what was
  carried and then the past, and the counter is ahead of the past by as much.
- `LineIsSaidAsWritten` for every lexicon and every line. The loop that cuts a line into sentences
  is compared with the tokens of the whole line: `AdvanceFollows` is its invariant, that what is
  said so far and what begins at the place it has come to make up the line. `LineInv` is where the daemon
  is in the line and what it has written of it.
- `FramesAlwaysInPlace` for all durations and sizes of windows and chunks. A frame belongs to
  the last token whose bound it has not passed (`FrameFacts`), windows cover each frame with as few
  pads as can be (`StartsFacts`), and chunks that overlap by one frame are joined where they meet
  (`ChunkIsHeard`). `SentenceInv` is how far a sentence is. `SynthAssumption` takes `CH` > 1: a chunk of
  one frame would be all overlap, and the code's is 128 unless it is told otherwise.
- `SpmIsAlwaysTextbook` for every vocabulary and text, if the vocabulary has a piece for each byte
  of the text (`SpmAssumption`), as those with byte fallback have. `SpmInv`: a list P of the symbols that are left,
  whose links agree with it (`Listed`) and whose pieces make up the text; every entry of the agenda
  was once a pair with the score it bears (`Promised`), and every pair that can be merged has one that is
  not stale (`Complete`); so the top of the agenda, when it is not stale, is the best pair
  (`TopIsBest`), and the pieces left after m merges are those of the textbook's round m.

`TokenizerProofs`: `BpeIsAlwaysTextbook`, for every rule table in order and every text. Both
algorithms are compared with a third: the steps `F` that join one pair at a time, the first of the
least rank. `Cut` relates bpe's list to the pieces (the live boundaries in order, each with the piece left
and right of it), every `MergeOne` is one step of `F` (`CutStep`), and what bpe reads off at the end are the
pieces (`PiecesFromIs`). A round of the textbook is as many steps of `F` as the pair occurs
(`ReplacedIs`, by downward induction along the word): while one occurrence after the other is joined no
pair of a lesser rank may appear, and the new ones have greater ranks because the rules are in order
(`LaterRules`). This needs the order: with the rules (ab, a), (a, b), in this order, the textbook makes ab ab
of abab, and bpe, which sees (ab, a) after its first merge, aba b.

`TextProofs`: `TextIsAlwaysKept` (`TextIsKept`), for every vocabulary that has pieces for the
text, every list of special tokens and every text.

- `Says(b, s)`: the texts b and s have the same core, and neither ends inside a character of two
  bytes. The second part is what makes it additive (`SaysBoth`): BERT drops such characters, so
  whether a byte is in the core depends on the one before it. From there on nobody looks at bytes:
  each tokenizer cuts the text into parts, and for each part says it, or says nothing.
- Huggingface (`HfSays`): the words of the expression cover the text but its underscores
  (`WordsSay`; at any other byte some alternative matches, `WordLengthOfNone`), the pieces of a
  word make it up (`BpeCuts`, by way of the steps `F`), and the 256 wide characters are apart
  (`WideIsInjective`), so that decoding undoes them.
- Tiktoken (`TiktokenSays`): with a piece for every byte the longest one always exists, and greed
  ends at the end.
- BERT (`BertSays`): each place of the loop is the first byte of a character (`~Asked`, kept by
  `NextChar`), so that words are cut between characters (`WordAtSays`), what is dropped is spaces
  and characters of two bytes (`GoneSays`), and each word has pieces (`Pieced`), whose text
  without the sharps is the word (`WordPieceSays`).
- The scan: `TextInv` says that the prefix and the ids out say the text before the open segment.
  It also needs that, for BERT, the open segment begins with a character: special tokens are
  ASCII, so that they begin and end between characters (`SpecialSays`), and a segment between two
  of them is again a text with pieces (`PartHasPieces`).

`SetInductions` has the rules all this induction rests on, for sets in place of predicates:
least and greatest elements of sets of naturals, induction up (`SetInduction`) and down
(`DownInduction`), that a function given from its own later or earlier values exists
(`DownRecursion`, `UpRecursion`), and what sequences of sequences make up when they are cut or joined.

*Only model-checked:* liveness and everything with fairness or `ENABLED`, `KeepsPromise` among it
(the refinement of `Nanny` with its fairness). Every invariant a run checks is a theorem.

## 5. Divergences met while modelling

Shown by a run: `chatd_after_restart`, `watch_fresh_ask`, `lock_race`,
`ask_after_death`, `demo_rest` (PROJECT.json, `findings`). Read in the code, without a run of their
own:

- S99chat removes `chatd.lock` (9) without asking whether its owner lives, so that starting
  it by hand gives two daemons, against `chatd.cpp:446-448` (the breach `rm`: `DaemonIsAlone` without
  its premise fails, and `LockKeepsOut` without its own);
- `stop` looks for its target for 10 s, then says "all stopped" whether it is gone or not
  (493-497; `StopIsEffective` makes room for exactly that); `restart` becomes a daemon in the same case;
- `player.sh` counts at 11 and greps again at 13: a DONE in between makes it play that
  file and lose the sentence whose turn it was, against docs 03:731-732 (`excused` and
  `raced` of `Speech` make room for exactly that);
- chatd's warm-up question can be written after a user began to ask, and its DONE then
  ends the user's ask (`AnswerIsOwn` makes room for it);
- a second copy of a question that begins to be answered before ask.sh has printed the
  end of the first answer takes that end away (`hurried`);
- a fork that fails after `restart_at_ms` was zeroed (405) is never retried (344, 403),
  against `chatd.cpp:19`;
- a tts that keeps crashing kills llmd every three deaths, up or still loading
  (422): with tts capped at 2 s, llmd may never get up, against 411-413;
- the stall kill (691) does not look at the log again after a forensics pass of
  seconds, so an llmd that resumed is killed as silent;
- the kill removes `ask_pending` (692) while `ask.sh` goes on waiting, so a second stall
  of the same ask is invisible to both watchdogs;
- `chatd restart` with a live daemon is refused by the lock (459) before its stop part
  (487), against `chatd.cpp:18`;
- kpud logs `listening on`, chatd's READY pattern, at 585, before the warm-up at 588,
  against `kpud.cpp:13`;
- the wrong-rank path of `load_entry` (223-227) does not free its CMA buffer
  (`daemons` with `rank` among `LoadResults` violates `CacheIsSound`);
- kpud answers 2, for good (`kpud.cpp:454-456`), also when a load fails for a momentary
  lack of CMA, after which llmd never asks for that kernel again;
- `stop` sends no SIGKILL to children that ignore SIGTERM, against `chatd.cpp:16`;
  `status` prints the table of its own process, always down, against `:17`; the stall
  limit is 60 s in the code, 10 min at `:590` and 180 s at `:597`;
- the names of the forensics files are in the order of time (`chatd.cpp:141`) only while the clock
  keeps its number of digits and never goes back: it starts near zero at each boot, so
  that the newest file may be the one removed (`NewestIsKept` without its premise fails); the
  `tail` of a child's log (170-179) is the end of the first 16383 bytes, not of the log;
- `chat_demo.sh` reads text twice when the file grows between 39 and 41 (`demoRaced`), sends
  pieces beyond `QUEUE_MAX` within one round (60-68), waits for ever when `QUEUE_MAX` pieces have no sound
  (53-57; `TurnEnds` makes room for it), loses a last piece behind a blank one (73-77), and
  sends the text of the turn before if DONE precedes the first look (44);
- `sample` starts at score 0 and row 0 (`llm.cpp:123-124`), so that row 0 is picked if no score is positive
  (`BestIsPicked` says "if any is"); the first id of an answer is not looked at by
  `is_stop` and is fed back (`NoStopInside`); with `reuse_kv` and no `reset` history and
  `all_seq_len_` go on while `generate_init` empties the past, so that mask and
  positions count tokens the network does not have; the mask of the int branch is written with
  a stride of `seq_len` instead of `kv_seq_len` (`llm.cpp:509`);
- the first special token of the list that fits is taken, not the longest (`tokenizer.cpp:172-183`);
  the Huggingface pattern matches no underscore (712), so that it is dropped; "this block will never be
  called" (372) is reached by a single character whose piece is unused; Sentencepiece turns no space into U+2581 and
  decodes a byte piece to the text of its name; BERT drops characters of two bytes and cuts those of four
  after three (530-538);
- the crossfade of the vocoder shortens the sound by one frame per seam, against the durations.

## 6. Not modelled, and why

The map names a small share of all lines in the repository, and cannot name much more: nearly all of
them are vendored headers (`json.hpp`, `httplib.h`, `gsl-lite.hpp`, nncase for two
architectures) and vendor wrappers of the tts runner. Of the program's own files, what has
state or an algorithm is modelled. Left out are:

- chatd: `status`, `load_conf` (46-71), `logf`, `dump_cmd` and the contents of the dumps: printing and
  parsing; `drop_caches`; `S99chat` 43-61, which finds paths and files.
- kpud: the parser of a kmodel (124-154), the transposes of `invoke` (296-349) and the mapping of
  the registers (524-571): data and hardware. Floats on the wire are counted only.
- tts runner: the networks, the ORT vocoder, the abc mode, and the piper and vits modes:
  variants the board does not start. Front ends for text in `main.cc` and the G2P of the older modes.
- qwen_chat: the network; `generate(ids, max_tokens)` (228-247), which nobody calls; the masks and
  positions of chatglm; the parsers of the configuration and of the vocabulary.
- The scripts and libraries of part F: one-shot or foreign. llmd is not in the repository.
- A death of chatd while sentences or questions are in a FIFO (both ends close and the content is
  gone) and two users at once, in `Speech` and `AskSh`.

## 7. Plan

1. `Voice`: `AskSh` and `Speech` composed with the table of `Chatd`, in place of their own
   deaths and restarts, with chatd dying between.
