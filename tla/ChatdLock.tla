----------------------------- MODULE ChatdLock -----------------------------
(***************************************************************************)
(* The single-instance lock of llm/board/chatd.cpp (446-477), the cross-   *)
(* process part of "stop" and "restart" (487-497), the SIGTERM handler     *)
(* (528-538), and the rm and pkill of S99chat, with several chatd          *)
(* processes at once that overlap as they like.                            *)
(* A process id is the process; ids are not reused.                        *)
(***************************************************************************)
EXTENDS Naturals, FiniteSets

CONSTANTS
  Procs,       \* chatd processes, each runs one command
  Cmds,        \* the commands that are tried: "start", "stop", "restart"
  Polls        \* how often a stop looks whether its target is gone (100)

ASSUME LockAssumption ==
  /\ Cmds \subseteq {"start", "stop", "restart"}
  /\ Polls \in Nat \ {0}

NoFile == "no file"
Nobody == "nobody"    \* opid = 0: an empty or unreadable lock file

ASSUME NamesAssumption == {NoFile, Nobody} \cap Procs = {}

VARIABLES
  pc,       \* per process: "idle", "create", "read", "check", "takeover",
            \* "write", "install", "daemon", "refused", "find", "signal",
            \* "wait", "done", "gone"
  cmd,      \* its argv[1]
  path,     \* the file g_lock_path names, called by the process that made it
  content,  \* of each file: the process id in it
  fd,       \* the file lfd of a process refers to
  opid,     \* the id it has read from the lock file
  polls,    \* t of its loop that waits for opid
  sigterm,  \* processes with a SIGTERM to handle
  owed,     \* history: the daemons that ran when a stop was issued
  breach    \* history: how the lock has been got round, "race" or "rm"

lockVars == <<pc, cmd, path, content, fd, opid, polls, sigterm, owed, breach>>

-----------------------------------------------------------------------------
Exists(p) == pc[p] \notin {"idle", "refused", "done", "gone"}      \* kill(pid, 0) == 0
Daemons == {p \in Procs : pc[p] = "daemon"}
Goto(p, l) == pc' = [pc EXCEPT ![p] = l]

\* The process has looked at the lock and goes by what it saw then.
HasLooked(p) == pc[p] \in {"check", "takeover", "write"}

\* A process that has the lock: past the lock code, or a daemon.
Holds(p) ==
  \/ pc[p] \in {"install", "daemon"}
  \/ pc[p] \in {"find", "signal", "wait"} /\ cmd[p] # "stop"

\* What fscanf finds in the lock file, if there is one.
LockOwner == IF path = NoFile THEN Nobody ELSE content[path]


\* Two faults: the answer of kill(pid, 0) is taken the wrong way round; it is
\* not asked for.
FaultDeadHolds(p) == opid[p] \notin {Nobody, p} /\ ~Exists(opid[p])
FaultAnyHolds(p) == opid[p] \notin {Nobody, p}

\* The lock named another process, and that one is alive.
HeldAgainst(p) == opid[p] \notin {Nobody, p} /\ Exists(opid[p])

Issue(p, c) ==
  /\ pc[p] = "idle"
  /\ cmd' = [cmd EXCEPT ![p] = c]
  /\ Goto(p, IF c = "stop" THEN "find" ELSE "create")
  /\ owed' = [owed EXCEPT ![p] = IF c = "stop" THEN Daemons ELSE {}]
  /\ UNCHANGED <<path, content, fd, opid, polls, sigterm, breach>>

\* open(O_CREAT | O_EXCL)
Create(p) ==
  /\ pc[p] = "create"
  /\ IF path = NoFile
     THEN /\ path' = p
          /\ content' = [content EXCEPT ![p] = Nobody]
          /\ fd' = [fd EXCEPT ![p] = p]
          /\ Goto(p, "write")
     ELSE Goto(p, "read") /\ UNCHANGED <<path, content, fd>>
  /\ UNCHANGED <<cmd, opid, polls, sigterm, owed, breach>>

\* fopen and fscanf, in the lock code and in the stop half.
ReadOwner(p) ==
  /\ pc[p] \in {"read", "find"}
  /\ opid' = [opid EXCEPT ![p] = LockOwner]
  /\ Goto(p, IF pc[p] = "read" THEN "check" ELSE "signal")
  /\ UNCHANGED <<cmd, path, content, fd, polls, sigterm, owed, breach>>

RefuseStart(p) ==
  /\ pc[p] = "check" /\ HeldAgainst(p)
  /\ Goto(p, "refused")
  /\ UNCHANGED <<cmd, path, content, fd, opid, polls, sigterm, owed, breach>>

Distrust(p) ==
  /\ pc[p] = "check" /\ ~HeldAgainst(p)
  /\ Goto(p, "takeover")
  /\ UNCHANGED <<cmd, path, content, fd, opid, polls, sigterm, owed, breach>>

\* open(O_CREAT | O_TRUNC): whatever is there by now is emptied.
TakeOver(p) ==
  /\ pc[p] = "takeover"
  /\ LET f == IF path = NoFile THEN p ELSE path
     IN  /\ path' = f
         /\ content' = [content EXCEPT ![f] = Nobody]
         /\ fd' = [fd EXCEPT ![p] = f]
  /\ Goto(p, "write")
  /\ UNCHANGED <<cmd, opid, polls, sigterm, owed, breach>>

Locked(p) == Goto(p, IF cmd[p] = "restart" THEN "find" ELSE "install")

\* Fault: the pid is never written.
FaultNoPid(p) ==
  /\ pc[p] = "write"
  /\ Locked(p)
  /\ UNCHANGED <<cmd, path, content, fd, opid, polls, sigterm, owed, breach>>

\* dprintf of the pid, into the file that was opened (it may be unlinked by now).
\* It comes too late for those who have looked already.
WritePid(p) ==
  /\ pc[p] = "write"
  /\ content' = [content EXCEPT ![fd[p]] = p]
  /\ Locked(p)
  /\ breach' = IF \E q \in Procs \ {p} : HasLooked(q) THEN breach \cup {"race"} ELSE breach
  /\ UNCHANGED <<cmd, path, fd, opid, polls, sigterm, owed>>

\* From here on SIGTERM has its handler, and the children are started.
Install(p) ==
  /\ pc[p] = "install"
  /\ Goto(p, "daemon")
  /\ UNCHANGED <<cmd, path, content, fd, opid, polls, sigterm, owed, breach>>

StopOver(p) == Goto(p, IF cmd[p] = "stop" THEN "done" ELSE "install")

\* Fault: signals nobody, and waits.
FaultNoSignal(p) ==
  /\ pc[p] = "signal"
  /\ IF HeldAgainst(p) THEN Goto(p, "wait") ELSE StopOver(p)
  /\ UNCHANGED <<cmd, path, content, fd, opid, polls, sigterm, owed, breach>>

\* stop / restart: who held the lock gets SIGTERM.
Signal(p) ==
  /\ pc[p] = "signal"
  /\ IF HeldAgainst(p)
     THEN Goto(p, "wait") /\ sigterm' = sigterm \cup {opid[p]}
     ELSE StopOver(p) /\ UNCHANGED sigterm
  /\ UNCHANGED <<cmd, path, content, fd, opid, polls, owed, breach>>

\* One look of the loop: still there.
Poll(p) ==
  /\ pc[p] = "wait" /\ Exists(opid[p]) /\ polls[p] < Polls
  /\ polls' = [polls EXCEPT ![p] = @ + 1]
  /\ UNCHANGED <<pc, cmd, path, content, fd, opid, sigterm, owed, breach>>

\* Fault: does not wait for the target.
FaultNoWait(p) ==
  /\ pc[p] = "wait"
  /\ StopOver(p)
  /\ UNCHANGED <<cmd, path, content, fd, opid, polls, sigterm, owed, breach>>

\* The loop ends when the target is gone or after Polls looks; either way the
\* command goes on and says "all stopped".
Waited(p) ==
  /\ pc[p] = "wait" /\ (~Exists(opid[p]) \/ polls[p] = Polls)
  /\ StopOver(p)
  /\ UNCHANGED <<cmd, path, content, fd, opid, polls, sigterm, owed, breach>>

\* The handler unlinks the path, whoever made the file, and exits; before the
\* handler is installed the signal just kills.
Term(p) ==
  /\ p \in sigterm /\ Exists(p)
  /\ path' = IF pc[p] = "daemon" THEN NoFile ELSE path
  /\ Goto(p, "gone")
  /\ sigterm' = sigterm \ {p}
  /\ UNCHANGED <<cmd, content, fd, opid, polls, owed, breach>>

\* kill -9, or the out-of-memory killer.
Kill(p) ==
  /\ Exists(p)
  /\ Goto(p, "gone")
  /\ sigterm' = sigterm \ {p}
  /\ UNCHANGED <<cmd, path, content, fd, opid, polls, owed, breach>>

\* S99chat start: rm -f chatd.lock, five seconds before it runs "chatd start".
RemoveLock ==
  /\ path # NoFile
  /\ path' = NoFile
  /\ breach' = IF \E q \in Procs : pc[q] = "write" \/ Holds(q)
               THEN breach \cup {"rm"} ELSE breach
  /\ UNCHANGED <<pc, cmd, content, fd, opid, polls, sigterm, owed>>

\* S99chat stop: pkill -x chatd, two seconds after "chatd stop".
PkillAll ==
  /\ sigterm' = {p \in Procs : Exists(p)}
  /\ UNCHANGED <<pc, cmd, path, content, fd, opid, polls, owed, breach>>

-----------------------------------------------------------------------------
LockInit ==
  /\ pc = [p \in Procs |-> "idle"]
  /\ cmd = [p \in Procs |-> "none"]
  /\ path = NoFile
  /\ content = [p \in Procs |-> Nobody]
  /\ fd = [p \in Procs |-> NoFile]
  /\ opid = [p \in Procs |-> Nobody]
  /\ polls = [p \in Procs |-> 0]
  /\ sigterm = {}
  /\ owed = [p \in Procs |-> {}]
  /\ breach = {}

LockStep(p) ==
  \/ Create(p) \/ ReadOwner(p) \/ RefuseStart(p) \/ Distrust(p) \/ TakeOver(p) \/ WritePid(p)
  \/ Install(p) \/ Signal(p) \/ Poll(p) \/ Waited(p) \/ Term(p) \/ Kill(p)
  \/ \E c \in Cmds : Issue(p, c)

LockNext == (\E p \in Procs : LockStep(p)) \/ RemoveLock \/ PkillAll

LockSpec == LockInit /\ [][LockNext]_lockVars

-----------------------------------------------------------------------------
(* Properties. *)

Pcs == {"idle", "create", "read", "check", "takeover", "write", "install", "daemon",
        "refused", "find", "signal", "wait", "done", "gone"}

LockTypeOK ==
  /\ pc \in [Procs -> Pcs]
  /\ cmd \in [Procs -> Cmds \cup {"none"}]
  /\ path \in Procs \cup {NoFile}
  /\ content \in [Procs -> Procs \cup {Nobody}]
  /\ fd \in [Procs -> Procs \cup {NoFile}]
  /\ opid \in [Procs -> Procs \cup {Nobody}]
  /\ polls \in [Procs -> 0..Polls]
  /\ sigterm \subseteq Procs
  /\ owed \in [Procs -> SUBSET Procs]
  /\ breach \subseteq {"race", "rm"}

OneDaemon == Cardinality(Daemons) <= 1

\* A daemon that runs can be found: the lock file names it, so that a stop
\* reaches it.
DaemonIsNamed == \A p \in Daemons : LockOwner = p

\* There are only two ways round the lock: a pid written after another process
\* has looked, and an rm beside a process that counts on its lock.  As long as
\* neither has happened there is one daemon at most and whoever looks for it
\* finds it, whatever else overlaps, is killed or is left behind
\* (chatd.cpp:446: two chatd once warmed two kpud and took the board down).
DaemonIsAlone == LockTypeOK /\ (breach = {} => OneDaemon /\ DaemonIsNamed)

\* The lock keeps a second chatd out, and its look at whether the owner lives
\* takes care of stale locks (chatd.cpp:446-448), if nobody removes the file.
LockKeepsOut == "rm" \notin breach => OneDaemon

\* A start is refused only because another chatd is up or coming up, in every
\* interleaving; a lock left by a killed one never keeps a start out
\* (chatd.cpp:453-460).
RefusalIsJustified ==
  [][\A p \in Procs : RefuseStart(p) =>
       \E q \in Procs \ {p} : Holds(q)]_lockVars

\* A stop that is over has reached the daemon that ran when it was issued: it
\* is gone, or the stop has looked for it as often as it may and the SIGTERM
\* still waits for it.  That it is gone is more than the code can say, for it
\* gives up after 10 s and says "all stopped" all the same (chatd.cpp:493-496).
StopIsEffective ==
  breach = {} =>
    \A p \in Procs : pc[p] = "done" =>
      \A q \in owed[p] : Exists(q) => q \in sigterm /\ polls[p] = Polls
=============================================================================
