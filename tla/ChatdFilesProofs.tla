---------------------------- MODULE ChatdFilesProofs ----------------------------
(***************************************************************************)
(* The files that chatd keeps: its lock file and the files of deaths.        *)
(*                                                                          *)
(* The lock, for any number of processes that overlap, are killed and are     *)
(* signalled as they like: until it is got round in one of two ways, there is *)
(* one daemon, which the lock names and a stop reaches; and no start is ever   *)
(* refused for a lock that was left behind.  Of the deaths the newest are      *)
(* kept, for every number of files and any clock.                             *)
(***************************************************************************)
EXTENDS ChatdLock, Forensics, FiniteSetTheorems, SequenceTheorems, SetInductions, TLAPS

-----------------------------------------------------------------------------
(* The lock. *)

\* A process that is through with the lock code, and is no stop.
Past(p) ==
  /\ pc[p] \notin {"idle", "create", "read", "check", "takeover", "write"}
  /\ cmd[p] # "stop"

\* A pid in a lock file, or read from one, is that of a process past the lock code.
NamedIsPast == \A p, q \in Procs : content[p] = q \/ opid[p] = q => Past(q)

NoStopInside ==
  \A p \in Procs :
    pc[p] \in {"create", "read", "check", "takeover", "write"} => cmd[p] # "stop"

\* The lock file names its holder, so there is one at most.
HolderIsNamed == \A p \in Procs : Holds(p) => path # NoFile /\ content[path] = p

\* Who has looked at the lock will find the holder alive; who has found nobody
\* alive is right.
LookerIsRight ==
  \A p \in Procs :
    /\ pc[p] = "check" => \A q \in Procs : Holds(q) => q = opid[p]
    /\ pc[p] \in {"takeover", "write"} => \A q \in Procs : ~Holds(q)
    /\ pc[p] = "write" => path # NoFile /\ fd[p] = path

\* A stop under way is after the daemon it owes an end.
StopIsOnItsWay ==
  \A p \in Procs : \A q \in owed[p] :
    \/ pc[q] = "gone"
    \/ /\ pc[q] = "daemon"
       /\ pc[p] \in {"signal", "wait"} => q = opid[p]
       /\ pc[p] \in {"wait", "done"} => q \in sigterm
       /\ pc[p] = "done" => polls[p] = Polls

LockInv ==
  /\ LockTypeOK /\ NamedIsPast /\ NoStopInside
  /\ breach = {} => HolderIsNamed /\ LookerIsRight /\ StopIsOnItsWay

-----------------------------------------------------------------------------
LEMMA LockInitInv == LockInit => LockInv
  BY NamesAssumption, LockAssumption
     DEF LockInit, LockInv, LockTypeOK, NamedIsPast, NoStopInside, HolderIsNamed, LookerIsRight,
         StopIsOnItsWay, Pcs, Holds, Exists

\* Every step keeps the types.
LEMMA LockTypes == ASSUME LockTypeOK, [LockNext]_lockVars PROVE LockTypeOK'
  <1> USE LockAssumption, NamesAssumption DEF LockTypeOK, Pcs, Goto
  <1>1. ASSUME NEW p \in Procs, NEW c \in Cmds, Issue(p, c) PROVE LockTypeOK'
    BY <1>1 DEF Issue, Daemons
  <1>2. ASSUME NEW p \in Procs, Create(p) PROVE LockTypeOK'
    BY <1>2 DEF Create
  <1>3. ASSUME NEW p \in Procs, ReadOwner(p) PROVE LockTypeOK'
    BY <1>3 DEF ReadOwner, LockOwner
  <1>4. ASSUME NEW p \in Procs, RefuseStart(p) \/ Distrust(p) \/ Install(p) PROVE LockTypeOK'
    BY <1>4, ZenonT(60) DEF RefuseStart, Distrust, Install
  <1>5. ASSUME NEW p \in Procs, TakeOver(p) PROVE LockTypeOK'
    BY <1>5 DEF TakeOver
  <1>6. ASSUME NEW p \in Procs, WritePid(p) PROVE LockTypeOK'
    BY <1>6 DEF WritePid, Locked
  <1>7. ASSUME NEW p \in Procs, Signal(p) PROVE LockTypeOK'
    BY <1>7 DEF Signal, StopOver, HeldAgainst
  <1>8. ASSUME NEW p \in Procs, Poll(p) \/ Waited(p) PROVE LockTypeOK'
    <2>1. CASE Poll(p)
      <3>1. polls[p] + 1 \in 0..Polls
        BY <2>1 DEF Poll
      <3>2. polls' \in [Procs -> 0..Polls]
        BY <2>1, <3>1 DEF Poll
      <3> QED BY <2>1, <3>2 DEF Poll
    <2>2. CASE Waited(p)
      BY <2>2 DEF Waited, StopOver
    <2> QED BY <1>8, <2>1, <2>2
  <1>9. ASSUME NEW p \in Procs, Term(p) \/ Kill(p) PROVE LockTypeOK'
    BY <1>9, ZenonT(60) DEF Term, Kill
  <1>10. ASSUME RemoveLock \/ PkillAll PROVE LockTypeOK'
    BY <1>10 DEF RemoveLock, PkillAll
  <1>11. CASE UNCHANGED lockVars
    BY <1>11 DEF lockVars
  <1> QED BY <1>1, <1>2, <1>3, <1>4, <1>5, <1>6, <1>7, <1>8, <1>9, <1>10, <1>11
          DEF LockNext, LockStep

LockRest ==
  /\ NamedIsPast /\ NoStopInside
  /\ breach = {} => HolderIsNamed /\ LookerIsRight /\ StopIsOnItsWay

\* A command begins.  A stop that does owes an end to the daemons there are.
LEMMA IssueRest == ASSUME LockInv, NEW p \in Procs, NEW c \in Cmds, Issue(p, c) PROVE LockRest'
  <1> USE NamesAssumption DEF LockInv, LockTypeOK, Pcs, Goto, Issue, Daemons
  <1>1. NamedIsPast'
    BY DEF NamedIsPast, NoStopInside, Past
  <1>2. NoStopInside'
    BY DEF NoStopInside
  <1>3. ASSUME breach' = {} PROVE HolderIsNamed'
    BY <1>3 DEF HolderIsNamed, LookerIsRight, NoStopInside, Holds
  <1>4. ASSUME breach' = {} PROVE LookerIsRight'
    BY <1>4 DEF HolderIsNamed, LookerIsRight, Holds, Exists
  <1>5. ASSUME breach' = {} PROVE StopIsOnItsWay'
    BY <1>5 DEF StopIsOnItsWay, HolderIsNamed, Holds, Exists
  <1> QED BY <1>1, <1>2, <1>3, <1>4, <1>5 DEF LockRest

\* There is no lock file, so there is no holder.
LEMMA CreateRest == ASSUME LockInv, NEW p \in Procs, Create(p) PROVE LockRest'
  <1> USE NamesAssumption DEF LockInv, LockTypeOK, Pcs, Goto, Create
  <1>1. NamedIsPast'
    BY DEF NamedIsPast, NoStopInside, Past
  <1>2. NoStopInside'
    BY DEF NoStopInside
  <1>3. ASSUME breach' = {} PROVE HolderIsNamed'
    BY <1>3 DEF HolderIsNamed, LookerIsRight, NoStopInside, Holds
  <1>4. ASSUME breach' = {} PROVE LookerIsRight'
    BY <1>4 DEF HolderIsNamed, LookerIsRight, Holds, Exists
  <1>5. ASSUME breach' = {} PROVE StopIsOnItsWay'
    BY <1>5 DEF StopIsOnItsWay, HolderIsNamed, Holds, Exists
  <1> QED BY <1>1, <1>2, <1>3, <1>4, <1>5 DEF LockRest

\* Who is found in the lock is the holder, if there is one.
LEMMA ReadOwnerRest == ASSUME LockInv, NEW p \in Procs, ReadOwner(p) PROVE LockRest'
  <1> USE NamesAssumption DEF LockInv, LockTypeOK, Pcs, Goto, ReadOwner, LockOwner
  <1>1. NamedIsPast'
    BY DEF NamedIsPast, NoStopInside, Past
  <1>2. NoStopInside'
    BY DEF NoStopInside
  <1>3. ASSUME breach' = {} PROVE HolderIsNamed'
    BY <1>3 DEF HolderIsNamed, LookerIsRight, NoStopInside, Holds
  <1>4. ASSUME breach' = {} PROVE LookerIsRight'
    BY <1>4 DEF HolderIsNamed, LookerIsRight, Holds, Exists
  <1>5. ASSUME breach' = {} PROVE StopIsOnItsWay'
    BY <1>5 DEF StopIsOnItsWay, HolderIsNamed, Holds, Exists
  <1> QED BY <1>1, <1>2, <1>3, <1>4, <1>5 DEF LockRest

\* A holder was there when the process looked, so it is found alive and keeps it out.
LEMMA LookRest == ASSUME LockInv, NEW p \in Procs, RefuseStart(p) \/ Distrust(p) PROVE LockRest'
  <1> USE NamesAssumption DEF LockInv, LockTypeOK, Pcs, Goto, RefuseStart, Distrust, HeldAgainst
  <1>1. NamedIsPast'
    BY DEF NamedIsPast, NoStopInside, Past
  <1>2. NoStopInside'
    BY DEF NoStopInside
  <1>3. ASSUME breach' = {} PROVE HolderIsNamed'
    BY <1>3 DEF HolderIsNamed, LookerIsRight, NoStopInside, Holds
  <1>4. ASSUME breach' = {} PROVE LookerIsRight'
    BY <1>4 DEF HolderIsNamed, LookerIsRight, Holds, Exists
  <1>5. ASSUME breach' = {} PROVE StopIsOnItsWay'
    BY <1>5 DEF StopIsOnItsWay, HolderIsNamed, Holds, Exists
  <1> QED BY <1>1, <1>2, <1>3, <1>4, <1>5 DEF LockRest

\* The file that is emptied is no holder's.
LEMMA TakeOverRest == ASSUME LockInv, NEW p \in Procs, TakeOver(p) PROVE LockRest'
  <1> USE NamesAssumption DEF LockInv, LockTypeOK, Pcs, Goto, TakeOver
  <1>1. NamedIsPast'
    BY DEF NamedIsPast, NoStopInside, Past
  <1>2. NoStopInside'
    BY DEF NoStopInside
  <1>3. ASSUME breach' = {} PROVE HolderIsNamed'
    BY <1>3 DEF HolderIsNamed, LookerIsRight, NoStopInside, Holds
  <1>4. ASSUME breach' = {} PROVE LookerIsRight'
    BY <1>4 DEF HolderIsNamed, LookerIsRight, Holds, Exists
  <1>5. ASSUME breach' = {} PROVE StopIsOnItsWay'
    BY <1>5 DEF StopIsOnItsWay, HolderIsNamed, Holds, Exists
  <1> QED BY <1>1, <1>2, <1>3, <1>4, <1>5 DEF LockRest

\* The process becomes the holder, and nobody goes by what the lock said before.
LEMMA WritePidRest == ASSUME LockInv, NEW p \in Procs, WritePid(p) PROVE LockRest'
  <1> USE NamesAssumption DEF LockInv, LockTypeOK, Pcs, Goto, WritePid, Locked, HasLooked
  <1>1. NamedIsPast'
    BY DEF NamedIsPast, NoStopInside, Past
  <1>2. NoStopInside'
    BY DEF NoStopInside
  <1>3. ASSUME breach' = {} PROVE HolderIsNamed'
    BY <1>3 DEF HolderIsNamed, LookerIsRight, NoStopInside, Holds
  <1>4. ASSUME breach' = {} PROVE LookerIsRight'
    BY <1>4 DEF HolderIsNamed, LookerIsRight, Holds, Exists
  <1>5. ASSUME breach' = {} PROVE StopIsOnItsWay'
    BY <1>5 DEF StopIsOnItsWay, HolderIsNamed, Holds, Exists
  <1> QED BY <1>1, <1>2, <1>3, <1>4, <1>5 DEF LockRest

\* The holder becomes the daemon.
LEMMA InstallRest == ASSUME LockInv, NEW p \in Procs, Install(p) PROVE LockRest'
  <1> USE NamesAssumption DEF LockInv, LockTypeOK, Pcs, Goto, Install
  <1>1. NamedIsPast'
    BY DEF NamedIsPast, NoStopInside, Past
  <1>2. NoStopInside'
    BY DEF NoStopInside
  <1>3. ASSUME breach' = {} PROVE HolderIsNamed'
    BY <1>3 DEF HolderIsNamed, LookerIsRight, NoStopInside, Holds
  <1>4. ASSUME breach' = {} PROVE LookerIsRight'
    BY <1>4 DEF HolderIsNamed, LookerIsRight, Holds, Exists
  <1>5. ASSUME breach' = {} PROVE StopIsOnItsWay'
    BY <1>5 DEF StopIsOnItsWay, HolderIsNamed, Holds, Exists
  <1> QED BY <1>1, <1>2, <1>3, <1>4, <1>5 DEF LockRest

\* A stop signals the daemon it owes an end, or there is none.
LEMMA SignalRest == ASSUME LockInv, NEW p \in Procs, Signal(p) PROVE LockRest'
  <1> USE NamesAssumption DEF LockInv, LockTypeOK, Pcs, Goto, Signal, StopOver, HeldAgainst
  <1>1. NamedIsPast'
    BY DEF NamedIsPast, NoStopInside, Past
  <1>2. NoStopInside'
    BY DEF NoStopInside
  <1>3. ASSUME breach' = {} PROVE HolderIsNamed'
    BY <1>3 DEF HolderIsNamed, LookerIsRight, NoStopInside, Holds
  <1>4. ASSUME breach' = {} PROVE LookerIsRight'
    BY <1>4 DEF HolderIsNamed, LookerIsRight, Holds, Exists
  <1>5. ASSUME breach' = {} PROVE StopIsOnItsWay'
    BY <1>5 DEF StopIsOnItsWay, HolderIsNamed, Holds, Exists
  <1> QED BY <1>1, <1>2, <1>3, <1>4, <1>5 DEF LockRest

\* Who was waited for is gone, or the looks are used up.
LEMMA WaitRest == ASSUME LockInv, NEW p \in Procs, Poll(p) \/ Waited(p) PROVE LockRest'
  <1> USE NamesAssumption DEF LockInv, LockTypeOK, Pcs, Goto, Poll, Waited, StopOver
  <1>1. NamedIsPast'
    BY DEF NamedIsPast, NoStopInside, Past
  <1>2. NoStopInside'
    BY DEF NoStopInside
  <1>3. ASSUME breach' = {} PROVE HolderIsNamed'
    BY <1>3 DEF HolderIsNamed, LookerIsRight, NoStopInside, Holds
  <1>4. ASSUME breach' = {} PROVE LookerIsRight'
    BY <1>4 DEF HolderIsNamed, LookerIsRight, Holds, Exists
  <1>5. ASSUME breach' = {} PROVE StopIsOnItsWay'
    BY <1>5 DEF StopIsOnItsWay, HolderIsNamed, Holds, Exists
  <1> QED BY <1>1, <1>2, <1>3, <1>4, <1>5 DEF LockRest

\* A process ends; the path goes with it if it was the daemon, whose file it was.
LEMMA EndRest == ASSUME LockInv, NEW p \in Procs, Term(p) \/ Kill(p) PROVE LockRest'
  <1> USE NamesAssumption DEF LockInv, LockTypeOK, Pcs, Goto, Term, Kill
  <1>1. NamedIsPast'
    BY DEF NamedIsPast, NoStopInside, Past
  <1>2. NoStopInside'
    BY DEF NoStopInside
  <1>3. ASSUME breach' = {} PROVE HolderIsNamed'
    BY <1>3 DEF HolderIsNamed, LookerIsRight, NoStopInside, Holds
  <1>4. ASSUME breach' = {} PROVE LookerIsRight'
    BY <1>4 DEF HolderIsNamed, LookerIsRight, Holds, Exists
  <1>5. ASSUME breach' = {} PROVE StopIsOnItsWay'
    BY <1>5 DEF StopIsOnItsWay, HolderIsNamed, Holds, Exists
  <1> QED BY <1>1, <1>2, <1>3, <1>4, <1>5 DEF LockRest

\* The scripts: the rm takes no lock that somebody counts on, the pkill signals all.
LEMMA ScriptRest == ASSUME LockInv, RemoveLock \/ PkillAll PROVE LockRest'
  <1> USE NamesAssumption DEF LockInv, LockTypeOK, Pcs, Goto, RemoveLock, PkillAll
  <1>1. NamedIsPast'
    BY DEF NamedIsPast, NoStopInside, Past
  <1>2. NoStopInside'
    BY DEF NoStopInside
  <1>3. ASSUME breach' = {} PROVE HolderIsNamed'
    BY <1>3 DEF HolderIsNamed, LookerIsRight, NoStopInside, Holds
  <1>4. ASSUME breach' = {} PROVE LookerIsRight'
    BY <1>4 DEF HolderIsNamed, LookerIsRight, Holds, Exists
  <1>5. ASSUME breach' = {} PROVE StopIsOnItsWay'
    BY <1>5 DEF StopIsOnItsWay, HolderIsNamed, Holds, Exists
  <1> QED BY <1>1, <1>2, <1>3, <1>4, <1>5 DEF LockRest

LEMMA LockNextInv == ASSUME LockInv, [LockNext]_lockVars PROVE LockInv'
  <1>1. LockTypeOK'
    BY LockTypes DEF LockInv
  <1>2. LockRest'
    <2>1. CASE UNCHANGED lockVars
      BY <2>1 DEF lockVars, LockInv, LockRest, NamedIsPast, NoStopInside, Past, HolderIsNamed,
                  LookerIsRight, StopIsOnItsWay, Holds, Exists
    <2>2. CASE LockNext
      BY <2>2, IssueRest, CreateRest, ReadOwnerRest, LookRest, TakeOverRest, WritePidRest,
         InstallRest, SignalRest, WaitRest, EndRest, ScriptRest DEF LockNext, LockStep
    <2> QED BY <2>1, <2>2
  <1> QED BY <1>1, <1>2 DEF LockInv, LockRest

\* What the invariant says of the daemons.
LEMMA AloneByLock == ASSUME LockInv PROVE DaemonIsAlone
  <1>1. SUFFICES ASSUME breach = {} PROVE OneDaemon /\ DaemonIsNamed
    BY DEF LockInv, DaemonIsAlone
  <1>2. DaemonIsNamed
    BY <1>1 DEF LockInv, HolderIsNamed, Holds, DaemonIsNamed, Daemons, LockOwner
  <1>3. OneDaemon
    <2>1. CASE Daemons = {}
      BY <2>1, FS_EmptySet DEF OneDaemon
    <2>2. CASE Daemons # {}
      <3>1. PICK d \in Procs : Daemons = {d}
        BY <1>2, <2>2 DEF DaemonIsNamed, Daemons
      <3>2. Cardinality(Daemons) = 1
        BY <3>1, FS_Singleton
      <3> QED BY <3>2 DEF OneDaemon
    <2> QED BY <2>1, <2>2
  <1> QED BY <1>2, <1>3

-----------------------------------------------------------------------------
\* The invariant holds in every state, for any number of processes.
THEOREM LockInvHolds == LockSpec => []LockInv
  <1>1. LockInit => LockInv
    BY LockInitInv
  <1>2. LockInv /\ [LockNext]_lockVars => LockInv'
    BY LockNextInv
  <1> QED BY <1>1, <1>2, PTL DEF LockSpec

\* The two ways round the lock are the only ones: without them there is one
\* daemon at most and the lock names it (chatd.cpp:446-477).
THEOREM LockKeepsItsPromise == LockSpec => []DaemonIsAlone
  <1>1. LockInv => DaemonIsAlone
    BY AloneByLock
  <1> QED BY <1>1, LockInvHolds, PTL

\* A stop that is over has reached the daemon of its time, however many starts,
\* stops and restarts ran beside it: the daemon is gone, or it has its SIGTERM
\* and the stop has waited its full time (chatd.cpp:487-497).
THEOREM StopReachesDaemon == LockSpec => []StopIsEffective
  <1>1. LockInv => StopIsEffective
    BY DEF LockInv, StopIsOnItsWay, StopIsEffective, Exists
  <1> QED BY <1>1, LockInvHolds, PTL

\* In every interleaving a start is refused only by a process that is a daemon or
\* about to be one, never for a lock that was left behind (chatd.cpp:453-460).
THEOREM RefusalIsAlwaysJustified == LockSpec => RefusalIsJustified
  <1>1. ASSUME LockInv, NEW p \in Procs, RefuseStart(p)
        PROVE  \E q \in Procs \ {p} : Holds(q)
    <2>1. opid[p] \in Procs \ {p} /\ Exists(opid[p])
      BY <1>1 DEF RefuseStart, HeldAgainst, LockInv, LockTypeOK
    <2>2. Past(opid[p])
      BY <1>1, <2>1 DEF LockInv, NamedIsPast
    <2>3. Holds(opid[p])
      BY <1>1, <2>1, <2>2 DEF LockInv, LockTypeOK, Past, Pcs, Exists, Holds
    <2> QED BY <2>1, <2>3
  <1>2. LockInv =>
          \A p \in Procs : RefuseStart(p) => \E q \in Procs \ {p} : Holds(q)
    BY <1>1
  <1> QED BY <1>2, LockInvHolds, PTL DEF RefusalIsJustified

-----------------------------------------------------------------------------
(* Digits is the function its recursion describes, and keeps the order of     *)
(* numbers with the same number of digits.                                    *)

\* f is the recursion for the numbers up to t.
Decimals(f, t) == f = [d \in 0..t |-> IF d < 10 THEN <<d>> ELSE Append(f[d \div 10], d % 10)]

LEMMA Tenth ==
  ASSUME NEW m \in Nat
  PROVE  /\ m \div 10 \in 0..m /\ m % 10 \in 0..9
         /\ m >= 10 => m \div 10 < m /\ m \div 10 \in 0..(m - 1)
  <1>1. m \div 10 \in Nat /\ m \div 10 <= m
    OBVIOUS
  <1>2. m % 10 \in 0..9
    OBVIOUS
  <1>3. m >= 10 => m \div 10 < m
    OBVIOUS
  <1> QED BY <1>1, <1>2, <1>3

\* A number is known by its tenth and its last digit, and so is the order.
LEMMA TenthsDecide ==
  ASSUME NEW m \in Nat, NEW o \in Nat
  PROVE  /\ m \div 10 = o \div 10 /\ m % 10 = o % 10 => m = o
         /\ m \div 10 < o \div 10 => m < o
         /\ m \div 10 = o \div 10 /\ m % 10 < o % 10 => m < o
  <1>1. m \div 10 = o \div 10 /\ m % 10 = o % 10 => m = o
    OBVIOUS
  <1>2. m \div 10 < o \div 10 => m < o
    OBVIOUS
  <1>3. m \div 10 = o \div 10 /\ m % 10 < o % 10 => m < o
    OBVIOUS
  <1> QED BY <1>1, <1>2, <1>3

LEMMA DecimalsExist == \A t \in Nat : \E f : Decimals(f, t)
  <1> DEFINE T == {t \in Nat : \E f : Decimals(f, t)}
  <1>1. 0 \in T
    <2> DEFINE f == [d \in 0..0 |-> <<d>>]
    <2>1. f = [d \in 0..0 |-> IF d < 10 THEN <<d>> ELSE Append(f[d \div 10], d % 10)]
      OBVIOUS
    <2> QED BY <2>1 DEF Decimals
  <1>2. ASSUME NEW t \in Nat, t \in T PROVE t + 1 \in T
    <2>1. PICK f : Decimals(f, t)
      BY <1>2
    <2>2. \A d \in 0..t : f[d] = IF d < 10 THEN <<d>> ELSE Append(f[d \div 10], d % 10)
      BY <2>1, Zenon DEF Decimals
    <2> DEFINE g == [d \in 0..(t + 1) |->
                       IF d \in 0..t THEN f[d]
                       ELSE IF d < 10 THEN <<d>> ELSE Append(f[d \div 10], d % 10)]
    <2>3. ASSUME NEW d \in 0..(t + 1)
          PROVE  g[d] = IF d < 10 THEN <<d>> ELSE Append(g[d \div 10], d % 10)
      <3>1. CASE d < 10
        BY <2>2, <3>1
      <3>2. CASE ~(d < 10)
        <4>1. d \div 10 \in 0..t /\ d \div 10 \in 0..(t + 1)
          BY <3>2, Tenth
        <4>2. g[d \div 10] = f[d \div 10]
          BY <4>1
        <4>3. g[d] = Append(f[d \div 10], d % 10)
          BY <2>2, <3>2
        <4> QED BY <3>2, <4>2, <4>3
      <3> QED BY <3>1, <3>2
    <2>4. g = [d \in 0..(t + 1) |-> IF d < 10 THEN <<d>> ELSE Append(g[d \div 10], d % 10)]
      <3>1. g = [d \in 0..(t + 1) |-> g[d]]
        OBVIOUS
      <3> HIDE DEF g
      <3> QED BY <2>3, <3>1
    <2>5. Decimals(g, t + 1)
      <3> HIDE DEF g
      <3> QED BY <2>4, Zenon DEF Decimals
    <2> QED BY <2>5
  <1>3. Nat \subseteq T
    <2> HIDE DEF T
    <2> QED BY <1>1, <1>2, SetInduction
  <1> QED BY <1>3

\* Of two such functions the shorter is a part of the other.
LEMMA DecimalsAgree ==
  ASSUME NEW t \in Nat, NEW u \in Nat, NEW f, NEW g, Decimals(f, t), Decimals(g, u)
  PROVE  \A d \in 0..t : d <= u => f[d] = g[d]
  <1> DEFINE T == {d \in 0..t : d <= u /\ f[d] # g[d]}
  <1>0. /\ \A d \in 0..t : f[d] = IF d < 10 THEN <<d>> ELSE Append(f[d \div 10], d % 10)
        /\ \A d \in 0..u : g[d] = IF d < 10 THEN <<d>> ELSE Append(g[d \div 10], d % 10)
    BY Zenon DEF Decimals
  <1>1. CASE T = {}
    BY <1>1
  <1>2. CASE T # {}
    <2>1. T \subseteq Nat
      OBVIOUS
    <2>2. PICK d \in T : \A e \in T : d <= e
      <3> HIDE DEF T
      <3> QED BY <1>2, <2>1, LeastNat
    <2>3. d \in 0..t /\ d \in 0..u /\ f[d] # g[d]
      BY <2>2
    <2>4. ~(d < 10)
      <3> SUFFICES ASSUME d < 10 PROVE FALSE
        OBVIOUS
      <3>1. f[d] = <<d>>
        BY <1>0, <2>3
      <3>2. g[d] = <<d>>
        BY <1>0, <2>3
      <3> QED BY <2>3, <3>1, <3>2
    <2>5. d \div 10 \in 0..(d - 1)
      BY <2>3, <2>4, Tenth
    <2>6. d \div 10 \notin T
      BY <2>2, <2>3, <2>5
    <2>7. f[d \div 10] = g[d \div 10]
      BY <2>3, <2>5, <2>6
    <2> QED BY <1>0, <2>3, <2>4, <2>7
  <1> QED BY <1>1, <1>2

LEMMA DigitsFollow ==
  ASSUME NEW t \in Nat
  PROVE  Digits(t) = IF t < 10 THEN <<t>> ELSE Append(Digits(t \div 10), t % 10)
  <1> DEFINE F(u) == CHOOSE f : Decimals(f, u)
  <1>1. \A u \in Nat : Decimals(F(u), u) 
    BY DecimalsExist, Zenon
  <1>2. \A u : Digits(u) = F(u)[u]
    BY Zenon DEF Digits, Decimals
  <1> HIDE DEF F
  <1>3. Decimals(F(t), t)
    BY <1>1
  <1>4. F(t)[t] = IF t < 10 THEN <<t>> ELSE Append(F(t)[t \div 10], t % 10)
    <2>1. t \in 0..t
      OBVIOUS
    <2> QED BY <1>3, <2>1, Zenon DEF Decimals
  <1>5. t \div 10 \in 0..t /\ t \div 10 \in Nat
    BY Tenth
  <1>6. F(t)[t \div 10] = F(t \div 10)[t \div 10]
    <2>1. Decimals(F(t \div 10), t \div 10)
      BY <1>1, <1>5, Zenon
    <2>2. \A d \in 0..(t \div 10) : d <= t => F(t \div 10)[d] = F(t)[d]
      <3> DEFINE f == F(t \div 10)
                 g == F(t)
                 v == t \div 10
      <3>1. v \in Nat /\ Decimals(f, v) /\ Decimals(g, t)
        BY <1>3, <1>5, <2>1
      <3> HIDE DEF f, g, v
      <3>2. \A d \in 0..v : d <= t => f[d] = g[d]
        BY <3>1, DecimalsAgree
      <3> QED BY <3>2 DEF f, g, v
    <2> QED BY <1>5, <2>2
  <1> QED BY <1>2, <1>4, <1>6

\* What a name is spelt with: digits.
LEMMA DigitsType ==
  ASSUME NEW t \in Nat
  PROVE  Digits(t) \in Seq(0..9) /\ Len(Digits(t)) > 0
  <1> DEFINE T == {u \in Nat : ~(Digits(u) \in Seq(0..9) /\ Len(Digits(u)) > 0)}
  <1>1. CASE T = {}
    BY <1>1
  <1>2. CASE T # {}
    <2>1. T \subseteq Nat
      OBVIOUS
    <2>2. PICK u \in T : \A v \in T : u <= v
      <3> HIDE DEF T
      <3> QED BY <1>2, <2>1, LeastNat
    <2>3. u \in Nat /\ ~(Digits(u) \in Seq(0..9) /\ Len(Digits(u)) > 0)
      BY <2>2
    <2>4. CASE u < 10
      <3>1. u \in 0..9 /\ Digits(u) = <<u>>
        BY <2>3, <2>4, DigitsFollow
      <3> QED BY <2>3, <3>1
    <2>5. CASE ~(u < 10)
      <3>1. u \div 10 \in 0..(u - 1) /\ u \div 10 \in Nat /\ u % 10 \in 0..9
        BY <2>3, <2>5, Tenth
      <3>2. u \div 10 \notin T
        BY <2>2, <2>3, <3>1
      <3>3. Digits(u \div 10) \in Seq(0..9)
        BY <3>1, <3>2
      <3>4. Digits(u) = Append(Digits(u \div 10), u % 10)
        BY <2>3, <2>5, DigitsFollow
      <3>5. Digits(u) \in Seq(0..9) /\ Len(Digits(u)) = Len(Digits(u \div 10)) + 1
        BY <3>1, <3>3, <3>4
      <3> QED BY <2>3, <3>3, <3>5
    <2> QED BY <2>4, <2>5
  <1> QED BY <1>1, <1>2

\* The first k - 1 of two sequences are the same.
SameTo(s, t, k) == \A j \in 1..(k - 1) : s[j] = t[j]

\* Two numbers with the same number of digits: the same digits are the same number,
\* and the first that differs decides.
DigitsDecide(u, v) ==
  Len(Digits(u)) = Len(Digits(v)) =>
    /\ SameTo(Digits(u), Digits(v), Len(Digits(u)) + 1) => u = v
    /\ \A k \in 1..Len(Digits(u)) :
         SameTo(Digits(u), Digits(v), k) /\ Digits(u)[k] < Digits(v)[k] => u < v

LEMMA DigitsOrder == \A u, v \in Nat : DigitsDecide(u, v)
  <1> DEFINE T == {u \in Nat : \E v \in Nat : ~DigitsDecide(u, v)}
  <1>1. CASE T = {}
    BY <1>1
  <1>2. CASE T # {}
    <2>1. T \subseteq Nat
      OBVIOUS
    <2>2. PICK u \in T : \A w \in T : u <= w
      <3> HIDE DEF T
      <3> QED BY <1>2, <2>1, LeastNat
    <2>3. PICK v \in Nat : ~DigitsDecide(u, v)
      BY <2>2
    <2> DEFINE a == u \div 10
               b == v \div 10
               A == Digits(a)
               B == Digits(b)
    <2>4. Len(Digits(u)) = Len(Digits(v)) /\ u \in Nat
      BY <2>2, <2>3 DEF DigitsDecide
    <2>5. CASE u < 10
      <3>1. Digits(u) = <<u>> /\ Len(Digits(u)) = 1
        BY <2>4, <2>5, DigitsFollow
      <3>2. v < 10
        <4> SUFFICES ASSUME ~(v < 10) PROVE FALSE
          OBVIOUS
        <4>1. Digits(v) = Append(B, v % 10)
          BY DigitsFollow
        <4>2. b \in Nat /\ v % 10 \in 0..9
          BY Tenth
        <4>3. B \in Seq(0..9) /\ Len(B) > 0
          BY <4>2, DigitsType
        <4> HIDE DEF B
        <4>4. Len(Digits(v)) = Len(B) + 1 /\ Len(B) \in Nat
          BY <4>1, <4>2, <4>3
        <4> QED BY <2>4, <3>1, <4>3, <4>4
      <3>3. Digits(v) = <<v>>
        BY <3>2, DigitsFollow
      <3>4. Digits(u)[1] = u /\ Digits(v)[1] = v
        BY <3>1, <3>3
      <3>5. SameTo(Digits(u), Digits(v), Len(Digits(u)) + 1) => u = v
        BY <3>1, <3>4 DEF SameTo
      <3>6. \A k \in 1..Len(Digits(u)) : Digits(u)[k] < Digits(v)[k] => u < v
        BY <3>1, <3>4
      <3> QED BY <2>3, <3>5, <3>6 DEF DigitsDecide
    <2>6. CASE ~(u < 10)
      <3>1. Digits(u) = Append(A, u % 10) /\ a \in Nat /\ a \in 0..(u - 1) /\ u % 10 \in 0..9
        BY <2>4, <2>6, DigitsFollow, Tenth
      <3>2. A \in Seq(0..9) /\ Len(A) > 0 /\ Len(Digits(u)) = Len(A) + 1 /\ Len(A) \in Nat
        <4>1. A \in Seq(0..9) /\ Len(A) > 0
          BY <3>1, DigitsType
        <4> HIDE DEF A
        <4> QED BY <3>1, <4>1
      <3>3. ~(v < 10)
        <4> SUFFICES ASSUME v < 10 PROVE FALSE
          OBVIOUS
        <4>1. Digits(v) = <<v>>
          BY DigitsFollow
        <4>2. Len(Digits(v)) = 1
          BY <4>1
        <4> HIDE DEF A
        <4>3. Len(A) + 1 # 1
          BY <3>2
        <4> QED BY <2>4, <3>2, <4>2, <4>3, Zenon
      <3>4. Digits(v) = Append(B, v % 10) /\ b \in Nat /\ v % 10 \in 0..9
        BY <3>3, DigitsFollow, Tenth
      <3>5. B \in Seq(0..9) /\ Len(Digits(v)) = Len(B) + 1 /\ Len(B) \in Nat
        <4>1. B \in Seq(0..9)
          BY <3>4, DigitsType
        <4> HIDE DEF B
        <4> QED BY <3>4, <4>1
      <3>6. Len(A) = Len(B)
        <4> HIDE DEF A, B
        <4>1. Len(A) + 1 = Len(B) + 1
          BY <2>4, <3>2, <3>5, Zenon
        <4> QED BY <3>2, <3>5, <4>1
      <3>7. DigitsDecide(a, b)
        BY <2>2, <2>4, <3>1, <3>4
      <3>8. /\ SameTo(A, B, Len(A) + 1) => a = b
            /\ \A k \in 1..Len(A) : SameTo(A, B, k) /\ A[k] < B[k] => a < b
        BY <3>6, <3>7 DEF DigitsDecide
      <3>9. /\ \A j \in 1..Len(A) : Digits(u)[j] = A[j] /\ Digits(v)[j] = B[j]
            /\ Digits(u)[Len(A) + 1] = u % 10 /\ Digits(v)[Len(A) + 1] = v % 10
        <4> HIDE DEF A, B
        <4> QED BY <3>1, <3>2, <3>4, <3>5, <3>6
      <3> DEFINE L == Len(A)
      <3>10. \A k \in 1..(L + 1) : SameTo(Digits(u), Digits(v), k) => SameTo(A, B, k)
        <4> HIDE DEF A, B
        <4> QED BY <3>2, <3>9 DEF SameTo
      <3>11. SameTo(Digits(u), Digits(v), L + 2) => u = v
        <4> SUFFICES ASSUME SameTo(Digits(u), Digits(v), L + 2) PROVE u = v
          OBVIOUS
        <4>1. SameTo(Digits(u), Digits(v), L + 1) /\ Digits(u)[L + 1] = Digits(v)[L + 1]
          BY <3>2 DEF SameTo
        <4>2. a = b
          BY <3>2, <3>8, <3>10, <4>1
        <4>3. u % 10 = v % 10
          BY <3>9, <4>1
        <4> QED BY <2>4, <4>2, <4>3, TenthsDecide
      <3>12. ASSUME NEW k \in 1..(L + 1), SameTo(Digits(u), Digits(v), k), Digits(u)[k] < Digits(v)[k]
             PROVE  u < v
        <4>1. CASE k <= L
          <5>1. a < b
            <6>1. k \in 1..L
              BY <3>2, <4>1
            <6>2. Digits(u)[k] = A[k] /\ Digits(v)[k] = B[k]
              BY <3>9, <6>1
            <6> QED BY <3>8, <3>10, <3>12, <6>1, <6>2
          <5> QED BY <2>4, <5>1, TenthsDecide
        <4>2. CASE k = L + 1
          <5>1. a = b
            BY <3>8, <3>10, <3>12, <4>2
          <5>2. u % 10 < v % 10
            BY <3>9, <3>12, <4>2
          <5> QED BY <2>4, <5>1, <5>2, TenthsDecide
        <4> QED BY <3>2, <4>1, <4>2
      <3> HIDE DEF L
      <3> QED BY <2>3, <3>2, <3>11, <3>12 DEF DigitsDecide, L
    <2> QED BY <2>5, <2>6
  <1> QED BY <1>1, <1>2

-----------------------------------------------------------------------------
(* Before is an order of the names, and of two clocks with the same number of *)
(* digits the order of time.                                                  *)

DeathNames == [time : Nat, child : Nat]

LEMMA SpeltFacts ==
  ASSUME NEW a \in DeathNames
  PROVE  LET l == Len(Digits(a.time)) IN
         /\ l \in Nat /\ Len(Spelt(a)) = l + 2
         /\ \A j \in 1..l : Spelt(a)[j] = Digits(a.time)[j] /\ Spelt(a)[j] \in 0..9
         /\ Spelt(a)[l + 1] = 10 /\ Spelt(a)[l + 2] = a.child /\ a.child \in Nat
         /\ \A j \in 1..Len(Spelt(a)) : Spelt(a)[j] \in Nat
  <1> DEFINE D == Digits(a.time)
             e == <<10, a.child>>
  <1>1. a.time \in Nat /\ a.child \in Nat
    BY DEF DeathNames
  <1>2. D \in Seq(0..9)
    BY <1>1, DigitsType
  <1>3. Spelt(a) = D \o e
    BY DEF Spelt, Underscore
  <1> HIDE DEF D
  <1>4. e \in Seq(Nat) /\ Len(e) = 2 /\ e[1] = 10 /\ e[2] = a.child
    BY <1>1
  <1> HIDE DEF e
  <1>5. Len(D) \in Nat /\ \A j \in 1..Len(D) : D[j] \in 0..9
    BY <1>2
  <1>6. /\ Len(Spelt(a)) = Len(D) + 2
        /\ \A j \in 1..(Len(D) + 2) :
             Spelt(a)[j] = IF j <= Len(D) THEN D[j] ELSE e[j - Len(D)]
    <2>1. D \in Seq(Nat)
      <3>1. 0..9 \subseteq Nat
        OBVIOUS
      <3> QED BY <1>2, <3>1
    <2>2. /\ Len(D \o e) = Len(D) + Len(e)
          /\ \A j \in 1..(Len(D) + Len(e)) :
               (D \o e)[j] = IF j <= Len(D) THEN D[j] ELSE e[j - Len(D)]
      BY <1>4, <2>1, ConcatProperties
    <2> QED BY <1>3, <1>4, <2>2
  <1>7. \A j \in 1..Len(D) : Spelt(a)[j] = D[j]
    BY <1>5, <1>6
  <1>8. Spelt(a)[Len(D) + 1] = 10 /\ Spelt(a)[Len(D) + 2] = a.child
    <2>1. Len(D) + 1 \in 1..(Len(D) + 2) /\ ~(Len(D) + 1 <= Len(D)) /\ (Len(D) + 1) - Len(D) = 1
      BY <1>5
    <2>2. Len(D) + 2 \in 1..(Len(D) + 2) /\ ~(Len(D) + 2 <= Len(D)) /\ (Len(D) + 2) - Len(D) = 2
      BY <1>5
    <2> QED BY <1>4, <1>6, <2>1, <2>2
  <1>9. ASSUME NEW j \in 1..(Len(D) + 2) PROVE Spelt(a)[j] \in Nat
    <2>1. j \in 1..Len(D) \/ j = Len(D) + 1 \/ j = Len(D) + 2
      BY <1>5
    <2> QED BY <1>1, <1>5, <1>7, <1>8, <2>1, SMTT(40)
  <1> QED BY <1>1, <1>5, <1>6, <1>7, <1>8, <1>9 DEF D

LEMMA BeforeIsStrict == ASSUME NEW a \in DeathNames, Before(a, a) PROVE FALSE
  BY SpeltFacts DEF Before

LEMMA BeforeIsTransitive ==
  ASSUME NEW a \in DeathNames, NEW b \in DeathNames, NEW c \in DeathNames, Before(a, b), Before(b, c)
  PROVE  Before(a, c)
  <1> DEFINE s == Spelt(a)
             t == Spelt(b)
             u == Spelt(c)
  <1>1. PICK k \in 1..Len(s) : k <= Len(t) /\ s[k] < t[k] /\ \A j \in 1..(k - 1) : s[j] = t[j]
    BY DEF Before
  <1>2. PICK m \in 1..Len(t) : m <= Len(u) /\ t[m] < u[m] /\ \A j \in 1..(m - 1) : t[j] = u[j]
    BY DEF Before
  <1>3. /\ Len(s) \in Nat /\ Len(t) \in Nat /\ Len(u) \in Nat
        /\ \A j \in 1..Len(s) : s[j] \in Nat
        /\ \A j \in 1..Len(t) : t[j] \in Nat
        /\ \A j \in 1..Len(u) : u[j] \in Nat
    BY SpeltFacts
  <1> SUFFICES \E i \in 1..Len(s) : i <= Len(u) /\ s[i] < u[i] /\ \A j \in 1..(i - 1) : s[j] = u[j]
    BY DEF Before
  <1> HIDE DEF s, t, u
  <1>4. CASE k < m
    <2>1. t[k] = u[k]
      BY <1>1, <1>2, <1>3, <1>4
    <2>2. \A j \in 1..(k - 1) : s[j] = u[j]
      BY <1>1, <1>2, <1>3, <1>4
    <2> QED BY <1>1, <1>2, <1>3, <1>4, <2>1, <2>2
  <1>5. CASE k = m
    <2>1. s[k] < u[k]
      BY <1>1, <1>2, <1>3, <1>5
    <2> QED BY <1>1, <1>2, <1>3, <1>5, <2>1
  <1>6. CASE k > m
    <2>1. s[m] = t[m]
      BY <1>1, <1>2, <1>3, <1>6
    <2>2. \A j \in 1..(m - 1) : s[j] = u[j]
      BY <1>1, <1>2, <1>3, <1>6
    <2> QED BY <1>1, <1>2, <1>3, <1>6, <2>1, <2>2, SMTT(40)
  <1> QED BY <1>1, <1>2, <1>3, <1>4, <1>5, <1>6

\* No name is the beginning of another: behind the digits is no digit.
LEMMA BeforeIsTotal ==
  ASSUME NEW a \in DeathNames, NEW b \in DeathNames, a # b
  PROVE  Before(a, b) \/ Before(b, a)
  <1> DEFINE s == Spelt(a)
             t == Spelt(b)
             l == Len(Digits(a.time))
             m == Len(Digits(b.time))
             D == {j \in 1..Len(s) : j <= Len(t) /\ s[j] # t[j]}
  <1>1. /\ l \in Nat /\ Len(s) = l + 2 /\ s[l + 1] = 10 /\ s[l + 2] = a.child
        /\ \A j \in 1..l : s[j] = Digits(a.time)[j] /\ s[j] \in 0..9
        /\ \A j \in 1..Len(s) : s[j] \in Nat
    BY SpeltFacts
  <1>2. /\ m \in Nat /\ Len(t) = m + 2 /\ t[m + 1] = 10 /\ t[m + 2] = b.child
        /\ \A j \in 1..m : t[j] = Digits(b.time)[j] /\ t[j] \in 0..9
        /\ \A j \in 1..Len(t) : t[j] \in Nat
    BY SpeltFacts
  <1>3. CASE D # {}
    <2>1. D \subseteq Nat
      OBVIOUS
    <2>2. PICK k \in D : \A j \in D : k <= j
      <3> HIDE DEF D
      <3> QED BY <1>3, <2>1, LeastNat
    <2>3. k \in 1..Len(s) /\ k \in 1..Len(t) /\ s[k] # t[k]
      BY <1>1, <1>2, <2>2
    <2>4. \A j \in 1..(k - 1) : s[j] = t[j]
      <3> SUFFICES ASSUME NEW j \in 1..(k - 1), s[j] # t[j] PROVE FALSE
        OBVIOUS
      <3>1. j \in D
        <4>1. j \in 1..Len(s) /\ j <= Len(t)
          <5> HIDE DEF s, t
          <5> QED BY <1>1, <1>2, <2>3
        <4> QED BY <4>1
      <3> HIDE DEF D
      <3> QED BY <2>2, <2>3, <3>1
    <2>5. s[k] < t[k] \/ t[k] < s[k]
      <3> HIDE DEF s, t
      <3> QED BY <1>1, <1>2, <2>3
    <2> QED BY <2>3, <2>4, <2>5 DEF Before
  <1>4. CASE D = {}
    <2>1. \A j \in 1..Len(s) : j <= Len(t) => s[j] = t[j]
      BY <1>4
    <2> HIDE DEF D, s, t, l, m
    <2>2. l = m
      <3>1. CASE l < m
        <4>1. l + 1 \in 1..Len(s) /\ l + 1 <= Len(t) /\ l + 1 \in 1..m
          BY <1>1, <1>2, <3>1
        <4>2. s[l + 1] = t[l + 1]
          BY <2>1, <4>1
        <4>3. t[l + 1] \in 0..9
          BY <1>2, <4>1
        <4> QED BY <1>1, <4>2, <4>3, SMTT(40)
      <3>2. CASE m < l
        <4>1. m + 1 \in 1..Len(s) /\ m + 1 <= Len(t) /\ m + 1 \in 1..l
          BY <1>1, <1>2, <3>2
        <4>2. s[m + 1] = t[m + 1]
          BY <2>1, <4>1
        <4>3. s[m + 1] \in 0..9
          BY <1>1, <4>1
        <4> QED BY <1>2, <4>2, <4>3
      <3> QED BY <1>1, <1>2, <3>1, <3>2
    <2>3. \A j \in 1..l : Digits(a.time)[j] = Digits(b.time)[j]
      <3> SUFFICES ASSUME NEW j \in 1..l PROVE Digits(a.time)[j] = Digits(b.time)[j]
        OBVIOUS
      <3>1. j \in 1..Len(s) /\ j <= Len(t) /\ j \in 1..m
        BY <1>1, <1>2, <2>2
      <3> QED BY <1>1, <1>2, <2>1, <3>1
    <2>4. a.time = b.time
      <3>1. DigitsDecide(a.time, b.time)
        BY DigitsOrder DEF DeathNames
      <3>2. SameTo(Digits(a.time), Digits(b.time), l + 1)
        <4>1. (l + 1) - 1 = l
          BY <1>1
        <4> QED BY <2>3, <4>1 DEF SameTo
      <3> QED BY <2>2, <3>1, <3>2 DEF DigitsDecide, l, m
    <2>5. a.child = b.child
      <3>1. l + 2 \in 1..Len(s) /\ l + 2 <= Len(t)
        BY <1>1, <1>2, <2>2
      <3> QED BY <1>1, <1>2, <2>1, <2>2, <3>1
    <2> QED BY <2>4, <2>5 DEF DeathNames
  <1> QED BY <1>3, <1>4

LEMMA BeforeIsEarlier ==
  ASSUME NEW a \in DeathNames, NEW b \in DeathNames, Before(a, b),
         Len(Digits(a.time)) = Len(Digits(b.time))
  PROVE  a.time <= b.time
  <1> DEFINE s == Spelt(a)
             t == Spelt(b)
             l == Len(Digits(a.time))
  <1>1. /\ l \in Nat /\ Len(s) = l + 2 /\ s[l + 1] = 10 /\ t[l + 1] = 10
        /\ \A j \in 1..l : s[j] = Digits(a.time)[j] /\ t[j] = Digits(b.time)[j]
    BY SpeltFacts
  <1>2. PICK k \in 1..Len(s) : s[k] < t[k] /\ \A j \in 1..(k - 1) : s[j] = t[j]
    BY DEF Before
  <1>3. DigitsDecide(a.time, b.time) /\ a.time \in Nat /\ b.time \in Nat
    BY DigitsOrder DEF DeathNames
  <1> HIDE DEF s, t
  <1>4. CASE k \in 1..l
    <2>1. SameTo(Digits(a.time), Digits(b.time), k)
      BY <1>1, <1>2, <1>4 DEF SameTo
    <2>2. Digits(a.time)[k] < Digits(b.time)[k]
      BY <1>1, <1>2, <1>4
    <2>3. a.time < b.time
      BY <1>3, <1>4, <2>1, <2>2 DEF DigitsDecide
    <2> QED BY <1>3, <2>3
  <1>5. CASE k = l + 2
    <2>1. SameTo(Digits(a.time), Digits(b.time), l + 1)
      BY <1>1, <1>2, <1>5 DEF SameTo
    <2>2. a.time = b.time
      BY <1>3, <2>1 DEF DigitsDecide
    <2> QED BY <1>3, <2>2
  <1>6. k # l + 1
    BY <1>1, <1>2
  <1> HIDE DEF l
  <1> QED BY <1>1, <1>2, <1>4, <1>5, <1>6

-----------------------------------------------------------------------------
(* Pruning drops the first of KEEP + 1 names and nothing else.                *)

LEMMA FirstName ==
  ASSUME NEW N \in SUBSET DeathNames, IsFiniteSet(N), N # {}
  PROVE  \E a \in N : \A b \in N \ {a} : Before(a, b)
  <1> DEFINE T == {d \in Nat : \A S \in SUBSET DeathNames :
                     IsFiniteSet(S) /\ Cardinality(S) = d + 1 =>
                       \E a \in S : \A b \in S \ {a} : Before(a, b)}
  <1>1. 0 \in T
    <2> SUFFICES ASSUME NEW S \in SUBSET DeathNames, IsFiniteSet(S), Cardinality(S) = 1
                 PROVE  \E a \in S : \A b \in S \ {a} : Before(a, b)
      OBVIOUS
    <2>1. PICK a : S = {a}
      BY FS_Singleton, Zenon
    <2> QED BY <2>1
  <1>2. ASSUME NEW d \in Nat, d \in T PROVE d + 1 \in T
    <2> SUFFICES ASSUME NEW S \in SUBSET DeathNames, IsFiniteSet(S), Cardinality(S) = (d + 1) + 1
                 PROVE  \E a \in S : \A b \in S \ {a} : Before(a, b)
      OBVIOUS
    <2>1. S # {}
      BY FS_EmptySet
    <2>2. PICK x \in S : TRUE
      BY <2>1
    <2>3. IsFiniteSet(S \ {x}) /\ Cardinality(S \ {x}) = d + 1
      BY <2>2, FS_RemoveElement
    <2>4. PICK a \in S \ {x} : \A b \in (S \ {x}) \ {a} : Before(a, b)
      BY <1>2, <2>3
    <2>5. a \in DeathNames /\ x \in DeathNames /\ a # x /\ S \subseteq DeathNames
      BY <2>2, <2>4
    <2>6. CASE Before(a, x)
      <3>1. \A b \in S \ {a} : Before(a, b)
        BY <2>4, <2>6
      <3> QED BY <2>4, <3>1
    <2>7. CASE Before(x, a)
      <3>1. ASSUME NEW b \in S \ {x} PROVE Before(x, b)
        <4>1. CASE b = a
          BY <2>7, <4>1
        <4>2. CASE b # a
          <5>1. Before(a, b) /\ b \in DeathNames
            BY <2>4, <2>5, <4>2
          <5> QED BY <2>5, <2>7, <5>1, BeforeIsTransitive
        <4> QED BY <4>1, <4>2
      <3> QED BY <2>2, <3>1
    <2> QED BY <2>5, <2>6, <2>7, BeforeIsTotal
  <1>3. Nat \subseteq T
    <2> HIDE DEF T
    <2> QED BY <1>1, <1>2, SetInduction
  <1>4. Cardinality(N) \in Nat /\ Cardinality(N) # 0
    BY FS_CardinalityType, FS_EmptySet
  <1>5. Cardinality(N) - 1 \in T /\ (Cardinality(N) - 1) + 1 = Cardinality(N)
    <2> HIDE DEF T
    <2> QED BY <1>3, <1>4
  <1> QED BY <1>5

LEMMA PruningDropsTheFirst ==
  ASSUME NEW N \in SUBSET DeathNames, IsFiniteSet(N), Cardinality(N) = KEEP + 1
  PROVE  \E a \in N : /\ Rotated(N) = N \ {a} /\ Cardinality(Rotated(N)) = KEEP
                      /\ \A b \in Rotated(N) : Before(a, b)
  <1>0. KEEP \in Nat /\ KEEP > 0
    BY ForensicsAssumption
  <1>1. N # {}
    BY <1>0, FS_EmptySet
  <1>2. PICK a \in N : \A b \in N \ {a} : Before(a, b)
    BY <1>1, FirstName
  <1> DEFINE After(f) == {g \in N : Before(f, g)}
  <1>3. Rotated(N) = {f \in N : Cardinality(After(f)) < KEEP}
    BY <1>0 DEF Rotated
  <1>4. IsFiniteSet(N \ {a}) /\ Cardinality(N \ {a}) = KEEP
    BY <1>0, <1>2, FS_RemoveElement
  <1>5. ~(Cardinality(After(a)) < KEEP)
    <2>1. After(a) = N \ {a}
      BY <1>2, BeforeIsStrict
    <2> HIDE DEF After
    <2> QED BY <1>0, <1>4, <2>1
  <1>6. ASSUME NEW f \in N \ {a} PROVE Cardinality(After(f)) < KEEP
    <2>1. After(f) \in SUBSET ((N \ {a}) \ {f})
      <3>1. ~Before(f, a)
        <4> SUFFICES ASSUME Before(f, a) PROVE FALSE
          OBVIOUS
        <4>1. Before(a, a) /\ a \in DeathNames
          BY <1>2, BeforeIsTransitive
        <4> QED BY <4>1, BeforeIsStrict
      <3>2. ~Before(f, f)
        BY BeforeIsStrict
      <3> QED BY <3>1, <3>2
    <2>2. IsFiniteSet((N \ {a}) \ {f}) /\ Cardinality((N \ {a}) \ {f}) = KEEP - 1
      BY <1>4, FS_RemoveElement
    <2> HIDE DEF After
    <2>3. Cardinality(After(f)) <= KEEP - 1 /\ IsFiniteSet(After(f))
      BY <2>1, <2>2, FS_Subset
    <2>4. Cardinality(After(f)) \in Nat
      BY <2>3, FS_CardinalityType
    <2> QED BY <1>0, <2>3, <2>4
  <1>7. Rotated(N) = N \ {a}
    <2> HIDE DEF After
    <2> QED BY <1>3, <1>5, <1>6
  <1> QED BY <1>2, <1>4, <1>7

-----------------------------------------------------------------------------
(* The directory. *)

Recorded == {written[k] : k \in DOMAIN written}

ForensicsInv ==
  /\ time \in Nat /\ written \in Seq(DeathNames) /\ IsFiniteSet(Recorded)
  /\ DeathsAreKept

LEMMA RecordedGrows ==
  ASSUME NEW name \in DeathNames, written \in Seq(DeathNames), written' = Append(written, name)
  PROVE  /\ Recorded' = Recorded \cup {name} /\ Len(written') = Len(written) + 1
         /\ \A k \in 1..Len(written) : written'[k] = written[k]
         /\ written'[Len(written) + 1] = name
         /\ DOMAIN written = 1..Len(written) /\ DOMAIN written' = 1..(Len(written) + 1)
         /\ Len(written) \in Nat /\ written' \in Seq(DeathNames)
  <1>1. /\ Len(written') = Len(written) + 1
        /\ \A k \in 1..Len(written) : written'[k] = written[k]
        /\ written'[Len(written) + 1] = name
        /\ DOMAIN written = 1..Len(written) /\ DOMAIN written' = 1..(Len(written) + 1)
        /\ Len(written) \in Nat /\ written' \in Seq(DeathNames)
    OBVIOUS
  <1>2. Recorded' = Recorded \cup {name}
    <2>1. Recorded' = {written'[k] : k \in 1..(Len(written) + 1)}
      BY <1>1 DEF Recorded
    <2>2. Recorded = {written[k] : k \in 1..Len(written)}
      BY <1>1 DEF Recorded
    <2> HIDE DEF Recorded
    <2>3. ASSUME NEW x \in Recorded' PROVE x \in Recorded \cup {name}
      <3>1. PICK k \in 1..(Len(written) + 1) : x = written'[k]
        BY <2>1, <2>3
      <3>2. k \in 1..Len(written) \/ k = Len(written) + 1
        BY <1>1
      <3> QED BY <1>1, <2>2, <3>1, <3>2
    <2>4. ASSUME NEW x \in Recorded \cup {name} PROVE x \in Recorded'
      <3>1. CASE x \in Recorded
        <4>1. PICK k \in 1..Len(written) : x = written[k]
          BY <2>2, <3>1
        <4>2. k \in 1..(Len(written) + 1) /\ x = written'[k]
          BY <1>1, <4>1
        <4> QED BY <2>1, <4>2
      <3>2. CASE x = name
        <4>1. Len(written) + 1 \in 1..(Len(written) + 1) /\ x = written'[Len(written) + 1]
          BY <1>1, <3>2
        <4> QED BY <2>1, <4>1
      <3> QED BY <2>4, <3>1, <3>2
    <2> QED BY <2>3, <2>4
  <1> QED BY <1>1, <1>2

\* What a death does to the directory: its name is added, and of more than KEEP the
\* first is gone.
LEMMA DirectoryChanges ==
  ASSUME ForensicsInv, NEW name \in DeathNames, dir' = Rotated(dir \cup {name}),
         written' = Append(written, name)
  PROVE  /\ DirectoryIsBounded'
         /\ \/ dir' = dir \cup {name}
            \/ \E a \in dir \cup {name} : dir' = (dir \cup {name}) \ {a} /\ \A b \in dir' : Before(a, b)
  <1>0. KEEP \in Nat /\ KEEP > 0
    BY ForensicsAssumption
  <1>1. /\ dir \subseteq Recorded /\ IsFiniteSet(Recorded)
        /\ Cardinality(dir) = IF Cardinality(Recorded) < KEEP THEN Cardinality(Recorded) ELSE KEEP
    BY DEF ForensicsInv, DeathsAreKept, DirectoryIsBounded, Recorded
  <1>2. IsFiniteSet(dir) /\ Cardinality(dir) \in Nat /\ Cardinality(Recorded) \in Nat
    BY <1>1, FS_Subset, FS_CardinalityType
  <1>3. /\ Recorded' = Recorded \cup {name} /\ Recorded \subseteq DeathNames
    <2>1. Recorded \subseteq DeathNames
      BY DEF ForensicsInv, Recorded
    <2> QED BY <2>1, RecordedGrows DEF ForensicsInv
  <1>4. /\ IsFiniteSet(Recorded') /\ IsFiniteSet(dir \cup {name})
        /\ Cardinality(Recorded') = IF name \in Recorded THEN Cardinality(Recorded)
                                    ELSE Cardinality(Recorded) + 1
        /\ Cardinality(dir \cup {name}) = IF name \in dir THEN Cardinality(dir) ELSE Cardinality(dir) + 1
    BY <1>1, <1>2, <1>3, FS_AddElement
  <1>5. dir \cup {name} \in SUBSET DeathNames
    BY <1>1, <1>3
  <1> SUFFICES /\ dir' \subseteq Recorded'
               /\ Cardinality(dir') = IF Cardinality(Recorded') < KEEP THEN Cardinality(Recorded') ELSE KEEP
               /\ \/ dir' = dir \cup {name}
                  \/ \E a \in dir \cup {name} :
                       dir' = (dir \cup {name}) \ {a} /\ \A b \in dir' : Before(a, b)
    BY Zenon DEF DirectoryIsBounded, Recorded
  <1>6. CASE name \in dir
    <2>1. dir \cup {name} = dir /\ Recorded' = Recorded
      BY <1>1, <1>3, <1>6
    <2>2. dir' = dir
      <3>1. dir' = Rotated(dir)
        BY <2>1
      <3>2. Cardinality(dir) <= KEEP
        BY <1>0, <1>1, <1>2
      <3> QED BY <3>1, <3>2 DEF Rotated
    <2> QED BY <1>1, <2>1, <2>2
  <1>7. CASE name \notin dir /\ Cardinality(dir) < KEEP
    <2>1. Cardinality(dir) = Cardinality(Recorded)
      BY <1>0, <1>1, <1>7
    <2>2. dir = Recorded
      BY <1>1, <2>1, FS_Subset
    <2>3. Cardinality(dir \cup {name}) <= KEEP
      BY <1>0, <1>2, <1>4, <1>7
    <2>4. dir' = dir \cup {name}
      BY <2>3 DEF Rotated
    <2>5. dir' = Recorded'
      BY <1>3, <2>2, <2>4
    <2>6. Cardinality(dir') <= KEEP /\ Cardinality(dir') \in Nat
      BY <2>3, <2>4, <1>4, FS_CardinalityType
    <2>7. Cardinality(dir') = IF Cardinality(dir') < KEEP THEN Cardinality(dir') ELSE KEEP
      BY <1>0, <2>6
    <2>8. Cardinality(dir') = IF Cardinality(Recorded') < KEEP THEN Cardinality(Recorded') ELSE KEEP
      BY <2>5, <2>7
    <2> QED BY <2>4, <2>5, <2>8
  <1>8. CASE name \notin dir /\ ~(Cardinality(dir) < KEEP)
    <2>1. Cardinality(dir) = KEEP /\ ~(Cardinality(Recorded) < KEEP)
      BY <1>0, <1>1, <1>2, <1>8
    <2>2. Cardinality(dir \cup {name}) = KEEP + 1
      BY <1>4, <1>8, <2>1
    <2>3. PICK a \in dir \cup {name} :
            /\ dir' = (dir \cup {name}) \ {a} /\ Cardinality(dir') = KEEP
            /\ \A b \in dir' : Before(a, b)
      BY <1>4, <1>5, <2>2, PruningDropsTheFirst
    <2>4. ~(Cardinality(Recorded') < KEEP)
      BY <1>0, <1>2, <1>4, <2>1
    <2> QED BY <1>1, <1>3, <2>3, <2>4
  <1> QED BY <1>6, <1>7, <1>8

Steady ==
  \A j, k \in DOMAIN written : j < k =>
    /\ written[j].time <= written[k].time
    /\ Len(Digits(written[j].time)) = Len(Digits(written[k].time))

\* With a clock that did not go back the new death is the newest.
LEMMA SnapshotKeepsNewest ==
  ASSUME ForensicsInv, NEW name \in DeathNames, dir' = Rotated(dir \cup {name}),
         written' = Append(written, name)
  PROVE  NewestIsKept'
  <1> SUFFICES ASSUME Steady', NEW f \in dir', NEW g \in Recorded', g \notin dir'
               PROVE  f.time >= g.time
    BY Zenon DEF NewestIsKept, Steady, Recorded
  <1>1. /\ Recorded' = Recorded \cup {name} /\ Len(written) \in Nat
        /\ \A k \in 1..Len(written) : written'[k] = written[k]
        /\ written'[Len(written) + 1] = name
        /\ DOMAIN written = 1..Len(written) /\ DOMAIN written' = 1..(Len(written) + 1)
    BY RecordedGrows DEF ForensicsInv
  <1>2. Recorded \subseteq DeathNames /\ dir \subseteq Recorded
    BY DEF ForensicsInv, DeathsAreKept, DirectoryIsBounded, Recorded
  <1>3. Steady
    <2> SUFFICES ASSUME NEW j \in DOMAIN written, NEW k \in DOMAIN written, j < k
                 PROVE  /\ written[j].time <= written[k].time
                        /\ Len(Digits(written[j].time)) = Len(Digits(written[k].time))
      BY DEF Steady
    <2>1. j \in DOMAIN written' /\ k \in DOMAIN written' /\ written'[j] = written[j] /\ written'[k] = written[k]
      BY <1>1
    <2>2. /\ written'[j].time <= written'[k].time
          /\ Len(Digits(written'[j].time)) = Len(Digits(written'[k].time))
      BY <2>1, Zenon DEF Steady
    <2> QED BY <2>1, <2>2
  <1>4. \A h \in Recorded : h.time <= name.time /\ Len(Digits(h.time)) = Len(Digits(name.time))
    <2> SUFFICES ASSUME NEW k \in 1..Len(written)
                 PROVE  /\ written[k].time <= name.time
                        /\ Len(Digits(written[k].time)) = Len(Digits(name.time))
      BY <1>1 DEF Recorded
    <2>1. /\ k \in DOMAIN written' /\ Len(written) + 1 \in DOMAIN written' /\ k < Len(written) + 1
          /\ written'[k] = written[k]
      BY <1>1
    <2>2. /\ written'[k].time <= written'[Len(written) + 1].time
          /\ Len(Digits(written'[k].time)) = Len(Digits(written'[Len(written) + 1].time))
      BY <2>1, Zenon DEF Steady
    <2> QED BY <1>1, <2>1, <2>2
  <1>5. \A x \in dir, h \in Recorded : h \notin dir => x.time >= h.time
    BY <1>3, Zenon DEF ForensicsInv, DeathsAreKept, NewestIsKept, Steady, Recorded
  <1>6. f \in DeathNames /\ g \in DeathNames /\ f.time \in Nat /\ g.time \in Nat /\ name.time \in Nat
    <2>1. f \in Recorded'
      BY DirectoryChanges DEF DirectoryIsBounded, Recorded
    <2>2. f \in DeathNames /\ g \in DeathNames
      BY <1>1, <1>2, <2>1
    <2> QED BY <2>2 DEF DeathNames
  <1>7. f.time = name.time \/ f \in dir
    <2>1. \/ dir' = dir \cup {name}
          \/ \E a \in dir \cup {name} : dir' = (dir \cup {name}) \ {a} /\ \A b \in dir' : Before(a, b)
      BY DirectoryChanges
    <2>2. dir' \subseteq dir \cup {name}
      BY <2>1
    <2> QED BY <2>2
  <1>8. CASE g \in dir \cup {name}
    <2>1. PICK a \in dir \cup {name} : dir' = (dir \cup {name}) \ {a} /\ \A b \in dir' : Before(a, b)
      BY <1>8, DirectoryChanges
    <2>2. g = a /\ Before(g, f)
      BY <1>8, <2>1
    <2>3. Len(Digits(g.time)) = Len(Digits(f.time))
      BY <1>2, <1>4, <1>7, <1>8
    <2>4. g.time <= f.time
      BY <1>6, <2>2, <2>3, BeforeIsEarlier
    <2> QED BY <1>6, <2>4
  <1>9. CASE g \notin dir \cup {name}
    <2>1. g \in Recorded /\ g \notin dir
      BY <1>1, <1>9
    <2>2. CASE f \in dir
      BY <1>5, <2>1, <2>2
    <2>3. CASE f.time = name.time
      BY <1>4, <1>6, <2>1, <2>3
    <2> QED BY <1>7, <2>2, <2>3
  <1> QED BY <1>8, <1>9

LEMMA ForensicsInitInv == ForensicsInit => ForensicsInv
  <1> SUFFICES ASSUME ForensicsInit PROVE ForensicsInv
    OBVIOUS
  <1>1. time \in Nat /\ written = <<>> /\ dir = {}
    BY ForensicsAssumption DEF ForensicsInit
  <1>2. Recorded = {} /\ DOMAIN written = {}
    BY <1>1 DEF Recorded
  <1>3. Cardinality({}) = 0 /\ IsFiniteSet({}) /\ KEEP > 0
    BY FS_EmptySet, ForensicsAssumption
  <1>4. DirectoryIsBounded
    BY <1>1, <1>2, <1>3 DEF DirectoryIsBounded, Recorded
  <1>5. NewestIsKept
    BY <1>1 DEF NewestIsKept
  <1> QED BY <1>1, <1>2, <1>3, <1>4, <1>5 DEF ForensicsInv, DeathsAreKept

LEMMA ForensicsStep == ASSUME ForensicsInv, [ForensicsNext]_forensicsVars PROVE ForensicsInv'
  <1>1. ASSUME NEW c \in Children, Snapshot(c) PROVE ForensicsInv'
    <2> DEFINE name == [time |-> time, child |-> c]
    <2>1. /\ name \in DeathNames /\ dir' = Rotated(dir \cup {name}) /\ written' = Append(written, name)
          /\ time' = time
      BY <1>1, ForensicsAssumption DEF Snapshot, DeathNames, ForensicsInv
    <2> HIDE DEF name
    <2>2. DeathsAreKept'
      BY <2>1, DirectoryChanges, SnapshotKeepsNewest DEF DeathsAreKept
    <2>3. IsFiniteSet(Recorded') /\ written' \in Seq(DeathNames)
      BY <2>1, RecordedGrows, FS_AddElement DEF ForensicsInv
    <2> QED BY <2>1, <2>2, <2>3 DEF ForensicsInv
  <1>2. ASSUME UNCHANGED <<dir, written>>, time' \in Clock \/ UNCHANGED time PROVE ForensicsInv'
    <2>1. time' \in Nat
      BY <1>2, ForensicsAssumption DEF ForensicsInv
    <2>2. Recorded' = Recorded /\ DeathsAreKept' = DeathsAreKept
      BY <1>2 DEF Recorded, DeathsAreKept, DirectoryIsBounded, NewestIsKept
    <2> QED BY <1>2, <2>1, <2>2 DEF ForensicsInv
  <1>3. CASE Elapse
    BY <1>2, <1>3 DEF Elapse
  <1>4. CASE Reboot
    BY <1>2, <1>4 DEF Reboot
  <1>5. CASE UNCHANGED forensicsVars
    BY <1>2, <1>5 DEF forensicsVars
  <1> QED BY <1>1, <1>3, <1>4, <1>5 DEF ForensicsNext

\* For every KEEP, every clock and any number of deaths and boots: the directory has
\* the KEEP names the order leaves, and while the clock is steady the newest deaths
\* (chatd.cpp:140-184).
THEOREM ForensicsAreKept == ForensicsSpec => []DeathsAreKept
  <1>1. ForensicsInv => DeathsAreKept
    BY DEF ForensicsInv
  <1> QED BY <1>1, ForensicsInitInv, ForensicsStep, PTL DEF ForensicsSpec
=============================================================================
