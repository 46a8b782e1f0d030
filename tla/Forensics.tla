------------------------------ MODULE Forensics ------------------------------
(***************************************************************************)
(* What chatd keeps of the deaths of its children (llm/board/chatd.cpp,       *)
(* 140-184): one file per death in a directory that outlives reboots, named   *)
(* by the wall clock, and pruned in the order of the names.  The board has no  *)
(* clock that runs without power: after a boot it starts near zero.           *)
(***************************************************************************)
EXTENDS Naturals, Sequences, FiniteSets

CONSTANTS
  KEEP,      \* files that are kept (10)
  Children,  \* their names, as numbers in the order of the strings
  Clock,     \* times the clock may show, in seconds
  Deaths,    \* bound: how many deaths
  Boots      \* bound: how often the board starts

ASSUME ForensicsAssumption ==
  /\ KEEP \in Nat \ {0} /\ Clock \subseteq Nat /\ Children \subseteq Nat
  /\ {Deaths, Boots} \subseteq Nat

VARIABLES
  time,      \* what the clock shows
  boot,      \* how often the board has started
  dir,       \* names of the files in the directory
  written    \* history: the names of all deaths, in order

forensicsVars == <<time, boot, dir, written>>

\* A name is the clock, in digits of no fixed number, and then the child.
Digits(t) ==
  LET of[n \in 0..t] == IF n < 10 THEN <<n>> ELSE Append(of[n \div 10], n % 10)
  IN  of[t]

Underscore == 10   \* behind the digits, as in ASCII

Spelt(name) == Digits(name.time) \o <<Underscore, name.child>>

\* Fault: the newest go first.
FaultBefore(a, b) ==
  a.time > b.time \/ (a.time = b.time /\ a.child > b.child)

\* std::sort: the order of the strings.
Before(a, b) ==
  LET s == Spelt(a)
      t == Spelt(b)
  IN  \E k \in 1..Len(s) :
        /\ k <= Len(t) /\ s[k] < t[k]
        /\ \A j \in 1..(k - 1) : s[j] = t[j]

\* Fault: one file more is pruned.
FaultRotated(names) ==
  IF Cardinality(names) < KEEP THEN names
  ELSE {f \in names : Cardinality({g \in names : Before(f, g)}) < KEEP - 1}

\* rotate_forensics: of more than KEEP files the first in that order go.
Rotated(names) ==
  IF Cardinality(names) <= KEEP THEN names
  ELSE {f \in names : Cardinality({g \in names : Before(f, g)}) < KEEP}

ForensicsInit ==
  /\ time \in Clock /\ boot = 1 /\ dir = {} /\ written = <<>>

\* snapshot_forensics: a second death of a child in one second, with one exit
\* code, writes over the file of the first.
Snapshot(c) ==
  LET name == [time |-> time, child |-> c]
  IN  /\ Len(written) < Deaths
      /\ dir' = Rotated(dir \cup {name})
      /\ written' = Append(written, name)
      /\ UNCHANGED <<time, boot>>

Elapse ==
  /\ time' \in {t \in Clock : t > time}
  /\ UNCHANGED <<boot, dir, written>>

\* The clock starts again, and chatd with it.
Reboot ==
  /\ boot < Boots
  /\ boot' = boot + 1
  /\ time' \in Clock
  /\ UNCHANGED <<dir, written>>

ForensicsNext == (\E c \in Children : Snapshot(c)) \/ Elapse \/ Reboot

ForensicsSpec == ForensicsInit /\ [][ForensicsNext]_forensicsVars

-----------------------------------------------------------------------------
(* Properties. *)

\* No more than KEEP files are left, never fewer than were there to keep, and all
\* of them are of deaths.
DirectoryIsBounded ==
  LET all == {written[k] : k \in DOMAIN written}
  IN  /\ dir \subseteq all
      /\ Cardinality(dir) = (IF Cardinality(all) < KEEP THEN Cardinality(all) ELSE KEEP)

\* While the clock never went back and its number of digits stayed the same, what
\* is kept are the newest: the order of the names is then the order of time.
NewestIsKept ==
  LET steady == \A j, k \in DOMAIN written : j < k =>
                  /\ written[j].time <= written[k].time
                  /\ Len(Digits(written[j].time)) = Len(Digits(written[k].time))
  IN  steady => \A f \in dir : \A k \in DOMAIN written :
        written[k] \notin dir => f.time >= written[k].time

\* The directory neither grows without end nor loses what is new (chatd.cpp:141).
DeathsAreKept == DirectoryIsBounded /\ NewestIsKept
=============================================================================
