----------------------------- MODULE ChatdNanny -----------------------------
(* chatd implements Nanny: the refinement mapping. *)
EXTENDS Chatd

\* main has called spawn_child for the child.
Launched(c) ==
  ~Starting \/ \E i \in DOMAIN Order :
                 Order[i] = c /\ (i < idx \/ (i = idx /\ pc = "await"))

Life == [c \in Names |-> IF ~(c \in Enabled /\ Launched(c)) THEN "idle"
                         ELSE IF proc[c] = "alive" THEN "running" ELSE "dead"]

N == INSTANCE Nanny WITH life <- Life, Sacrifice <- {"llmd"}

\* Whatever fork() returns and whatever command made the daemon, the children
\* are started in table order, have one life at a time, and only a revival of
\* another may take llmd's.
KeepsOrder == N!Spec

\* As long as fork() succeeds, every enabled child gets its start and every
\* death of a child is repaired (chatd.cpp:19).
KeepsPromise == N!LiveSpec
=============================================================================
