------------------------------- MODULE Nanny -------------------------------
(***************************************************************************)
(* What the nanny promises (header of llm/board/chatd.cpp): children are    *)
(* brought up in the order of the table, each has one life at a time, and   *)
(* a child that died is brought back.                                       *)
(***************************************************************************)
EXTENDS Naturals, Sequences

CONSTANTS
  Order,      \* the child table in start order
  Enabled,    \* the children that are to run
  Sacrifice   \* the children whose death may accompany a revival ({"llmd"})

Names == {Order[i] : i \in DOMAIN Order}

VARIABLE life   \* of each child: "idle" before its first start, "running" or "dead"

Init == life = [c \in Names |-> "idle"]

\* The enabled children before the i-th have been started.
Turn(i) == \A j \in 1..i - 1 : Order[j] \in Enabled => life[Order[j]] # "idle"

\* The first start of a child; it may fail or the child may die at once.
Launch(i) ==
  /\ Order[i] \in Enabled /\ life[Order[i]] = "idle" /\ Turn(i)
  /\ \E l \in {"running", "dead"} : life' = [life EXCEPT ![Order[i]] = l]

Die(c) == life[c] = "running" /\ life' = [life EXCEPT ![c] = "dead"]

\* Bringing a child back may cost the life of others.
Revive(c) ==
  /\ life[c] = "dead"
  /\ \E S \in SUBSET (Sacrifice \ {c}) :
       life' = [d \in Names |-> IF d = c THEN "running"
                                ELSE IF d \in S /\ life[d] = "running" THEN "dead"
                                ELSE life[d]]

Next == \/ \E i \in DOMAIN Order : Launch(i)
        \/ \E c \in Names : Die(c) \/ Revive(c)

Spec == Init /\ [][Next]_life

\* Every child gets its start, and every death is repaired.
LiveSpec ==
  /\ Spec
  /\ \A i \in DOMAIN Order : WF_life(Launch(i))
  /\ \A c \in Names : WF_life(Revive(c))
=============================================================================
