------------------------------ MODULE MCDaemons ------------------------------
(***************************************************************************)
(* The lock of chatd and the requests of kpud, which share nothing, checked   *)
(* for safety in one run: the subject is chosen in the initial state, and     *)
(* only its machine moves.                                                    *)
(***************************************************************************)
EXTENDS ChatdLock, MCKpud, TLC

CONSTANTS p1, p2, p3

VARIABLE subject

\* A daemon, one that stops or replaces it, and one more that starts.
Three == {p1, p2, p3}

\* The processes of the lock differ in nothing; only safety is checked.
Alike == Permutations(Three)

DaemonsInit ==
  /\ subject \in {"lock", "kpud"}
  /\ LockInit /\ Init
  /\ subject = "kpud" \/ ~cmaLow

DaemonsNext ==
  /\ UNCHANGED subject
  /\ \/ subject = "lock" /\ LockNext /\ UNCHANGED vars
     \/ subject = "kpud" /\ Next /\ UNCHANGED lockVars

DaemonsSpec == DaemonsInit /\ [][DaemonsNext]_<<subject, lockVars, vars>>
=============================================================================
