------------------------------- MODULE MCKpud -------------------------------
(* Three kernels, one with a name infer_shape does not know; row counts at    *)
(* the borders of the tiers; room for one S4 and two S16 interpreters.        *)
EXTENDS Kpud

OneStem == {"l0_k"}
ThreeStems == {"l0_q", "l0_k", "odd"}
KOf == [s \in Stems |-> IF s = "l0_k" THEN 2 ELSE 1]
OutOf == [s \in Stems |-> IF s = "l0_q" THEN 2 ELSE 1]
Caps == [S \in Tiers |-> IF S = 1 THEN 0 ELSE IF S = 4 THEN 1 ELSE 2]
Files == <<"l0_k", "l0_q">>
OneFile == <<"l0_k">>
=============================================================================
