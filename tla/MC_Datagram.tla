----------------------------- MODULE MC_Datagram -----------------------------
(* Model-checking instance of Datagram: more tasks than pool slots, so     *)
(* that binds find the pool exhausted and a slot freed by one socket is    *)
(* reused by another.                                                      *)
EXTENDS Datagram, TLC

CONSTANTS t1, t2, t3, t4

MC_Tasks3 == {t1, t2, t3}

MC_Tasks4 == {t1, t2, t3, t4}

MC_Symmetry == Permutations(Tasks)

=============================================================================
