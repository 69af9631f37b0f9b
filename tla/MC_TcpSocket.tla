---------------------------- MODULE MC_TcpSocket ----------------------------
(* TcpSocket instantiated for TLC: tasks are model values given in the cfg.*)
EXTENDS TcpSocket, TLC

CONSTANTS t1, t2, t3

MC_Tasks3 == {t1, t2, t3}
MC_Tasks1 == {t1}

(* The tasks run the same code, so permuting them is a symmetry.           *)
MC_Symmetry == Permutations(Tasks)

=============================================================================
