------------------------------ MODULE MCThreads ------------------------------
(* The main program and two processes.                                      *)
EXTENDS Threads, TLC

CONSTANTS p1, p2
=============================================================================
