------------------------------ MODULE MCDaemon ------------------------------
(***************************************************************************)
(* Small instances of Daemon: two control connections at a time, the signal *)
(* loop and one worker of the monitor.                                     *)
(***************************************************************************)
EXTENDS Daemon, TLC

Symmetry == Permutations(Conns)
=============================================================================
