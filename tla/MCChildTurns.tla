-------------------------- MODULE MCChildTurns --------------------------
(***************************************************************************)
(* ChildTurns on three spawn calls, of which two may run at a time, and    *)
(* two runs: the second one restarts the turn or begins the next.          *)
(***************************************************************************)
EXTENDS ChildTurns, TLC

=============================================================================
