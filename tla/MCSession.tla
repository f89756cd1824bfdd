------------------------------ MODULE MCSession ------------------------------
(* Two front ends, or one and a stop command: a takeover, its frames in    *)
(* flight on both sides, quits, kills and a shutdown in between.           *)
EXTENDS SessionSystem, TLC

Symmetry == Permutations(Clients)

=============================================================================
