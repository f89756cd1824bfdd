------------------------------ MODULE MCBinding ------------------------------
(* Few panes, processes and sessions; the two sessions of Codex are alike.   *)
EXTENDS AgentBinding, FiniteSets, TLC

CONSTANTS x1, x2, y1

Symmetry == Permutations({x1, x2})

(* Bound: hooks under way at a time; two can overtake one another.          *)
FewHooks == Cardinality(hooks) <= 2

(* The pane has been saved before, so it is never a new one.                *)
SavedInit == Init /\ rows = Panes
SavedSpec == SavedInit /\ [][Next]_vars /\ Fairness

=============================================================================
