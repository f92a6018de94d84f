----------------------------- MODULE MCDashboard -----------------------------
(* Dashboard with interchangeable tasks and fetches. *)
EXTENDS Dashboard, TLC

Symmetry == Permutations(Tasks) \cup Permutations(Fetches)
=============================================================================
