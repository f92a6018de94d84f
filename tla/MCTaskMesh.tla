----------------------------- MODULE MCTaskMesh -----------------------------
(* TaskMesh on small sets of interchangeable workers, scans and requests. *)
EXTENDS TaskMesh, TLC

Symmetry == Permutations(Workers) \cup Permutations(Scanners)
              \cup Permutations(Clients)
=============================================================================
