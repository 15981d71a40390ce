------------------------ MODULE MCMaterialLifecycle -------------------------
(* Model-checking instance of MaterialLifecycle: symmetry over the courses  *)
(* and the administrators, for the runs that check safety.                  *)
EXTENDS MaterialLifecycle, TLC

Symmetry == Permutations(Courses) \cup Permutations(Admins)
=============================================================================
