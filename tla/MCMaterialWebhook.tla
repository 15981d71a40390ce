------------------------- MODULE MCMaterialWebhook --------------------------
(* Model-checking instance of MaterialWebhook: symmetry over rows, handlers *)
(* and question lists, which the specification only compares for equality.  *)
EXTENDS MaterialWebhook, TLC

Symmetry == Permutations(Courses) \cup Permutations(Handlers) \cup Permutations(Pdfs)
=============================================================================
