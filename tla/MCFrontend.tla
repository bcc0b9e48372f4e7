----------------------------- MODULE MCFrontend -----------------------------
(* Frontend and Config with outputs enough for a script's and the          *)
(* frontend's to overlap and for each to be replaced, and with one setting *)
(* that the dialog's combo box has and one that it has not.                *)
EXTENDS Config, TLC

OutputSymmetry == Permutations(Outputs)
=============================================================================
