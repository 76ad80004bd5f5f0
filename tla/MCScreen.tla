------------------------------ MODULE MCScreen ------------------------------
(* One writer with con_putstr and one with con_putstr_rev, on pictures of  *)
(* two rows: a character may scroll, and three more follow.                *)
EXTENDS Screen, TLC

TwoTerminals == <<2, 3>>
Symmetric == Permutations(Printable)
=============================================================================
