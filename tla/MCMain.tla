--------------------------- MODULE MCMain ---------------------------
(* Main with every order of three sessions and three keys.  *)
EXTENDS Main, TLC

\* No definition tells two keys apart.
KeySymmetry == Permutations(Keys)
===============================================================================
