------------------------------- MODULE MCSignIn -------------------------------
(* Two logins and two callbacks, of either, and one rotation of the keys. *)
EXTENDS SignIn, TLC

CONSTANTS a, b, e1, e2

Symmetry == Permutations(Exchanges) \cup Permutations(Logins)
===============================================================================
