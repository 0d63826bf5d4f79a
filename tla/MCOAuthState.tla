----------------------------- MODULE MCOAuthState -----------------------------
(***************************************************************************)
(* An instance of OAuthState for TLC.                                       *)
(***************************************************************************)
EXTENDS OAuthState, TLC

Symmetry == Permutations(States) \cup Permutations(Markers)
                \cup Permutations(Purposes) \cup Permutations(Callers)
===============================================================================
