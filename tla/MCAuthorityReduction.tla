------------------------- MODULE MCAuthorityReduction -------------------------
(***************************************************************************)
(* An instance of AuthorityReduction for TLC: a reader's and a writer's     *)
(* template, keys in two organizations and a service key.                   *)
(***************************************************************************)
EXTENDS AuthorityReduction, TLC

CONSTANTS o1, o2, k1, k2, k3, viewer, editor

ModulePairs == ("modules:read" :> "modules:write")
TemplateGrants == (viewer :> {"modules:read"} @@ editor :> {"modules:write"})
FrozenScopes == {{"modules:read"}, {"modules:write"}}
ReducerSymmetry == Permutations(Reducers)
KeyHome == (k1 :> o1 @@ k2 :> o2 @@ k3 :> o1)
===============================================================================
