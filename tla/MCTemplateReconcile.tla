------------------------- MODULE MCTemplateReconcile -------------------------
(***************************************************************************)
(* An instance of TemplateReconcile for TLC.                                *)
(***************************************************************************)
EXTENDS TemplateReconcile, TLC

CONSTANTS k1, k2, editor, owner

ModulePairs == ("modules:read" :> "modules:write")
FirstGrants == (editor :> {"modules:write"} @@ owner :> {"modules:write"})
WriterSymmetry == Permutations(Writers)
EditorGrants == (editor :> {"modules:write"})
AllOrNothing == {{}, {"modules:write"}}
TwoScopes == {{}, {"modules:read"}, {"modules:write"}}
TwoOwners == (k1 :> 1 @@ k2 :> 2)
SecondOwner == (k2 :> 2)

\* Either several pages or several writers, and three at a time of two writers, a
\* reduction and a handler: all of it at once is out of reach.
PagesOrWriters ==
    /\ \/ role[1] = NoMember
       \/ Cardinality({w \in Writers : pc[w] # "idle"}) <= 1
    /\ Cardinality({t \in Txs : pc[t] # "idle"})
          + Cardinality({h \in Handlers : asked[h] # {}}) <= 3
===============================================================================
