-------------------------------- MODULE Scopes --------------------------------
(***************************************************************************)
(* identity/auth/scopes.go: what a set of granted scopes covers.            *)
(***************************************************************************)
CONSTANT
    Pairs           \* ReadWritePairs: the write scope that implies a read scope

ScopeAdmin == "admin"

\* HasScope: the scope itself, the admin wildcard, or the paired write scope.
HasScope(granted, required) ==
    /\ required # ""
    /\ \/ required \in granted
       \/ ScopeAdmin \in granted
       \/ required \in DOMAIN Pairs /\ Pairs[required] \in granted

\* AuthorityRetained: a credential asks for no more than is held.
AuthorityRetained(have, retained) == \A s \in have : HasScope(retained, s)

\* RoleScopesPermittedBy: what a caller may assign, the ceiling on granting.
RoleScopesPermittedBy(caller, role) ==
    \/ role = {}
    \/ HasScope(caller, ScopeAdmin)
    \/ ScopeAdmin \notin role /\ \A s \in role : HasScope(caller, s)

\* A table that pairs read scopes with write scopes and does nothing else: no
\* write scope is read through another, and the wildcard is nobody's read.
PairsAreFlat ==
    /\ ScopeAdmin \notin DOMAIN Pairs
    /\ \A s \in DOMAIN Pairs : Pairs[s] \notin DOMAIN Pairs
===============================================================================
