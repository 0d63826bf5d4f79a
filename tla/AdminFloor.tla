------------------------------ MODULE AdminFloor ------------------------------
(***************************************************************************)
(* What the platform-admin carrier promises: grants, revocations and user   *)
(* erasures happen one at a time, and none of them takes away the last      *)
(* administrator somebody can still log in as.  PlatformAdmin, with its     *)
(* row locks, advisory lock and one-lookup-at-a-time predicate, is shown    *)
(* to implement this specification.                                        *)
(***************************************************************************)
CONSTANT Users      \* principals, granted or not

VARIABLES
    carrier,        \* users with a row in the carrier table
    users           \* users that exist in the identity store

floorVars == <<carrier, users>>

\* A grant counts as an administrator only while its user exists.
Exercisable(rows, alive) == rows \cap alive

FloorInit ==
    /\ carrier \subseteq Users
    /\ users \subseteq Users
    /\ Exercisable(carrier, users) # {}

Grant(u) ==
    /\ u \notin carrier
    /\ carrier' = carrier \cup {u}
    /\ UNCHANGED users

Revoke(u) ==
    /\ u \in carrier
    /\ Exercisable(carrier \ {u}, users) # {}
    /\ carrier' = carrier \ {u}
    /\ UNCHANGED users

Erase(u) ==
    /\ Exercisable(carrier, users \ {u}) # {}
    /\ users' = users \ {u}
    /\ UNCHANGED carrier

FloorNext == \E u \in Users : Grant(u) \/ Revoke(u) \/ Erase(u)

FloorSpec == FloorInit /\ [][FloorNext]_floorVars
===============================================================================
