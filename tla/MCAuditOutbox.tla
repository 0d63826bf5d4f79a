----------------------------- MODULE MCAuditOutbox -----------------------------
(***************************************************************************)
(* Instances of AuditOutbox for TLC.                                       *)
(*                                                                         *)
(* Trigger instance: two transactions, a repointing update and a delete,   *)
(* one event for each (operation, subject) pair they need.                 *)
(* Relay instance: one mutation, four events, two replicas.                 *)
(***************************************************************************)
EXTENDS AuditOutbox, TLC

CONSTANTS s1, s2

Ins(s)     == [op |-> "INSERT", old |-> s, new |-> s]
Del(s)     == [op |-> "DELETE", old |-> s, new |-> s]
Upd(s, s0) == [op |-> "UPDATE", old |-> s, new |-> s0]
Says(o, s) == [op |-> o, subject |-> s]

TriggerMutations == {Upd(s1, s2), Del(s2)}
TriggerAbout ==
    [e \in {1, 2, 3} |->
        CASE e = 1 -> Says("UPDATE", s1)
          [] e = 2 -> Says("UPDATE", s2)
          [] e = 3 -> Says("DELETE", s2)]
TxnSymmetry == Permutations(Txns)

RelayMutations == {Ins(s1)}
RelayAbout == [e \in {1, 2, 3, 4} |-> Says("INSERT", s1)]
===============================================================================
