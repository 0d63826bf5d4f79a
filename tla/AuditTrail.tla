------------------------------ MODULE AuditTrail ------------------------------
(***************************************************************************)
(* What the transactional audit outbox promises, with no queue, relay,      *)
(* lock or crash in it.                                                    *)
(*                                                                         *)
(* A transaction commits a set of mutations of the guarded table together   *)
(* with a set of audit events that names every subject those mutations      *)
(* touched; each such event is then recorded in the audit table, once.      *)
(* AuditOutbox is shown to implement this specification.                    *)
(***************************************************************************)
CONSTANTS
    Txns,       \* top-level transactions of the host application
    Mutations,  \* row changes [op, old, new] of the guarded table
    Events,     \* audit events, identified by their EventID
    About,      \* [Events -> [op, subject]]: what each event says happened
    Guarded     \* the operations the constraint trigger guards

VARIABLES
    ledger,     \* every committed mutation, with the transaction that made it
    owed,       \* every event a committed transaction put its name to
    recorded    \* the events that have reached the audit table

trailVars == <<ledger, owed, recorded>>

-------------------------------------------------------------------------------
\* The subjects a row change touches: a repointed row touches two.
Touched(m) == {m.old, m.new}

\* Every subject of m is named, under m's own operation, by an event of E.
Covered(m, E) ==
    \A s \in Touched(m) :
        \E e \in E : About[e].op = m.op /\ About[e].subject = s

TrailInit ==
    /\ ledger = {}
    /\ owed = {}
    /\ recorded = {}

\* Mutations and their audit events land together or not at all.
CommitAudited(t, M, E) ==
    /\ E \cap owed = {}
    /\ \A m \in M : m.op \in Guarded => Covered(m, E)
    /\ ledger' = ledger \cup {[txn |-> t, mut |-> m] : m \in M}
    /\ owed' = owed \cup E
    /\ UNCHANGED recorded

\* An owed event reaches the audit table. It is never recorded twice and no
\* record is ever withdrawn.
Record(e) ==
    /\ e \in owed \ recorded
    /\ recorded' = recorded \cup {e}
    /\ UNCHANGED <<ledger, owed>>

TrailNext ==
    \/ \E t \in Txns, M \in SUBSET Mutations, E \in SUBSET Events :
            CommitAudited(t, M, E)
    \/ \E e \in Events : Record(e)

TrailSpec == TrailInit /\ [][TrailNext]_trailVars
===============================================================================
