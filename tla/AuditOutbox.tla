------------------------------ MODULE AuditOutbox ------------------------------
(***************************************************************************)
(* identity/auditoutbox: the transactional audit outbox.                   *)
(*                                                                         *)
(* Host transactions change rows of a guarded table and enqueue audit       *)
(* intents in the same transaction; a deferred constraint trigger refuses   *)
(* a commit whose changes are not all covered by an intent of that same     *)
(* transaction.  Relay replicas then drain the outbox: one database         *)
(* transaction claims a batch (FOR UPDATE SKIP LOCKED), each intent is      *)
(* inserted into the destination over ANOTHER connection, and the marks     *)
(* commit at the end.  Processes die, sessions are lost and inserts fail    *)
(* at any point.                                                            *)
(***************************************************************************)
EXTENDS Naturals, FiniteSets

CONSTANTS
    Txns,           \* host transactions (each xid8 is used once)
    Subjects,       \* values of the guarded table's subject column
    Mutations,      \* the row changes [op, old, new] hosts may make
    Events,         \* event ids, numbered in (occurred_at, event_id) order
    About,          \* [Events -> [op, subject]]: what an intent says
    Guarded,        \* operations for which TriggerSpec names an action
    Poisoned,       \* events the destination refuses every time
    Relays,         \* relay replicas
    BatchSize,      \* RelayConfig.BatchSize
    MaxBatches,     \* defaultRelayMaxBatches
    MaxFaults       \* bound: crashes, lost sessions and transient errors

Ops == {"INSERT", "UPDATE", "DELETE"}

ASSUME OutboxAssumption ==
    /\ Mutations \subseteq [op : Ops, old : Subjects, new : Subjects]
    /\ \A m \in Mutations : m.op # "UPDATE" => m.old = m.new  \* one row, one subject
    /\ Events \subseteq Nat
    /\ About \in [Events -> [op : Ops, subject : Subjects]]
    /\ Guarded \subseteq Ops
    /\ Guarded # {}                          \* TriggerSpec.names
    /\ Poisoned \subseteq Events
    /\ BatchSize \in Nat \ {0}               \* RelayConfig.batchSize
    /\ MaxBatches \in Nat \ {0}
    /\ MaxFaults \in Nat

VARIABLES
    txn,        \* host transaction -> none | open | committed | aborted
    muts,       \* host transaction -> the row changes it has made
    intents,    \* host transaction -> the events it has enqueued
    outbox,     \* event -> committed outbox row: absent|pending|delivered|pruned
    tried,      \* committed outbox rows whose attempts column is above zero
    dest,       \* event -> number of destination rows with that id
    ships,      \* event -> times the external shipper accepted it
    phase,      \* relay -> off | idle | claim | deliver | prune
    session,    \* relay -> its claiming transaction is still alive in the server
    todo,       \* relay -> claimed intents not handed to the sink yet
    marked,     \* relay -> intents marked delivered in the open transaction
    failed,     \* relay -> intents with a failure recorded in it
    batches,    \* relay -> batches this cycle has begun
    faults      \* failures so far

hostVars  == <<txn, muts, intents>>
tableVars == <<outbox, tried>>
destVars  == <<dest, ships>>
relayVars == <<phase, session, todo, marked, failed, batches>>
vars == <<hostVars, tableVars, destVars, relayVars, faults>>

Phases == {"off", "idle", "claim", "deliver", "prune"}

Init ==
    /\ txn = [t \in Txns |-> "none"]
    /\ muts = [t \in Txns |-> {}]
    /\ intents = [t \in Txns |-> {}]
    /\ outbox = [e \in Events |-> "absent"]
    /\ tried = {}
    /\ dest = [e \in Events |-> 0]
    /\ ships = [e \in Events |-> 0]
    /\ phase = [r \in Relays |-> "off"]
    /\ session = [r \in Relays |-> FALSE]
    /\ todo = [r \in Relays |-> {}]
    /\ marked = [r \in Relays |-> {}]
    /\ failed = [r \in Relays |-> {}]
    /\ batches = [r \in Relays |-> 0]
    /\ faults = 0

Fault == faults < MaxFaults /\ faults' = faults + 1

-------------------------------------------------------------------------------
(* Host transactions: any handler, careful or not.                         *)

Begin(t) ==
    /\ txn[t] = "none"
    /\ txn' = [txn EXCEPT ![t] = "open"]
    /\ UNCHANGED <<muts, intents, tableVars, destVars, relayVars, faults>>

Mutate(t, m) ==
    /\ txn[t] = "open"
    /\ muts' = [muts EXCEPT ![t] = @ \cup {m}]
    /\ UNCHANGED <<txn, intents, tableVars, destVars, relayVars, faults>>

\* Outbox.Enqueue.  event_id is the primary key: an id of a committed row is
\* refused, and one in another open transaction makes this insert wait.  Ids
\* are fresh (uuid.New), so the id of a pruned row is not used again.
EnqueueOutsideTx(t, e) ==
    /\ txn[t] = "open"
    /\ outbox[e] = "absent"
    /\ intents' = [intents EXCEPT ![t] = @ \cup {e}]
    /\ outbox' = [outbox EXCEPT ![e] = "pending"]
    /\ UNCHANGED <<txn, muts, tried, destVars, relayVars, faults>>
Enqueue(t, e) ==
    /\ txn[t] = "open"
    /\ outbox[e] = "absent"
    /\ \A u \in Txns : txn[u] = "open" => e \notin intents[u]
    /\ intents' = [intents EXCEPT ![t] = @ \cup {e}]
    /\ UNCHANGED <<txn, muts, tableVars, destVars, relayVars, faults>>

\* The trigger function's branches: the subjects whose intent it looks up.
RequiredSubjectsOldOnly(m) == IF m.op = "INSERT" THEN {m.new} ELSE {m.old}
RequiredSubjects(m) ==
    CASE m.op = "INSERT" -> {m.new}
      [] m.op = "DELETE" -> {m.old}
      [] m.op = "UPDATE" -> {m.old, m.new}

\* <outbox>_assert_intent: an intent of THIS transaction for this subject and
\* action.  Its own uncommitted rows are the ones txid = pg_current_xact_id().
AssertIntentAnyTxn(t, op, s) ==
    \E u \in Txns : \E e \in intents[u] : About[e].op = op /\ About[e].subject = s
AssertIntent(t, op, s) ==
    \E e \in intents[t] : About[e].op = op /\ About[e].subject = s

\* The deferred constraint trigger at COMMIT, for every row changed.
RequireAuditIntent(t) ==
    \A m \in muts[t] :
        m.op \in Guarded =>
            \A s \in RequiredSubjects(m) : AssertIntent(t, m.op, s)

Commit(t) ==
    /\ txn[t] = "open"
    /\ RequireAuditIntent(t)
    /\ txn' = [txn EXCEPT ![t] = "committed"]
    /\ outbox' = [e \in Events |-> IF e \in intents[t] THEN "pending" ELSE outbox[e]]
    /\ UNCHANGED <<muts, intents, tried, destVars, relayVars, faults>>

\* The trigger refuses, or the handler fails, or its process dies.
Rollback(t) ==
    /\ txn[t] = "open"
    /\ txn' = [txn EXCEPT ![t] = "aborted"]
    /\ UNCHANGED <<muts, intents, tableVars, destVars, relayVars, faults>>

-------------------------------------------------------------------------------
(* Relay.                                                                  *)

\* Rows locked by a claiming transaction that is still alive.
Claimed(r) == todo[r] \cup marked[r] \cup failed[r]
Locked == UNION {Claimed(r) : r \in {q \in Relays : session[q]}}
Pending == {e \in Events : outbox[e] = "pending"}

\* ORDER BY occurred_at, event_id LIMIT n.
Oldest(S, n) == {e \in S : Cardinality({f \in S : f < e}) < n}

\* The claiming transaction is over: the sets of this batch are forgotten.
EndBatch(r) ==
    /\ session' = [session EXCEPT ![r] = FALSE]
    /\ todo' = [todo EXCEPT ![r] = {}]
    /\ marked' = [marked EXCEPT ![r] = {}]
    /\ failed' = [failed EXCEPT ![r] = {}]

\* Relay.Start (or the host restarting its process).
Start(r) ==
    /\ phase[r] = "off"
    /\ phase' = [phase EXCEPT ![r] = "idle"]
    /\ UNCHANGED <<hostVars, tableVars, destVars, session, todo, marked, failed,
                   batches, faults>>

\* The first cycle of Start, or a tick.
RunCycle(r) ==
    /\ phase[r] = "idle"
    /\ phase' = [phase EXCEPT ![r] = "claim"]
    /\ batches' = [batches EXCEPT ![r] = 0]
    /\ UNCHANGED <<hostVars, tableVars, destVars, session, todo, marked, failed, faults>>

\* The rows FOR UPDATE SKIP LOCKED can return.
ClaimableIgnoringLocks == Pending
Claimable == Pending \ Locked

\* BeginTx and Outbox.claim.  An empty claim commits at once and ends the cycle.
Claim(r) ==
    LET batch == Oldest(Claimable, BatchSize) IN
    /\ phase[r] = "claim"
    /\ batches' = [batches EXCEPT ![r] = @ + 1]
    /\ phase' = [phase EXCEPT ![r] = IF batch = {} THEN "prune" ELSE "deliver"]
    /\ session' = [session EXCEPT ![r] = batch # {}]
    /\ todo' = [todo EXCEPT ![r] = batch]
    /\ UNCHANGED <<hostVars, tableVars, destVars, marked, failed, faults>>

\* BeginTx or the claim query fails: the cycle ends.
ClaimFails(r) ==
    /\ phase[r] = "claim"
    /\ Fault
    /\ phase' = [phase EXCEPT ![r] = "prune"]
    /\ UNCHANGED <<hostVars, tableVars, destVars, session, todo, marked, failed, batches>>

\* TableSink.Deliver: INSERT ... ON CONFLICT (id) DO NOTHING, on its own
\* connection and committed at once.
InsertDestAlways(e) == dest' = [dest EXCEPT ![e] = @ + 1]
InsertDest(e) == dest' = [dest EXCEPT ![e] = IF @ = 0 THEN 1 ELSE @]

\* Relay.ship: best effort, so the shipper may have accepted the entry or not.
Ship(e) == \E ok \in {0, 1} : ships' = [ships EXCEPT ![e] = @ + ok]

\* The iteration of DeliverBatch whose sink.Deliver returned nil: ship (best
\* effort), then markDelivered.  With the session gone markDelivered fails,
\* and DeliverBatch returns its error.
DeliverOK(r) ==
    \E e \in Oldest(todo[r], 1) :
        /\ phase[r] = "deliver"
        /\ e \notin Poisoned
        /\ InsertDest(e)
        /\ Ship(e)
        /\ IF session[r]
             THEN /\ todo' = [todo EXCEPT ![r] = @ \ {e}]
                  /\ marked' = [marked EXCEPT ![r] = @ \cup {e}]
                  /\ UNCHANGED <<phase, session, failed>>
             ELSE /\ phase' = [phase EXCEPT ![r] = "prune"]
                  /\ EndBatch(r)
        /\ UNCHANGED <<hostVars, tableVars, batches, faults>>

\* Outbox.recordFailure inside the claiming transaction, then the next intent.
RecordFailureAborting(r, e) ==
    /\ phase' = [phase EXCEPT ![r] = "prune"]
    /\ EndBatch(r)
RecordFailure(r, e) ==
    /\ todo' = [todo EXCEPT ![r] = @ \ {e}]
    /\ failed' = [failed EXCEPT ![r] = @ \cup {e}]
    /\ UNCHANGED <<phase, session, marked>>

\* A failed delivery is not shipped: the loop continues before ship.
ShipAnyway(e) == Ship(e)
SkipShip(e) == UNCHANGED ships

\* The iteration whose sink.Deliver returned an error.  A poisoned event always
\* fails; any other may fail transiently, and the insert may have been
\* committed although the answer was lost.
DeliverFailed(r) ==
    \E e \in Oldest(todo[r], 1) :
        /\ phase[r] = "deliver"
        /\ \/ e \in Poisoned /\ UNCHANGED <<dest, faults>>
           \/ e \notin Poisoned /\ Fault /\ UNCHANGED dest
           \/ e \notin Poisoned /\ Fault /\ InsertDest(e)
        /\ IF session[r]
             THEN RecordFailure(r, e)
             ELSE phase' = [phase EXCEPT ![r] = "prune"] /\ EndBatch(r)
        /\ SkipShip(e)
        /\ UNCHANGED <<hostVars, tableVars, batches>>

\* RunCycle's break: a short batch, or the cap on batches.
LastBatchUncapped(r) == Cardinality(Claimed(r)) < BatchSize
LastBatch(r) == Cardinality(Claimed(r)) < BatchSize \/ batches[r] = MaxBatches

\* Rows whose attempts column this batch incremented: both markSQL and failSQL.
AttemptedDelivered(r) == marked[r]
Attempted(r) == marked[r] \cup failed[r]

\* tx.Commit of the claiming transaction, then RunCycle's decision.
CommitBatch(r) ==
    /\ phase[r] = "deliver"
    /\ session[r]
    /\ todo[r] = {}
    /\ outbox' = [e \in Events |-> IF e \in marked[r] THEN "delivered" ELSE outbox[e]]
    /\ tried' = tried \cup Attempted(r)
    /\ phase' = [phase EXCEPT ![r] = IF LastBatch(r) THEN "prune" ELSE "claim"]
    /\ EndBatch(r)
    /\ UNCHANGED <<hostVars, destVars, batches, faults>>

\* The server ended the claiming session (failover, idle timeout): its locks
\* and marks are gone while the process is still inside its batch.
LoseSession(r) ==
    /\ phase[r] = "deliver"
    /\ session[r]
    /\ Fault
    /\ session' = [session EXCEPT ![r] = FALSE]
    /\ UNCHANGED <<hostVars, tableVars, destVars, phase, todo, marked, failed, batches>>

\* Commit on a lost session is an error: nothing was marked.
CommitFails(r) ==
    /\ phase[r] = "deliver"
    /\ ~session[r]
    /\ todo[r] = {}
    /\ phase' = [phase EXCEPT ![r] = "prune"]
    /\ EndBatch(r)
    /\ UNCHANGED <<hostVars, tableVars, destVars, batches, faults>>

\* PruneDelivered.  Which delivered rows are past retention is left open (it
\* is the operator's RetainDelivered; negative prunes nothing).
PrunableByAge == {e \in Events : outbox[e] \in {"pending", "delivered"}}
Prunable == {e \in Events : outbox[e] = "delivered"}
PruneLimit == BatchSize * MaxBatches
Prune(r) ==
    /\ phase[r] = "prune"
    /\ \E old \in SUBSET Prunable :
        /\ Cardinality(old) <= PruneLimit
        /\ outbox' = [e \in Events |-> IF e \in old THEN "pruned" ELSE outbox[e]]
    /\ phase' = [phase EXCEPT ![r] = "idle"]
    /\ UNCHANGED <<hostVars, tried, destVars, session, todo, marked, failed,
                   batches, faults>>

\* Stop, or the host's context ending: the loop exits between cycles.
Stop(r) ==
    /\ phase[r] = "idle"
    /\ Fault
    /\ phase' = [phase EXCEPT ![r] = "off"]
    /\ UNCHANGED <<hostVars, tableVars, destVars, session, todo, marked, failed, batches>>

\* The process dies, or a panic is swallowed by safeloop.Guard: the deferred
\* Rollback (or the server) discards the open transaction.
Crash(r) ==
    /\ phase[r] \in {"claim", "deliver", "prune"}
    /\ Fault
    /\ \E p \in {"off", "idle"} : phase' = [phase EXCEPT ![r] = p]
    /\ EndBatch(r)
    /\ UNCHANGED <<hostVars, tableVars, destVars, batches>>

-------------------------------------------------------------------------------
HostNext(t) ==
    \/ Begin(t)
    \/ \E m \in Mutations : Mutate(t, m)
    \/ \E e \in Events : Enqueue(t, e)
    \/ Commit(t)
    \/ Rollback(t)

RelayStep(r) ==
    \/ Start(r)
    \/ RunCycle(r)
    \/ Claim(r)
    \/ DeliverOK(r)
    \/ DeliverFailed(r)
    \/ CommitBatch(r)
    \/ CommitFails(r)
    \/ Prune(r)

RelayFault(r) == ClaimFails(r) \/ LoseSession(r) \/ Stop(r) \/ Crash(r)

Next ==
    \/ \E t \in Txns : HostNext(t)
    \/ \E r \in Relays : RelayStep(r) \/ RelayFault(r)

Spec == Init /\ [][Next]_vars

\* A relay that is running keeps running: the ticker fires again and again and
\* a supervised host restarts.  Hosts owe nothing.
FairSpec == Spec /\ \A r \in Relays : WF_vars(RelayStep(r))

-------------------------------------------------------------------------------
(* Properties.                                                             *)

\* Every variable has its type, and a cycle never runs more than MaxBatches.
TypeOK ==
    /\ txn \in [Txns -> {"none", "open", "committed", "aborted"}]
    /\ muts \in [Txns -> SUBSET Mutations]
    /\ intents \in [Txns -> SUBSET Events]
    /\ outbox \in [Events -> {"absent", "pending", "delivered", "pruned"}]
    /\ tried \in SUBSET Events
    /\ dest \in [Events -> Nat]
    /\ ships \in [Events -> Nat]
    /\ phase \in [Relays -> Phases]
    /\ session \in [Relays -> BOOLEAN]
    /\ todo \in [Relays -> SUBSET Events]
    /\ marked \in [Relays -> SUBSET Events]
    /\ failed \in [Relays -> SUBSET Events]
    /\ batches \in [Relays -> 0 .. MaxBatches]
    /\ faults \in 0 .. MaxFaults

\* The event is still in the outbox's backlog or already in the audit table.
Accounted(e) == outbox[e] = "pending" \/ dest[e] = 1

\* Every committed change of a guarded row has, for each subject it touched, an
\* intent of that very transaction that is in the backlog or in the audit
\* table, whatever crashed since and whatever was pruned (the trigger of
\* TriggerSpec.DDL together with the relay's crash contract).
NoUnauditedMutation ==
    \A t \in Txns : txn[t] = "committed" =>
        \A m \in muts[t] : m.op \in Guarded =>
            \A s \in {m.old, m.new} :
                \E e \in intents[t] :
                    /\ About[e].op = m.op
                    /\ About[e].subject = s
                    /\ Accounted(e)

\* An audit record exists only for an intent whose transaction committed: the
\* relay never delivers what a rolled-back handler enqueued.
NoPhantomRecord ==
    \A e \in Events : dest[e] # 0 =>
        \E t \in Txns : txn[t] = "committed" /\ e \in intents[t]

\* Redelivery after a crash, and a replica that kept delivering on a lost
\* session, leave one row per event (TableSink.Deliver's ON CONFLICT).
ExactlyOneRecord ==
    \A e \in Events :
        /\ dest[e] <= 1
        /\ outbox[e] \in {"delivered", "pruned"} => dest[e] = 1

\* The shipper only ever sees an event that is already durable
\* (relay.go: shipping is "deliberately after the durable write").
ShippedIsDurable == \A e \in Events : ships[e] # 0 => dest[e] # 0

\* An external system sees an event twice only if something failed in between:
\* SKIP LOCKED keeps two healthy replicas off each other's intents.
DuplicateShipNeedsFault == \A e \in Events : ships[e] <= 1 + faults

\* An undelivered row never leaves the outbox except by being marked delivered
\* (PruneDelivered: "ONLY DELIVERED ROWS"), and no audit row disappears.
BacklogNeverDropped ==
    [][\A e \in Events :
        /\ outbox[e] = "pending" => outbox'[e] \in {"pending", "delivered"}
        /\ dest[e] <= dest'[e]]_vars

\* The outbox keeps the promise of AuditTrail.
Trail == INSTANCE AuditTrail WITH
    ledger <- {c \in [txn : Txns, mut : Mutations] :
                  txn[c.txn] = "committed" /\ c.mut \in muts[c.txn]},
    owed <- {e \in Events : outbox[e] # "absent"},
    recorded <- {e \in Events : dest[e] # 0}
TrailRefined == Trail!TrailSpec

\* The claim takes the oldest pending rows, whatever became of them before: the
\* poisoned rows ahead of e, and whether they fill every batch.
PoisonedAhead(e) == {d \in Poisoned : d < e}
Blockable(e) == Cardinality(PoisonedAhead(e)) >= BatchSize

\* Every committed intent the destination can accept reaches it, as long as
\* fewer poisoned events than one batch holds are ahead of it.
EventuallyRecorded ==
    \A e \in Events \ Poisoned :
        ~Blockable(e) => (outbox[e] = "pending" ~> dest[e] = 1)

\* Outbox.Backlog: how much is undelivered, and how much of it has failed.
Backlog == [pending |-> Cardinality(Pending),
            failed  |-> Cardinality(Pending \cap tried)]

\* Nothing is stuck out of sight. Whatever is committed to the outbox is recorded,
\* or it shows as failed in the backlog itself, or, claimed by nobody and looking
\* freshly written, it waits behind a whole batch of older events that the
\* destination refuses for good and that do show as failed (Backlog.Failed).
StuckIsVisible ==
    \A e \in Events : outbox[e] = "pending" ~>
        \/ dest[e] = 1
        \/ e \in tried
        \/ /\ Cardinality(PoisonedAhead(e) \cap Pending \cap tried) >= BatchSize
           /\ Backlog.failed >= BatchSize

-------------------------------------------------------------------------------
(* The inductive invariant behind the theorems of AuditOutboxProofs.       *)

\* What the trigger saw at commit still holds: both sides are frozen then.
TriggerHeld == \A t \in Txns : txn[t] = "committed" => RequireAuditIntent(t)

\* A committed row exists, or existed, exactly for what committed
\* transactions enqueued.
RowsAreCommitted ==
    \A e \in Events :
        outbox[e] # "absent" <=> \E t \in Txns : txn[t] = "committed" /\ e \in intents[t]

\* The primary key: an id in an open transaction is nobody else's.
OpenIdsAreFresh ==
    \A t \in Txns :
        /\ txn[t] = "none" => intents[t] = {}
        /\ txn[t] = "open" =>
            \A e \in intents[t] :
                /\ outbox[e] = "absent"
                /\ \A u \in Txns : txn[u] = "open" /\ e \in intents[u] => u = t

\* Destination rows are of committed intents.
RecordsAreCommitted == \A e \in Events : dest[e] # 0 => outbox[e] # "absent"

\* Whatever a relay has marked, committed or not, is already durable, and it
\* holds nothing outside a batch.
BatchShape ==
    \A r \in Relays :
        /\ marked[r] \subseteq {e \in Events : dest[e] = 1}
        /\ todo[r] \subseteq {e \in Events : outbox[e] # "absent"}
        /\ phase[r] # "deliver" => ~session[r] /\ Claimed(r) = {}
        /\ phase[r] = "claim" => batches[r] < MaxBatches

\* Row locks: live claims are pending rows, and no two share one.
LiveClaims ==
    \A r \in Relays : session[r] =>
        \A e \in Claimed(r) :
            /\ outbox[e] = "pending"
            /\ \A q \in Relays : session[q] /\ e \in Claimed(q) => q = r

IInv ==
    /\ TypeOK
    /\ TriggerHeld
    /\ RowsAreCommitted
    /\ OpenIdsAreFresh
    /\ RecordsAreCommitted
    /\ BatchShape
    /\ LiveClaims
    /\ ExactlyOneRecord
    /\ ShippedIsDurable

\* Relays that go on delivering e although their session is gone.
Orphaned(e) == {r \in Relays : ~session[r] /\ e \in todo[r]}

\* e is marked, for good or in a claiming transaction that is still alive: as
\* long as it stays so, nobody claims it.
Settled(e) ==
    \/ outbox[e] \in {"delivered", "pruned"}
    \/ \E r \in Relays : session[r] /\ e \in marked[r]

\* Every shipment an event has had, or may still get from an orphaned batch, is
\* paid for by a fault of its own, except the one that its mark stands for.
ShipsArePaid ==
    /\ \A r \in Relays : todo[r] \cap marked[r] = {}
    /\ \A e \in Events :
        /\ IsFiniteSet(Orphaned(e))
        /\ ships[e] + Cardinality(Orphaned(e)) <= faults + (IF Settled(e) THEN 1 ELSE 0)

\* A claiming transaction never locks more than a batch: the three sets of a
\* relay partition what it claimed (RelayConfig.BatchSize).
BatchesAreBounded ==
    \A r \in Relays :
        IsFiniteSet(Claimed(r)) /\ Cardinality(Claimed(r)) <= BatchSize

\* A claim passes nothing over: it is empty only if every pending row is locked
\* by a live replica, and it never takes a row and leaves an older free one
\* (claimSQL: ORDER BY occurred_at, event_id LIMIT n FOR UPDATE SKIP LOCKED).
ClaimsPassNothingOver ==
    [][\A r \in Relays : Claim(r) =>
        /\ Claimable # {} => todo'[r] # {} /\ session'[r]
        /\ \A e \in todo'[r], d \in Claimable : d < e => d \in todo'[r]]_vars
===============================================================================
