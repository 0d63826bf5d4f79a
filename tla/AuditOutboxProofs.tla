--------------------------- MODULE AuditOutboxProofs ---------------------------
(***************************************************************************)
(* Proofs about AuditOutbox, for every number of transactions, events,      *)
(* replicas and faults.                                                    *)
(***************************************************************************)
EXTENDS AuditOutbox, FiniteSetTheorems, WellFoundedInduction, TLAPS

\* The initial state, in which nothing has been written, satisfies IInv.
LEMMA InitEstablishes == Init => IInv
  BY OutboxAssumption
  DEF Init, IInv, TypeOK, TriggerHeld, RowsAreCommitted, OpenIdsAreFresh, RecordsAreCommitted,
      BatchShape, LiveClaims, ExactlyOneRecord, ShippedIsDurable, Claimed, Phases

\* The steps of host transactions (Begin, writes, Enqueue, COMMIT with its
\* deferred trigger, rollback) preserve IInv.
LEMMA HostPreserves ==
    ASSUME IInv, NEW t \in Txns, HostNext(t)
    PROVE  IInv'
<1> USE OutboxAssumption DEF IInv, hostVars, tableVars, destVars, relayVars
<1>1. CASE Begin(t)
  BY <1>1 DEF Begin, TypeOK, TriggerHeld, RequireAuditIntent, AssertIntent, RowsAreCommitted,
      OpenIdsAreFresh, RecordsAreCommitted, BatchShape, LiveClaims, ExactlyOneRecord,
      ShippedIsDurable, Claimed
<1>2. ASSUME NEW m \in Mutations, Mutate(t, m) PROVE IInv'
  BY <1>2 DEF Mutate, TypeOK, TriggerHeld, RequireAuditIntent, AssertIntent, RowsAreCommitted,
      OpenIdsAreFresh, RecordsAreCommitted, BatchShape, LiveClaims, ExactlyOneRecord,
      ShippedIsDurable, Claimed
<1>3. ASSUME NEW e \in Events, Enqueue(t, e) PROVE IInv'
  BY <1>3 DEF Enqueue, TypeOK, TriggerHeld, RequireAuditIntent, AssertIntent, RowsAreCommitted,
      OpenIdsAreFresh, RecordsAreCommitted, BatchShape, LiveClaims, ExactlyOneRecord,
      ShippedIsDurable, Claimed
<1>4. CASE Commit(t)
  BY <1>4 DEF Commit, TypeOK, TriggerHeld, RequireAuditIntent, AssertIntent, RowsAreCommitted,
      OpenIdsAreFresh, RecordsAreCommitted, BatchShape, LiveClaims, ExactlyOneRecord,
      ShippedIsDurable, Claimed
<1>5. CASE Rollback(t)
  BY <1>5 DEF Rollback, TypeOK, TriggerHeld, RequireAuditIntent, AssertIntent, RowsAreCommitted,
      OpenIdsAreFresh, RecordsAreCommitted, BatchShape, LiveClaims, ExactlyOneRecord,
      ShippedIsDurable, Claimed
<1> QED BY <1>1, <1>2, <1>3, <1>4, <1>5 DEF HostNext

\* A relay that ends its batch holds nothing.
LEMMA EndBatchClears ==
    ASSUME TypeOK, NEW r \in Relays, EndBatch(r)
    PROVE  /\ session' = [session EXCEPT ![r] = FALSE]
           /\ session' \in [Relays -> BOOLEAN]
           /\ todo' \in [Relays -> SUBSET Events]
           /\ marked' \in [Relays -> SUBSET Events]
           /\ failed' \in [Relays -> SUBSET Events]
           /\ Claimed(r)' = {} /\ todo'[r] = {} /\ marked'[r] = {} /\ ~session'[r]
           /\ \A q \in Relays \ {r} :
                /\ session'[q] = session[q]
                /\ todo'[q] = todo[q] /\ marked'[q] = marked[q] /\ failed'[q] = failed[q]
                /\ Claimed(q)' = Claimed(q)
  BY DEF EndBatch, TypeOK, Claimed

\* A successful sink insert, with or without a live session, preserves IInv.
LEMMA DeliverOKPreserves ==
    ASSUME IInv, NEW r \in Relays, DeliverOK(r)
    PROVE  IInv'
<1> USE DEF hostVars, tableVars, destVars, relayVars
<1>t. TypeOK BY DEF IInv
<1>s. BatchShape BY DEF IInv
<1>x. ExactlyOneRecord BY DEF IInv
<1>l. LiveClaims BY DEF IInv
<1>d. ShippedIsDurable BY DEF IInv
<1>h. TriggerHeld /\ RowsAreCommitted /\ OpenIdsAreFresh /\ RecordsAreCommitted BY DEF IInv
<1>0. PICK e \in Oldest(todo[r], 1) :
        /\ phase[r] = "deliver"
        /\ InsertDest(e)
        /\ Ship(e)
        /\ \/ /\ session[r]
              /\ todo' = [todo EXCEPT ![r] = @ \ {e}]
              /\ marked' = [marked EXCEPT ![r] = @ \cup {e}]
              /\ UNCHANGED <<phase, session, failed>>
           \/ /\ ~session[r]
              /\ phase' = [phase EXCEPT ![r] = "prune"]
              /\ EndBatch(r)
        /\ UNCHANGED <<hostVars, tableVars, batches, faults>>
  BY DEF DeliverOK
<1>a. e \in todo[r] /\ e \in Events
  BY <1>0, <1>t DEF Oldest, TypeOK
<1>b. /\ dest' \in [Events -> Nat]
      /\ dest'[e] # 0
      /\ \A f \in Events : dest'[f] = dest[f] \/ (f = e /\ dest[e] = 0 /\ dest'[f] = 1)
  BY <1>0, <1>a, <1>t DEF InsertDest, TypeOK
<1>c. ships' \in [Events -> Nat] /\ \A f \in Events \ {e} : ships'[f] = ships[f]
  BY <1>0, <1>a, <1>t DEF Ship, TypeOK
<1>1. TypeOK'
  <2>1. CASE session[r]
    BY <2>1, <1>0, <1>a, <1>b, <1>c, <1>t DEF TypeOK
  <2>2. CASE ~session[r]
    BY <2>2, <1>0, <1>a, <1>b, <1>c, EndBatchClears, <1>t DEF TypeOK, Phases
  <2> QED BY <2>1, <2>2
<1>2. TriggerHeld' /\ RowsAreCommitted' /\ OpenIdsAreFresh' /\ RecordsAreCommitted'
  BY <1>0, <1>a, <1>b, <1>t, <1>s, <1>h DEF TypeOK, TriggerHeld, RequireAuditIntent, AssertIntent,
      RowsAreCommitted, OpenIdsAreFresh, RecordsAreCommitted, BatchShape
<1>3. BatchShape'
  <2> SUFFICES ASSUME NEW q \in Relays
               PROVE  /\ marked'[q] \subseteq {f \in Events : dest'[f] = 1}
                      /\ todo'[q] \subseteq {f \in Events : outbox'[f] # "absent"}
                      /\ phase'[q] # "deliver" => ~session'[q] /\ Claimed(q)' = {}
                      /\ phase'[q] = "claim" => batches'[q] < MaxBatches
    BY <1>s DEF BatchShape
  <2>q. /\ marked[q] \subseteq {f \in Events : dest[f] = 1}
        /\ todo[q] \subseteq {f \in Events : outbox[f] # "absent"}
        /\ phase[q] # "deliver" => ~session[q] /\ Claimed(q) = {}
        /\ phase[q] = "claim" => batches[q] < MaxBatches
    BY <1>s DEF BatchShape
  <2>f. \A f \in Events : dest[f] = 1 => dest'[f] = 1
    BY <1>b, <1>t DEF TypeOK
  <2>e. dest'[e] = 1
    BY <1>a, <1>b, <1>t, <1>x DEF ExactlyOneRecord, TypeOK
  <2>1. CASE session[r]
    BY <2>1, <2>f, <2>e, <2>q, <1>0, <1>a, <1>t DEF TypeOK, Claimed
  <2>2. CASE ~session[r]
    BY <2>2, <2>f, <2>q, <1>0, EndBatchClears, <1>t DEF TypeOK
  <2> QED BY <2>1, <2>2
<1>4. LiveClaims'
  <2>1. CASE session[r]
    <3>1. \A q \in Relays : Claimed(q)' = Claimed(q) /\ session'[q] = session[q]
      BY <2>1, <1>0, <1>a, <1>t DEF TypeOK, Claimed
    <3> QED BY <3>1, <1>0, <1>l DEF LiveClaims
  <2>2. CASE ~session[r]
    BY <2>2, <1>0, EndBatchClears, <1>l, <1>t DEF LiveClaims
  <2> QED BY <2>1, <2>2
<1>5. ExactlyOneRecord' /\ ShippedIsDurable'
  BY <1>0, <1>a, <1>b, <1>c, <1>t, <1>x, <1>d DEF TypeOK, ExactlyOneRecord, ShippedIsDurable
<1> QED BY <1>1, <1>2, <1>3, <1>4, <1>5 DEF IInv

\* A failed sink insert preserves IInv.
LEMMA DeliverFailedPreserves ==
    ASSUME IInv, NEW r \in Relays, DeliverFailed(r)
    PROVE  IInv'
<1> USE DEF hostVars, tableVars, destVars, relayVars
<1>t. TypeOK BY DEF IInv
<1>s. BatchShape BY DEF IInv
<1>x. ExactlyOneRecord BY DEF IInv
<1>l. LiveClaims BY DEF IInv
<1>d. ShippedIsDurable BY DEF IInv
<1>h. TriggerHeld /\ RowsAreCommitted /\ OpenIdsAreFresh /\ RecordsAreCommitted BY DEF IInv
<1>0. PICK e \in Oldest(todo[r], 1) :
        /\ phase[r] = "deliver"
        /\ InsertDest(e) \/ UNCHANGED dest
        /\ ships' = ships
        /\ faults' = faults \/ Fault
        /\ \/ /\ session[r]
              /\ todo' = [todo EXCEPT ![r] = @ \ {e}]
              /\ failed' = [failed EXCEPT ![r] = @ \cup {e}]
              /\ UNCHANGED <<phase, session, marked>>
           \/ /\ ~session[r]
              /\ phase' = [phase EXCEPT ![r] = "prune"]
              /\ EndBatch(r)
        /\ UNCHANGED <<hostVars, tableVars, batches>>
  BY DEF DeliverFailed, RecordFailure, SkipShip
<1>a. e \in todo[r] /\ e \in Events
  BY <1>0, <1>t DEF Oldest, TypeOK
<1>b. /\ dest' \in [Events -> Nat]
      /\ \A f \in Events : dest'[f] = dest[f] \/ (f = e /\ dest[e] = 0 /\ dest'[f] = 1)
  BY <1>0, <1>a, <1>t DEF InsertDest, TypeOK
<1>c. faults' \in 0 .. MaxFaults
  BY OutboxAssumption, <1>0, <1>t DEF Fault, TypeOK
<1>1. TypeOK'
  <2>1. CASE session[r]
    BY <2>1, <1>0, <1>a, <1>b, <1>c, <1>t DEF TypeOK
  <2>2. CASE ~session[r]
    BY <2>2, <1>0, <1>a, <1>b, <1>c, EndBatchClears, <1>t DEF TypeOK, Phases
  <2> QED BY <2>1, <2>2
<1>2. TriggerHeld' /\ RowsAreCommitted' /\ OpenIdsAreFresh' /\ RecordsAreCommitted'
  BY <1>0, <1>a, <1>b, <1>t, <1>s, <1>h DEF TypeOK, TriggerHeld, RequireAuditIntent, AssertIntent,
      RowsAreCommitted, OpenIdsAreFresh, RecordsAreCommitted, BatchShape
<1>3. BatchShape'
  <2> SUFFICES ASSUME NEW q \in Relays
               PROVE  /\ marked'[q] \subseteq {f \in Events : dest'[f] = 1}
                      /\ todo'[q] \subseteq {f \in Events : outbox'[f] # "absent"}
                      /\ phase'[q] # "deliver" => ~session'[q] /\ Claimed(q)' = {}
                      /\ phase'[q] = "claim" => batches'[q] < MaxBatches
    BY <1>s DEF BatchShape
  <2>q. /\ marked[q] \subseteq {f \in Events : dest[f] = 1}
        /\ todo[q] \subseteq {f \in Events : outbox[f] # "absent"}
        /\ phase[q] # "deliver" => ~session[q] /\ Claimed(q) = {}
        /\ phase[q] = "claim" => batches[q] < MaxBatches
    BY <1>s DEF BatchShape
  <2>f. \A f \in Events : dest[f] = 1 => dest'[f] = 1
    BY <1>b, <1>t DEF TypeOK
  <2>1. CASE session[r]
    BY <2>1, <2>f, <2>q, <1>0, <1>a, <1>t DEF TypeOK, Claimed
  <2>2. CASE ~session[r]
    BY <2>2, <2>f, <2>q, <1>0, EndBatchClears, <1>t DEF TypeOK
  <2> QED BY <2>1, <2>2
<1>4. LiveClaims'
  <2>1. CASE session[r]
    <3>1. \A q \in Relays : Claimed(q)' = Claimed(q) /\ session'[q] = session[q]
      BY <2>1, <1>0, <1>a, <1>t DEF TypeOK, Claimed
    <3> QED BY <3>1, <1>0, <1>l DEF LiveClaims
  <2>2. CASE ~session[r]
    BY <2>2, <1>0, EndBatchClears, <1>l, <1>t DEF LiveClaims
  <2> QED BY <2>1, <2>2
<1>5. ExactlyOneRecord' /\ ShippedIsDurable'
  BY <1>0, <1>a, <1>b, <1>t, <1>x, <1>d DEF TypeOK, ExactlyOneRecord, ShippedIsDurable
<1> QED BY <1>1, <1>2, <1>3, <1>4, <1>5 DEF IInv

\* Committing a batch preserves IInv: every mark it makes visible is durable.
LEMMA CommitBatchPreserves ==
    ASSUME IInv, NEW r \in Relays, CommitBatch(r)
    PROVE  IInv'
<1> USE DEF hostVars, tableVars, destVars, relayVars
<1>t. TypeOK BY DEF IInv
<1>s. BatchShape BY DEF IInv
<1>x. ExactlyOneRecord BY DEF IInv
<1>l. LiveClaims BY DEF IInv
<1>d. ShippedIsDurable BY DEF IInv
<1>h. TriggerHeld /\ RowsAreCommitted /\ OpenIdsAreFresh /\ RecordsAreCommitted BY DEF IInv
<1>1. TypeOK'
  BY <1>t, <1>s DEF CommitBatch, EndBatch, Attempted, LastBatch, TypeOK, Phases, BatchShape
<1>2. TriggerHeld' /\ RowsAreCommitted' /\ OpenIdsAreFresh' /\ RecordsAreCommitted'
  BY <1>t, <1>s, <1>l, <1>h DEF CommitBatch, EndBatch, Attempted, LastBatch, TypeOK, TriggerHeld, RequireAuditIntent, AssertIntent,
      RowsAreCommitted, OpenIdsAreFresh, RecordsAreCommitted, BatchShape, LiveClaims, Claimed
<1>3. BatchShape'
  <2> SUFFICES ASSUME NEW q \in Relays
               PROVE  /\ marked'[q] \subseteq {f \in Events : dest'[f] = 1}
                      /\ todo'[q] \subseteq {f \in Events : outbox'[f] # "absent"}
                      /\ phase'[q] # "deliver" => ~session'[q] /\ Claimed(q)' = {}
                      /\ phase'[q] = "claim" => batches'[q] < MaxBatches
    BY <1>s DEF BatchShape
  <2>q. /\ marked[q] \subseteq {f \in Events : dest[f] = 1}
        /\ todo[q] \subseteq {f \in Events : outbox[f] # "absent"}
        /\ phase[q] # "deliver" => ~session[q] /\ Claimed(q) = {}
        /\ phase[q] = "claim" => batches[q] < MaxBatches
    BY <1>s DEF BatchShape
  <2>1. \/ phase' = [phase EXCEPT ![r] = "prune"]
        \/ phase' = [phase EXCEPT ![r] = "claim"] /\ batches[r] # MaxBatches
    <3>1. CASE LastBatch(r)
      BY <3>1 DEF CommitBatch
    <3>2. CASE ~LastBatch(r)
      <4>1. batches[r] # MaxBatches
        BY <3>2 DEF LastBatch
      <4> QED BY <3>2, <4>1 DEF CommitBatch
    <3> QED BY <3>1, <3>2
  <2>2. \A f \in Events : outbox[f] # "absent" => outbox'[f] # "absent"
    BY DEF CommitBatch
  <2>3. EndBatch(r) /\ UNCHANGED <<dest, batches>>
    BY DEF CommitBatch
  <2>4. CASE q = r
    <3>1. batches[r] \in 0 .. MaxBatches /\ batches'[r] = batches[r] /\ r \in DOMAIN phase
      BY <2>3, <1>t DEF TypeOK
    <3>2. phase'[r] \in {"prune", "claim"} /\ (phase'[r] = "claim" => batches[r] # MaxBatches)
      BY <2>1, <3>1
    <3>3. Claimed(r)' = {} /\ todo'[r] = {} /\ marked'[r] = {} /\ ~session'[r]
      BY <2>3, <1>t, EndBatchClears
    <3> QED BY OutboxAssumption, <2>4, <3>1, <3>2, <3>3
  <2>5. CASE q # r
    <3>1. /\ phase'[q] = phase[q] /\ batches'[q] = batches[q] /\ session'[q] = session[q]
          /\ todo'[q] = todo[q] /\ marked'[q] = marked[q] /\ Claimed(q)' = Claimed(q)
      BY <2>1, <2>3, <2>5, <1>t, EndBatchClears DEF TypeOK
    <3> QED BY <2>2, <2>3, <2>q, <3>1
  <2> QED BY <2>4, <2>5
<1>4. LiveClaims'
  BY <1>t, <1>s, <1>l DEF CommitBatch, EndBatch, Attempted, LastBatch, TypeOK, LiveClaims, BatchShape, Claimed
<1>5. ExactlyOneRecord' /\ ShippedIsDurable'
  BY <1>t, <1>s, <1>x, <1>d DEF CommitBatch, EndBatch, Attempted, LastBatch, TypeOK, BatchShape, ExactlyOneRecord, ShippedIsDurable, Claimed
<1> QED BY <1>1, <1>2, <1>3, <1>4, <1>5 DEF IInv

\* The steps of the relay (claim, deliver, commit, prune, and every failure)
\* preserve IInv.
LEMMA RelayPreserves ==
    ASSUME IInv, NEW r \in Relays, RelayStep(r) \/ RelayFault(r)
    PROVE  IInv'
<1> USE OutboxAssumption DEF IInv, hostVars, tableVars, destVars, relayVars
<1>1. CASE Start(r)
  BY <1>1 DEF Start, TypeOK, Phases, TriggerHeld, RequireAuditIntent, AssertIntent,
      RowsAreCommitted, OpenIdsAreFresh, RecordsAreCommitted, BatchShape, LiveClaims,
      ExactlyOneRecord, ShippedIsDurable, Claimed
<1>2. CASE RunCycle(r)
  BY <1>2 DEF RunCycle, TypeOK, Phases, TriggerHeld, RequireAuditIntent, AssertIntent,
      RowsAreCommitted, OpenIdsAreFresh, RecordsAreCommitted, BatchShape, LiveClaims,
      ExactlyOneRecord, ShippedIsDurable, Claimed
<1>3. CASE Claim(r)
  <2>1. TypeOK'
    BY <1>3 DEF Claim, Claimable, Locked, Pending, Oldest, TypeOK, Phases, BatchShape
  <2>2. TriggerHeld' /\ RowsAreCommitted' /\ OpenIdsAreFresh' /\ RecordsAreCommitted'
    BY <1>3 DEF Claim, Claimable, Locked, Pending, Oldest, TypeOK, TriggerHeld, RequireAuditIntent, AssertIntent,
        RowsAreCommitted, OpenIdsAreFresh, RecordsAreCommitted, BatchShape, LiveClaims, Claimed
  <2>3. BatchShape'
    BY <1>3 DEF Claim, Claimable, Locked, Pending, Oldest, TypeOK, BatchShape, Claimed, ExactlyOneRecord
  <2>4. LiveClaims'
    BY <1>3 DEF Claim, Claimable, Locked, Pending, Oldest, TypeOK, LiveClaims, BatchShape, Claimed
  <2>5. ExactlyOneRecord' /\ ShippedIsDurable'
    BY <1>3 DEF Claim, Claimable, Locked, Pending, Oldest, TypeOK, BatchShape, ExactlyOneRecord, ShippedIsDurable, Claimed
  <2> QED BY <2>1, <2>2, <2>3, <2>4, <2>5
<1>4. CASE DeliverOK(r)
  BY <1>4, DeliverOKPreserves
<1>5. CASE DeliverFailed(r)
  BY <1>5, DeliverFailedPreserves
<1>6. CASE CommitBatch(r)
  BY <1>6, CommitBatchPreserves
<1>7. CASE CommitFails(r)
  <2>1. TypeOK'
    BY <1>7 DEF CommitFails, EndBatch, TypeOK, Phases, BatchShape
  <2>2. TriggerHeld' /\ RowsAreCommitted' /\ OpenIdsAreFresh' /\ RecordsAreCommitted'
    BY <1>7 DEF CommitFails, EndBatch, TypeOK, TriggerHeld, RequireAuditIntent, AssertIntent,
        RowsAreCommitted, OpenIdsAreFresh, RecordsAreCommitted, BatchShape, LiveClaims, Claimed
  <2>3. BatchShape'
    BY <1>7 DEF CommitFails, EndBatch, TypeOK, BatchShape, Claimed, ExactlyOneRecord
  <2>4. LiveClaims'
    BY <1>7 DEF CommitFails, EndBatch, TypeOK, LiveClaims, BatchShape, Claimed
  <2>5. ExactlyOneRecord' /\ ShippedIsDurable'
    BY <1>7 DEF CommitFails, EndBatch, TypeOK, BatchShape, ExactlyOneRecord, ShippedIsDurable, Claimed
  <2> QED BY <2>1, <2>2, <2>3, <2>4, <2>5
<1>8. CASE Prune(r)
  <2>1. TypeOK'
    BY <1>8 DEF Prune, Prunable, TypeOK, Phases, BatchShape
  <2>2. TriggerHeld' /\ RowsAreCommitted' /\ OpenIdsAreFresh' /\ RecordsAreCommitted'
    BY <1>8 DEF Prune, Prunable, TypeOK, TriggerHeld, RequireAuditIntent, AssertIntent,
        RowsAreCommitted, OpenIdsAreFresh, RecordsAreCommitted, BatchShape, LiveClaims, Claimed
  <2>3. BatchShape'
    BY <1>8 DEF Prune, Prunable, TypeOK, BatchShape, Claimed, ExactlyOneRecord
  <2>4. LiveClaims'
    BY <1>8 DEF Prune, Prunable, TypeOK, LiveClaims, BatchShape, Claimed
  <2>5. ExactlyOneRecord' /\ ShippedIsDurable'
    BY <1>8 DEF Prune, Prunable, TypeOK, BatchShape, ExactlyOneRecord, ShippedIsDurable, Claimed
  <2> QED BY <2>1, <2>2, <2>3, <2>4, <2>5
<1>9. CASE LoseSession(r)
  <2>1. TypeOK'
    BY <1>9 DEF LoseSession, Fault, TypeOK, Phases, BatchShape
  <2>2. TriggerHeld' /\ RowsAreCommitted' /\ OpenIdsAreFresh' /\ RecordsAreCommitted'
    BY <1>9 DEF LoseSession, Fault, TypeOK, TriggerHeld, RequireAuditIntent, AssertIntent,
        RowsAreCommitted, OpenIdsAreFresh, RecordsAreCommitted, BatchShape, LiveClaims, Claimed
  <2>3. BatchShape'
    BY <1>9 DEF LoseSession, Fault, TypeOK, BatchShape, Claimed, ExactlyOneRecord
  <2>4. LiveClaims'
    BY <1>9 DEF LoseSession, Fault, TypeOK, LiveClaims, BatchShape, Claimed
  <2>5. ExactlyOneRecord' /\ ShippedIsDurable'
    BY <1>9 DEF LoseSession, Fault, TypeOK, BatchShape, ExactlyOneRecord, ShippedIsDurable, Claimed
  <2> QED BY <2>1, <2>2, <2>3, <2>4, <2>5
<1>10. CASE Stop(r)
  <2>1. TypeOK'
    BY <1>10 DEF Stop, Fault, TypeOK, Phases, BatchShape
  <2>2. TriggerHeld' /\ RowsAreCommitted' /\ OpenIdsAreFresh' /\ RecordsAreCommitted'
    BY <1>10 DEF Stop, Fault, TypeOK, TriggerHeld, RequireAuditIntent, AssertIntent,
        RowsAreCommitted, OpenIdsAreFresh, RecordsAreCommitted, BatchShape, LiveClaims, Claimed
  <2>3. BatchShape'
    BY <1>10 DEF Stop, Fault, TypeOK, BatchShape, Claimed, ExactlyOneRecord
  <2>4. LiveClaims'
    BY <1>10 DEF Stop, Fault, TypeOK, LiveClaims, BatchShape, Claimed
  <2>5. ExactlyOneRecord' /\ ShippedIsDurable'
    BY <1>10 DEF Stop, Fault, TypeOK, BatchShape, ExactlyOneRecord, ShippedIsDurable, Claimed
  <2> QED BY <2>1, <2>2, <2>3, <2>4, <2>5
<1>11. CASE Crash(r)
  <2>1. TypeOK'
    BY <1>11 DEF Crash, EndBatch, Fault, TypeOK, Phases, BatchShape
  <2>2. TriggerHeld' /\ RowsAreCommitted' /\ OpenIdsAreFresh' /\ RecordsAreCommitted'
    BY <1>11 DEF Crash, EndBatch, Fault, TypeOK, TriggerHeld, RequireAuditIntent, AssertIntent,
        RowsAreCommitted, OpenIdsAreFresh, RecordsAreCommitted, BatchShape, LiveClaims, Claimed
  <2>3. BatchShape'
    BY <1>11 DEF Crash, EndBatch, Fault, TypeOK, BatchShape, Claimed, ExactlyOneRecord
  <2>4. LiveClaims'
    BY <1>11 DEF Crash, EndBatch, Fault, TypeOK, LiveClaims, BatchShape, Claimed
  <2>5. ExactlyOneRecord' /\ ShippedIsDurable'
    BY <1>11 DEF Crash, EndBatch, Fault, TypeOK, BatchShape, ExactlyOneRecord, ShippedIsDurable, Claimed
  <2> QED BY <2>1, <2>2, <2>3, <2>4, <2>5
<1>12. CASE ClaimFails(r)
  <2>1. TypeOK'
    BY <1>12 DEF ClaimFails, Fault, TypeOK, Phases, BatchShape
  <2>2. TriggerHeld' /\ RowsAreCommitted' /\ OpenIdsAreFresh' /\ RecordsAreCommitted'
    BY <1>12 DEF ClaimFails, Fault, TypeOK, TriggerHeld, RequireAuditIntent, AssertIntent,
        RowsAreCommitted, OpenIdsAreFresh, RecordsAreCommitted, BatchShape, LiveClaims, Claimed
  <2>3. BatchShape'
    BY <1>12 DEF ClaimFails, Fault, TypeOK, BatchShape, Claimed, ExactlyOneRecord
  <2>4. LiveClaims'
    BY <1>12 DEF ClaimFails, Fault, TypeOK, LiveClaims, BatchShape, Claimed
  <2>5. ExactlyOneRecord' /\ ShippedIsDurable'
    BY <1>12 DEF ClaimFails, Fault, TypeOK, BatchShape, ExactlyOneRecord, ShippedIsDurable, Claimed
  <2> QED BY <2>1, <2>2, <2>3, <2>4, <2>5
<1> QED BY <1>1, <1>2, <1>3, <1>4, <1>5, <1>6, <1>7, <1>8, <1>9, <1>10, <1>11, <1>12
  DEF RelayStep, RelayFault

\* IInv is an invariant of the outbox.
THEOREM Invariance == Spec => []IInv
<1>1. IInv /\ [Next]_vars => IInv'
  <2> SUFFICES ASSUME IInv, [Next]_vars PROVE IInv'
    OBVIOUS
  <2>1. ASSUME NEW t \in Txns, HostNext(t) PROVE IInv'
    BY <2>1, HostPreserves
  <2>2. ASSUME NEW r \in Relays, RelayStep(r) \/ RelayFault(r) PROVE IInv'
    BY <2>2, RelayPreserves
  <2>3. CASE UNCHANGED vars
    BY <2>3 DEF vars, hostVars, tableVars, destVars, relayVars, IInv, TypeOK, TriggerHeld,
        RequireAuditIntent, AssertIntent, RowsAreCommitted, OpenIdsAreFresh,
        RecordsAreCommitted, BatchShape, LiveClaims, ExactlyOneRecord, ShippedIsDurable, Claimed
  <2> QED BY <2>1, <2>2, <2>3 DEF Next
<1> QED BY InitEstablishes, <1>1, PTL DEF Spec

\* The variables keep their types (and no cycle exceeds its batch cap).
THEOREM TypeCorrect == Spec => []TypeOK
<1>1. IInv => TypeOK
  BY DEF IInv
<1> QED BY Invariance, <1>1, PTL

\* No committed change of a guarded row is ever without its audit intent or
\* record, for any number of crashes, replicas and prunes.
THEOREM Accountability == Spec => []NoUnauditedMutation
<1>1. IInv => NoUnauditedMutation
  <2> SUFFICES ASSUME IInv, NEW t \in Txns, txn[t] = "committed",
                      NEW m \in muts[t], m.op \in Guarded, NEW s \in {m.old, m.new}
               PROVE  \E e \in intents[t] :
                        /\ About[e].op = m.op
                        /\ About[e].subject = s
                        /\ Accounted(e)
    BY DEF NoUnauditedMutation
  <2>1. m \in [op : Ops, old : Subjects, new : Subjects]
    BY OutboxAssumption DEF IInv, TypeOK
  <2>2. s \in RequiredSubjects(m)
    BY <2>1, OutboxAssumption DEF IInv, TypeOK, RequiredSubjects, Ops
  <2>3. PICK e \in intents[t] : About[e].op = m.op /\ About[e].subject = s
    BY <2>2 DEF IInv, TriggerHeld, RequireAuditIntent, AssertIntent
  <2>4. Accounted(e)
    BY DEF IInv, TypeOK, RowsAreCommitted, ExactlyOneRecord, Accounted
  <2> QED BY <2>3, <2>4
<1> QED BY Invariance, <1>1, PTL

\* Nothing a rolled-back transaction enqueued is ever recorded.
THEOREM NoPhantoms == Spec => []NoPhantomRecord
<1>1. IInv => NoPhantomRecord
  BY DEF IInv, RowsAreCommitted, RecordsAreCommitted, NoPhantomRecord
<1> QED BY Invariance, <1>1, PTL

\* Redelivery never duplicates a record and nothing is marked undelivered work.
THEOREM RecordedOnce == Spec => []ExactlyOneRecord
<1>1. IInv => ExactlyOneRecord
  BY DEF IInv
<1> QED BY Invariance, <1>1, PTL

\* The external shipper is only ever handed durable records.
THEOREM ShipAfterDurable == Spec => []ShippedIsDurable
<1>1. IInv => ShippedIsDurable
  BY DEF IInv
<1> QED BY Invariance, <1>1, PTL

\* What any sink call may do to the destination: nothing, or add the first row
\* of an event whose intent is committed.
LEMMA SinkStep ==
    ASSUME IInv, NEW r \in Relays, DeliverOK(r) \/ DeliverFailed(r)
    PROVE  /\ UNCHANGED <<txn, muts, outbox>>
           /\ \/ \A f \in Events : dest'[f] = dest[f]
              \/ \E e \in Events :
                    /\ outbox[e] # "absent" /\ dest[e] = 0 /\ dest'[e] = 1
                    /\ \A f \in Events \ {e} : dest'[f] = dest[f]
<1>1. PICK e \in Oldest(todo[r], 1) :
        /\ InsertDest(e) \/ UNCHANGED dest
        /\ UNCHANGED <<txn, muts, outbox>>
  BY DEF DeliverOK, DeliverFailed, hostVars, tableVars
<1>2. e \in Events /\ outbox[e] # "absent"
  BY <1>1 DEF Oldest, IInv, TypeOK, BatchShape
<1>3. dest \in [Events -> Nat]
  BY DEF IInv, TypeOK
<1> QED BY <1>1, <1>2, <1>3 DEF InsertDest

\* Undelivered rows leave the backlog only by being delivered, and audit rows
\* stay.
THEOREM BacklogKept == Spec => BacklogNeverDropped
<1> DEFINE A == \A e \in Events :
                  /\ outbox[e] = "pending" => outbox'[e] \in {"pending", "delivered"}
                  /\ dest[e] <= dest'[e]
<1>1. IInv /\ [Next]_vars => [A]_vars
  <2> SUFFICES ASSUME IInv, Next PROVE A
    BY DEF vars
  <2>t. dest \in [Events -> Nat]
    BY DEF IInv, TypeOK
  <2> USE DEF hostVars, tableVars, destVars, relayVars
  <2>1. ASSUME NEW t \in Txns, HostNext(t) PROVE A
    BY <2>1, <2>t DEF HostNext, Begin, Mutate, Enqueue, Commit, Rollback
  <2>2. ASSUME NEW r \in Relays, DeliverOK(r) \/ DeliverFailed(r) PROVE A
    BY <2>2, <2>t, SinkStep
  <2>3. ASSUME NEW r \in Relays, Prune(r) PROVE A
    BY <2>3, <2>t DEF Prune, Prunable
  <2>4. ASSUME NEW r \in Relays, CommitBatch(r) PROVE A
    BY <2>4, <2>t DEF CommitBatch
  <2>5. ASSUME NEW r \in Relays,
               Start(r) \/ RunCycle(r) \/ Claim(r) \/ CommitFails(r) \/ RelayFault(r)
        PROVE  A
    BY <2>5, <2>t DEF Start, RunCycle, Claim, CommitFails, RelayFault, ClaimFails, LoseSession, Stop, Crash
  <2> QED BY <2>1, <2>2, <2>3, <2>4, <2>5 DEF Next, RelayStep
<1> QED BY Invariance, <1>1, PTL DEF Spec, BacklogNeverDropped

\* The outbox implements AuditTrail: mutations commit together with the events
\* that name their subjects, and each event is recorded once.
THEOREM Refinement == Spec => TrailRefined
<1> DEFINE Ledger == {c \in [txn : Txns, mut : Mutations] :
                        txn[c.txn] = "committed" /\ c.mut \in muts[c.txn]}
           Owed == {e \in Events : outbox[e] # "absent"}
           Recorded == {e \in Events : dest[e] # 0}
<1>1. Init => Trail!TrailInit
  BY DEF Init, Trail!TrailInit
<1>2. IInv /\ [Next]_vars => [Trail!TrailNext]_(Trail!trailVars)
  <2> SUFFICES ASSUME IInv, [Next]_vars
               PROVE  Trail!TrailNext \/ UNCHANGED <<Ledger, Owed, Recorded>>
    BY DEF Trail!trailVars
  <2> USE DEF hostVars, tableVars, destVars, relayVars
  <2>t. TypeOK
    BY DEF IInv
  <2>1. ASSUME NEW t \in Txns, Commit(t) PROVE Trail!TrailNext
    <3>1. Trail!CommitAudited(t, muts[t], intents[t])
      <4>1. intents[t] \cap Owed = {}
        BY <2>1 DEF IInv, OpenIdsAreFresh, Commit
      <4>2. \A m \in muts[t] : m.op \in Guarded => Trail!Covered(m, intents[t])
        <5> SUFFICES ASSUME NEW m \in muts[t], m.op \in Guarded, NEW s \in {m.old, m.new}
                     PROVE  \E e \in intents[t] : About[e].op = m.op /\ About[e].subject = s
          BY DEF Trail!Covered, Trail!Touched
        <5>1. m \in Mutations
          BY <2>t DEF TypeOK
        <5>2. s \in RequiredSubjects(m)
          BY <5>1, OutboxAssumption DEF RequiredSubjects, Ops
        <5> QED BY <2>1, <5>2 DEF Commit, RequireAuditIntent, AssertIntent
      <4>3. Ledger' = Ledger \cup {[txn |-> t, mut |-> m] : m \in muts[t]}
        BY <2>1, <2>t DEF Commit, TypeOK
      <4>4. Owed' = Owed \cup intents[t]
        BY <2>1, <2>t DEF Commit, TypeOK
      <4>5. Recorded' = Recorded
        BY <2>1 DEF Commit
      <4> QED BY <4>1, <4>2, <4>3, <4>4, <4>5 DEF Trail!CommitAudited
    <3>2. muts[t] \in SUBSET Mutations /\ intents[t] \in SUBSET Events
      BY <2>t DEF TypeOK
    <3>3. \E u \in Txns, M \in SUBSET Mutations, E \in SUBSET Events :
            Trail!CommitAudited(u, M, E)
      BY <3>1, <3>2, Zenon DEF Trail!CommitAudited
    <3> QED BY <3>3 DEF Trail!TrailNext
  <2>2. ASSUME NEW t \in Txns, Begin(t) \/ Rollback(t) \/ (\E e \in Events : Enqueue(t, e))
        PROVE  UNCHANGED <<Ledger, Owed, Recorded>>
    BY <2>2, <2>t DEF Begin, Rollback, Enqueue, TypeOK
  <2>3. ASSUME NEW t \in Txns, NEW m \in Mutations, Mutate(t, m)
        PROVE  UNCHANGED <<Ledger, Owed, Recorded>>
    BY <2>3, <2>t DEF Mutate, TypeOK
  <2>4. ASSUME NEW r \in Relays, DeliverOK(r) \/ DeliverFailed(r)
        PROVE  Trail!TrailNext \/ UNCHANGED <<Ledger, Owed, Recorded>>
    <3>1. UNCHANGED <<Ledger, Owed>>
      BY <2>4, SinkStep
    <3>2. CASE \A f \in Events : dest'[f] = dest[f]
      BY <3>1, <3>2
    <3>3. ASSUME NEW e \in Events, outbox[e] # "absent", dest[e] = 0, dest'[e] = 1,
                 \A f \in Events \ {e} : dest'[f] = dest[f]
          PROVE  Trail!Record(e)
      BY <3>1, <3>3 DEF Trail!Record
    <3> QED BY <2>4, SinkStep, <3>2, <3>3 DEF Trail!TrailNext
  <2>5. ASSUME NEW r \in Relays, CommitBatch(r) \/ Prune(r)
        PROVE  UNCHANGED <<Ledger, Owed, Recorded>>
    BY <2>5, <2>t DEF CommitBatch, Prune, Prunable, TypeOK, IInv, BatchShape, RecordsAreCommitted
  <2>6. ASSUME NEW r \in Relays,
               Start(r) \/ RunCycle(r) \/ Claim(r) \/ CommitFails(r) \/ RelayFault(r)
        PROVE  UNCHANGED <<Ledger, Owed, Recorded>>
    BY <2>6 DEF Start, RunCycle, Claim, CommitFails, RelayFault, ClaimFails, LoseSession, Stop, Crash
  <2>7. CASE UNCHANGED vars
    BY <2>7 DEF vars
  <2> QED BY <2>1, <2>2, <2>3, <2>4, <2>5, <2>6, <2>7 DEF Next, HostNext, RelayStep
<1> QED BY Invariance, <1>1, <1>2, PTL DEF Spec, TrailRefined, Trail!TrailSpec

-------------------------------------------------------------------------------
(* Shipments and faults.                                                   *)

\* What ShipsArePaid says of one event.
Paid(e) ==
    /\ IsFiniteSet(Orphaned(e))
    /\ ships[e] + Cardinality(Orphaned(e)) <= faults + (IF Settled(e) THEN 1 ELSE 0)

\* An event that is not shipped, gets no new orphaned batch and keeps its mark
\* stays paid for.
LEMMA PaidQuiet ==
    ASSUME TypeOK, TypeOK', NEW e \in Events, Paid(e),
           ships'[e] = ships[e], faults <= faults',
           Orphaned(e)' \subseteq Orphaned(e), Settled(e) => Settled(e)'
    PROVE  Paid(e)'
<1>1. IsFiniteSet(Orphaned(e)') /\ Cardinality(Orphaned(e)') <= Cardinality(Orphaned(e))
  BY FS_Subset DEF Paid
<1>2. Cardinality(Orphaned(e)) \in Nat /\ Cardinality(Orphaned(e)') \in Nat
  BY <1>1, FS_CardinalityType DEF Paid
<1>3. ships[e] \in Nat /\ faults \in Nat /\ faults' \in Nat
  BY DEF TypeOK
<1>4. CASE Settled(e)
  BY <1>1, <1>2, <1>3, <1>4 DEF Paid
<1>5. CASE ~Settled(e)
  BY <1>1, <1>2, <1>3, <1>5 DEF Paid
<1> QED BY <1>4, <1>5

\* An event that is not shipped and gets no new orphaned batch may lose its mark
\* to a fault.
LEMMA PaidByFault ==
    ASSUME TypeOK, TypeOK', NEW e \in Events, Paid(e),
           ships'[e] = ships[e], faults' = faults + 1,
           Orphaned(e)' \subseteq Orphaned(e)
    PROVE  Paid(e)'
<1>1. IsFiniteSet(Orphaned(e)') /\ Cardinality(Orphaned(e)') <= Cardinality(Orphaned(e))
  BY FS_Subset DEF Paid
<1>2. Cardinality(Orphaned(e)) \in Nat /\ Cardinality(Orphaned(e)') \in Nat
  BY <1>1, FS_CardinalityType DEF Paid
<1>3. ships[e] \in Nat /\ faults \in Nat
  BY DEF TypeOK
<1>4. ships[e] + Cardinality(Orphaned(e)) <= faults + 1
  BY <1>2, <1>3 DEF Paid
<1>5. ships'[e] + Cardinality(Orphaned(e)') <= faults'
  BY <1>1, <1>2, <1>3, <1>4
<1> QED BY <1>1, <1>2, <1>3, <1>5 DEF Paid

\* Host transactions do not touch what ShipsArePaid is about: the rows they
\* commit were absent.
LEMMA HostPays ==
    ASSUME IInv, IInv', ShipsArePaid, NEW t \in Txns, HostNext(t)
    PROVE  ShipsArePaid'
<1>t. TypeOK /\ TypeOK' /\ OpenIdsAreFresh
  BY DEF IInv
<1>1. UNCHANGED <<ships, session, todo, marked, faults>>
  BY DEF HostNext, Begin, Mutate, Enqueue, Commit, Rollback, destVars, relayVars
<1>2. \A e \in Events : outbox[e] \in {"delivered", "pruned"} => outbox'[e] = outbox[e]
  BY <1>t DEF HostNext, Begin, Mutate, Enqueue, Commit, Rollback, tableVars, OpenIdsAreFresh
<1>3. ASSUME NEW e \in Events PROVE Paid(e)'
  <2>1. Paid(e)
    BY DEF ShipsArePaid, Paid
  <2>2. Orphaned(e)' = Orphaned(e) /\ (Settled(e) => Settled(e)')
    BY <1>1, <1>2 DEF Orphaned, Settled
  <2>3. faults <= faults'
    BY <1>1, <1>t DEF TypeOK
  <2> QED BY <2>1, <2>2, <2>3, <1>1, <1>t, PaidQuiet
<1> QED BY <1>1, <1>3 DEF ShipsArePaid, Paid

\* A relay's steps outside the delivery of one intent keep every mark, end
\* batches and start new ones, and create no orphan.
LEMMA QuietRelayPays ==
    ASSUME IInv, IInv', ShipsArePaid, NEW r \in Relays,
           \/ Start(r) \/ RunCycle(r) \/ Claim(r) \/ CommitBatch(r) \/ CommitFails(r)
           \/ Prune(r) \/ ClaimFails(r) \/ Stop(r)
    PROVE  ShipsArePaid'
<1> USE DEF hostVars, tableVars, destVars, relayVars
<1>t. TypeOK /\ TypeOK' /\ BatchShape /\ LiveClaims
  BY DEF IInv
<1>d. \A q \in Relays : todo[q] \cap marked[q] = {}
  BY DEF ShipsArePaid
<1>f. ships' = ships /\ faults <= faults'
  <2>1. faults \in Nat
    BY <1>t DEF TypeOK
  <2> QED BY <2>1 DEF Start, RunCycle, Claim, CommitBatch, CommitFails, Prune, ClaimFails, Stop, Fault
<1>q. \A q \in Relays \ {r} :
        session'[q] = session[q] /\ todo'[q] = todo[q] /\ marked'[q] = marked[q]
  BY <1>t, EndBatchClears
  DEF Start, RunCycle, Claim, CommitBatch, CommitFails, Prune, ClaimFails, Stop, TypeOK
<1>1. ASSUME Start(r) \/ RunCycle(r) \/ ClaimFails(r) \/ Stop(r) \/ Prune(r)
      PROVE  /\ UNCHANGED <<session, todo, marked>>
             /\ \A e \in Events : Settled(e) => Settled(e)'
  <2>1. UNCHANGED <<session, todo, marked>>
    BY <1>1 DEF Start, RunCycle, ClaimFails, Stop, Prune
  <2>2. \A e \in Events : outbox[e] \in {"delivered", "pruned"} => outbox'[e] \in {"delivered", "pruned"}
    BY <1>1, <1>t DEF Start, RunCycle, ClaimFails, Stop, Prune
  <2> QED BY <2>1, <2>2 DEF Settled
<1>2. ASSUME Claim(r)
      PROVE  /\ marked' = marked /\ marked[r] = {} /\ ~session[r]
             /\ todo'[r] # {} => session'[r]
             /\ \A e \in Events : Settled(e) => Settled(e)'
  <2>1. marked[r] = {} /\ ~session[r] /\ marked' = marked /\ outbox' = outbox
    BY <1>2, <1>t DEF Claim, BatchShape, Claimed
  <2>2. todo'[r] # {} => session'[r]
    BY <1>2, <1>t DEF Claim, TypeOK
  <2>3. \A e \in Events : Settled(e) => Settled(e)'
    BY <2>1, <1>q DEF Settled
  <2> QED BY <2>1, <2>2, <2>3
<1>3. ASSUME CommitBatch(r)
      PROVE  /\ todo'[r] = {} /\ marked'[r] = {}
             /\ \A e \in Events : Settled(e) => Settled(e)'
  <2>1. todo'[r] = {} /\ marked'[r] = {}
    BY <1>3, <1>t, EndBatchClears DEF CommitBatch
  <2>2. \A e \in Events : outbox'[e] = IF e \in marked[r] THEN "delivered" ELSE outbox[e]
    BY <1>3 DEF CommitBatch
  <2>3. \A e \in Events : Settled(e) => Settled(e)'
    BY <2>2, <1>q DEF Settled
  <2> QED BY <2>1, <2>3
<1>4. ASSUME CommitFails(r)
      PROVE  /\ todo'[r] = {} /\ marked'[r] = {}
             /\ \A e \in Events : Settled(e) => Settled(e)'
  <2>1. todo'[r] = {} /\ marked'[r] = {} /\ ~session[r] /\ outbox' = outbox
    BY <1>4, <1>t, EndBatchClears DEF CommitFails
  <2>2. \A e \in Events : Settled(e) => Settled(e)'
    BY <2>1, <1>q DEF Settled
  <2> QED BY <2>1, <2>2
<1>5. \A e \in Events : Settled(e) => Settled(e)'
  BY <1>1, <1>2, <1>3, <1>4
<1>6. todo'[r] \cap marked'[r] = {} /\ (~session'[r] => todo'[r] = {} \/ (~session[r] /\ todo'[r] = todo[r]))
  BY <1>1, <1>2, <1>3, <1>4, <1>d
<1>7. ASSUME NEW e \in Events PROVE Paid(e)'
  <2>1. Paid(e)
    BY DEF ShipsArePaid, Paid
  <2>2. Orphaned(e)' \subseteq Orphaned(e)
    BY <1>q, <1>6 DEF Orphaned
  <2> QED BY <2>1, <2>2, <1>5, <1>f, <1>t, PaidQuiet
<1>8. \A q \in Relays : todo'[q] \cap marked'[q] = {}
  BY <1>q, <1>6, <1>d
<1> QED BY <1>7, <1>8 DEF ShipsArePaid, Paid

\* A lost session is one fault: what it had marked is open again, and what it
\* still has to deliver may be shipped once more.
LEMMA LossPays ==
    ASSUME IInv, IInv', ShipsArePaid, NEW r \in Relays, LoseSession(r)
    PROVE  ShipsArePaid'
<1> USE DEF hostVars, tableVars, destVars, relayVars
<1>t. TypeOK /\ TypeOK' /\ LiveClaims
  BY DEF IInv
<1>d. \A q \in Relays : todo[q] \cap marked[q] = {}
  BY DEF ShipsArePaid
<1>1. /\ session[r] /\ session' = [session EXCEPT ![r] = FALSE] /\ faults' = faults + 1
      /\ UNCHANGED <<ships, outbox, todo, marked>>
  BY DEF LoseSession, Fault
<1>2. ASSUME NEW e \in Events PROVE Paid(e)'
  <2>0. Paid(e)
    BY DEF ShipsArePaid, Paid
  <2>1. CASE e \notin todo[r]
    <3>1. Orphaned(e)' \subseteq Orphaned(e)
      BY <1>1, <1>t, <2>1 DEF Orphaned, TypeOK
    <3> QED BY <2>0, <3>1, <1>1, <1>t, PaidByFault
  <2>2. CASE e \in todo[r]
    <3>1. Orphaned(e)' = Orphaned(e) \cup {r} /\ r \notin Orphaned(e)
      BY <1>1, <1>t, <2>2 DEF Orphaned, TypeOK
    <3>2. ~Settled(e)
      BY <1>1, <1>d, <1>t, <2>2 DEF Settled, LiveClaims, Claimed
    <3>3. IsFiniteSet(Orphaned(e)') /\ Cardinality(Orphaned(e)') = Cardinality(Orphaned(e)) + 1
      BY <2>0, <3>1, FS_AddElement DEF Paid
    <3>4. Cardinality(Orphaned(e)) \in Nat
      BY <2>0, FS_CardinalityType DEF Paid
    <3>5. ships[e] \in Nat /\ faults \in Nat
      BY <1>t DEF TypeOK
    <3>6. ships[e] + Cardinality(Orphaned(e)) <= faults
      BY <2>0, <3>2, <3>4, <3>5 DEF Paid
    <3>7. ships'[e] + Cardinality(Orphaned(e)') <= faults'
      BY <1>1, <3>3, <3>4, <3>5, <3>6
    <3> QED BY <1>1, <3>3, <3>4, <3>5, <3>7 DEF Paid
  <2> QED BY <2>1, <2>2
<1> QED BY <1>1, <1>2, <1>d DEF ShipsArePaid, Paid

\* A crash is one fault: the marks of its batch are undone.
LEMMA CrashPays ==
    ASSUME IInv, IInv', ShipsArePaid, NEW r \in Relays, Crash(r)
    PROVE  ShipsArePaid'
<1>t. TypeOK /\ TypeOK'
  BY DEF IInv
<1>1. EndBatch(r) /\ faults' = faults + 1 /\ ships' = ships
  BY DEF Crash, Fault, destVars
<1>2. /\ todo'[r] = {}
      /\ \A q \in Relays \ {r} :
           session'[q] = session[q] /\ todo'[q] = todo[q] /\ marked'[q] = marked[q]
  BY <1>1, <1>t, EndBatchClears
<1>3. ASSUME NEW e \in Events PROVE Paid(e)'
  <2>1. Paid(e)
    BY DEF ShipsArePaid, Paid
  <2>2. Orphaned(e)' \subseteq Orphaned(e)
    BY <1>2 DEF Orphaned
  <2> QED BY <2>1, <2>2, <1>1, <1>t, PaidByFault
<1>4. \A q \in Relays : todo'[q] \cap marked'[q] = {}
  BY <1>2 DEF ShipsArePaid
<1> QED BY <1>3, <1>4 DEF ShipsArePaid, Paid

\* Delivering under a live session ships at most once and marks; delivering
\* without one ships at most once and ends the orphaned batch.
LEMMA DeliverOKPays ==
    ASSUME IInv, IInv', ShipsArePaid, NEW r \in Relays, DeliverOK(r)
    PROVE  ShipsArePaid'
<1> USE DEF hostVars, tableVars, destVars, relayVars
<1>t. TypeOK /\ TypeOK' /\ LiveClaims
  BY DEF IInv
<1>d. \A q \in Relays : todo[q] \cap marked[q] = {}
  BY DEF ShipsArePaid
<1>0. PICK e \in Oldest(todo[r], 1) :
        /\ Ship(e)
        /\ \/ /\ session[r]
              /\ todo' = [todo EXCEPT ![r] = @ \ {e}]
              /\ marked' = [marked EXCEPT ![r] = @ \cup {e}]
              /\ session' = session
           \/ /\ ~session[r]
              /\ EndBatch(r)
        /\ UNCHANGED <<outbox, faults>>
  BY DEF DeliverOK
<1>a. e \in todo[r] /\ e \in Events
  BY <1>0, <1>t DEF Oldest, TypeOK
<1>s. /\ ships'[e] \in {ships[e], ships[e] + 1}
      /\ \A f \in Events \ {e} : ships'[f] = ships[f]
      /\ \A f \in Events : ships[f] \in Nat
      /\ faults \in Nat /\ faults' = faults
  BY <1>0, <1>a, <1>t DEF Ship, TypeOK
<1>1. CASE session[r]
  <2>0. /\ session' = session
        /\ todo'[r] = todo[r] \ {e} /\ marked'[r] = marked[r] \cup {e}
        /\ \A q \in Relays \ {r} : todo'[q] = todo[q] /\ marked'[q] = marked[q]
    BY <1>0, <1>1, <1>t DEF TypeOK
  <2>1. \A f \in Events : Orphaned(f)' = Orphaned(f)
    BY <2>0, <1>1 DEF Orphaned
  <2>2. \A f \in Events : Settled(f) => Settled(f)'
    BY <2>0, <1>0 DEF Settled
  <2>3. ASSUME NEW f \in Events, f # e PROVE Paid(f)'
    <3>1. Paid(f)
      BY DEF ShipsArePaid, Paid
    <3> QED BY <3>1, <2>1, <2>2, <2>3, <1>s, <1>t, PaidQuiet
  <2>4. Paid(e)'
    <3>1. Paid(e)
      BY <1>a DEF ShipsArePaid, Paid
    <3>2. ~Settled(e)
      BY <1>1, <1>a, <1>d, <1>t DEF Settled, LiveClaims, Claimed
    <3>3. Settled(e)'
      BY <2>0, <1>1 DEF Settled
    <3>4. IsFiniteSet(Orphaned(e)) /\ Cardinality(Orphaned(e)) \in Nat
      BY <3>1, FS_CardinalityType DEF Paid
    <3>5. ships[e] + Cardinality(Orphaned(e)) <= faults
      BY <3>1, <3>2, <3>4, <1>s, <1>a DEF Paid
    <3>6. ships'[e] + Cardinality(Orphaned(e)') <= faults' + 1
      BY <3>4, <3>5, <2>1, <1>s, <1>a
    <3> QED BY <3>3, <3>4, <3>6, <2>1, <1>a DEF Paid
  <2>5. \A q \in Relays : todo'[q] \cap marked'[q] = {}
    BY <2>0, <1>d
  <2> QED BY <2>3, <2>4, <2>5 DEF ShipsArePaid, Paid
<1>2. CASE ~session[r]
  <2>0. /\ ~session'[r] /\ todo'[r] = {} /\ marked'[r] = {}
        /\ \A q \in Relays \ {r} :
             session'[q] = session[q] /\ todo'[q] = todo[q] /\ marked'[q] = marked[q]
    BY <1>0, <1>2, <1>t, EndBatchClears
  <2>1. \A f \in Events : Orphaned(f)' \subseteq Orphaned(f)
    BY <2>0 DEF Orphaned
  <2>2. \A f \in Events : Settled(f) => Settled(f)'
    BY <2>0, <1>0, <1>2 DEF Settled
  <2>3. ASSUME NEW f \in Events, f # e PROVE Paid(f)'
    <3>1. Paid(f)
      BY DEF ShipsArePaid, Paid
    <3> QED BY <3>1, <2>1, <2>2, <2>3, <1>s, <1>t, PaidQuiet
  <2>4. Paid(e)'
    <3>1. Paid(e)
      BY <1>a DEF ShipsArePaid, Paid
    <3>2. Orphaned(e)' = Orphaned(e) \ {r} /\ r \in Orphaned(e)
      BY <2>0, <1>2, <1>a DEF Orphaned
    <3>3. IsFiniteSet(Orphaned(e)) /\ Cardinality(Orphaned(e)) \in Nat
      BY <3>1, FS_CardinalityType DEF Paid
    <3>4. /\ IsFiniteSet(Orphaned(e)')
          /\ Cardinality(Orphaned(e)') = Cardinality(Orphaned(e)) - 1
      BY <3>2, <3>3, FS_RemoveElement
    <3>5. ships'[e] + Cardinality(Orphaned(e)') <= ships[e] + Cardinality(Orphaned(e))
      BY <3>3, <3>4, <1>s, <1>a
    <3>6. Cardinality(Orphaned(e)') \in Nat /\ ships[e] \in Nat /\ ships'[e] \in Nat
      BY <3>4, FS_CardinalityType, <1>s, <1>a
    <3>7. CASE Settled(e)
      BY <3>1, <3>3, <3>4, <3>5, <3>6, <3>7, <2>2, <1>s, <1>a DEF Paid
    <3>8. CASE ~Settled(e)
      BY <3>1, <3>3, <3>4, <3>5, <3>6, <3>8, <1>s DEF Paid
    <3> QED BY <3>7, <3>8
  <2>5. \A q \in Relays : todo'[q] \cap marked'[q] = {}
    BY <2>0, <1>d
  <2> QED BY <2>3, <2>4, <2>5 DEF ShipsArePaid, Paid
<1> QED BY <1>1, <1>2

\* A failed delivery ships nothing.
LEMMA DeliverFailedPays ==
    ASSUME IInv, IInv', ShipsArePaid, NEW r \in Relays, DeliverFailed(r)
    PROVE  ShipsArePaid'
<1> USE DEF hostVars, tableVars, destVars, relayVars
<1>t. TypeOK /\ TypeOK'
  BY DEF IInv
<1>d. \A q \in Relays : todo[q] \cap marked[q] = {}
  BY DEF ShipsArePaid
<1>0. PICK e \in Oldest(todo[r], 1) :
        /\ ships' = ships /\ outbox' = outbox
        /\ faults' = faults \/ faults' = faults + 1
        /\ \/ /\ session[r]
              /\ todo' = [todo EXCEPT ![r] = @ \ {e}]
              /\ UNCHANGED <<session, marked>>
           \/ /\ ~session[r]
              /\ EndBatch(r)
  BY DEF DeliverFailed, RecordFailure, SkipShip, Fault
<1>1. faults \in Nat /\ faults <= faults'
  BY <1>0, <1>t DEF TypeOK
<1>2. /\ todo'[r] \subseteq todo[r] /\ marked'[r] \subseteq marked[r]
      /\ \/ session'[r] = session[r] /\ session[r] /\ marked'[r] = marked[r]
         \/ ~session[r] /\ ~session'[r]
      /\ \A q \in Relays \ {r} :
           session'[q] = session[q] /\ todo'[q] = todo[q] /\ marked'[q] = marked[q]
  <2>1. CASE session[r]
    BY <1>0, <2>1, <1>t DEF TypeOK
  <2>2. CASE ~session[r]
    BY <1>0, <2>2, <1>t, EndBatchClears
  <2> QED BY <2>1, <2>2
<1>3. ASSUME NEW f \in Events PROVE Paid(f)'
  <2>1. Paid(f)
    BY DEF ShipsArePaid, Paid
  <2>2. Orphaned(f)' \subseteq Orphaned(f)
    BY <1>2 DEF Orphaned
  <2>3. Settled(f) => Settled(f)'
    BY <1>0, <1>2 DEF Settled
  <2> QED BY <2>1, <2>2, <2>3, <1>0, <1>1, <1>t, PaidQuiet
<1>4. \A q \in Relays : todo'[q] \cap marked'[q] = {}
  BY <1>2, <1>d
<1> QED BY <1>3, <1>4 DEF ShipsArePaid, Paid

\* An external system sees an event again only when something failed in
\* between: n faults allow at most n repetitions, however many replicas there
\* are and however their batches overlap.
THEOREM RepetitionsCostFaults == Spec => []DuplicateShipNeedsFault
<1>1. Init => ShipsArePaid
  <2> SUFFICES ASSUME Init PROVE ShipsArePaid
    OBVIOUS
  <2>1. \A e \in Events : Orphaned(e) = {}
    BY DEF Init, Orphaned
  <2>2. \A e \in Events : ~Settled(e)
    BY DEF Init, Settled
  <2>3. \A e \in Events : IsFiniteSet(Orphaned(e)) /\ Cardinality(Orphaned(e)) = 0 /\ ships[e] = 0
    BY <2>1, FS_EmptySet DEF Init
  <2>4. ASSUME NEW e \in Events
        PROVE  ships[e] + Cardinality(Orphaned(e)) <= faults + (IF Settled(e) THEN 1 ELSE 0)
    BY <2>2, <2>3 DEF Init
  <2>5. \A r \in Relays : todo[r] \cap marked[r] = {}
    BY DEF Init
  <2> QED BY <2>3, <2>4, <2>5 DEF ShipsArePaid
<1>2. IInv /\ IInv' /\ ShipsArePaid /\ [Next]_vars => ShipsArePaid'
  <2> SUFFICES ASSUME IInv, IInv', ShipsArePaid, [Next]_vars PROVE ShipsArePaid'
    OBVIOUS
  <2>1. ASSUME NEW t \in Txns, HostNext(t) PROVE ShipsArePaid'
    BY <2>1, HostPays
  <2>2. ASSUME NEW r \in Relays, RelayStep(r) \/ RelayFault(r) PROVE ShipsArePaid'
    BY <2>2, QuietRelayPays, LossPays, CrashPays, DeliverOKPays, DeliverFailedPays
    DEF RelayStep, RelayFault
  <2>3. CASE UNCHANGED vars
    BY <2>3 DEF vars, tableVars, destVars, relayVars, ShipsArePaid, Orphaned, Settled
  <2> QED BY <2>1, <2>2, <2>3 DEF Next
<1>3. IInv /\ ShipsArePaid => DuplicateShipNeedsFault
  <2> SUFFICES ASSUME IInv, ShipsArePaid, NEW e \in Events PROVE ships[e] <= 1 + faults
    BY DEF DuplicateShipNeedsFault
  <2>1. Cardinality(Orphaned(e)) \in Nat
    BY FS_CardinalityType DEF ShipsArePaid
  <2>2. ships[e] \in Nat /\ faults \in Nat
    BY DEF IInv, TypeOK
  <2>3. ships[e] + Cardinality(Orphaned(e)) <= faults + (IF Settled(e) THEN 1 ELSE 0)
    BY DEF ShipsArePaid
  <2> HIDE DEF Orphaned, Settled
  <2> QED BY <2>1, <2>2, <2>3
<1> QED BY <1>1, <1>2, <1>3, Invariance, PTL DEF Spec

-------------------------------------------------------------------------------
(* ORDER BY occurred_at, event_id LIMIT n.                                 *)

\* The rows below e are finitely many, and a later row has more below it.
LEMMA RanksGrow ==
    ASSUME NEW S \in SUBSET Nat, NEW d \in S, NEW e \in S, d < e
    PROVE  /\ Cardinality({f \in S : f < d}) \in Nat
           /\ Cardinality({f \in S : f < e}) \in Nat
           /\ Cardinality({f \in S : f < d}) < Cardinality({f \in S : f < e})
<1> DEFINE D == {f \in S : f < d}
           E == {f \in S : f < e}
<1>0. S \subseteq Nat /\ d \in Nat /\ e \in Nat
  OBVIOUS
<1>1. IsFiniteSet(D)
  <2>1. D \in SUBSET Nat
    BY <1>0
  <2>2. \A f \in D : f <= d
    BY <1>0
  <2> HIDE DEF D
  <2> QED BY <1>0, <2>1, <2>2, FS_BoundedSetOfNaturals
<1>2. IsFiniteSet(E)
  <2>1. E \in SUBSET Nat
    BY <1>0
  <2>2. \A f \in E : f <= e
    BY <1>0
  <2> HIDE DEF E
  <2> QED BY <1>0, <2>1, <2>2, FS_BoundedSetOfNaturals
<1>3. D \cup {d} \in SUBSET E /\ d \notin D
  <2>1. \A f \in S : f < d => f < e
    BY <1>0
  <2>2. d \notin D /\ d \in E
    BY <1>0
  <2>3. D \subseteq E
    BY <2>1
  <2> QED BY <2>2, <2>3
<1> HIDE DEF D, E
<1>4. Cardinality(D \cup {d}) = Cardinality(D) + 1
  BY <1>1, <1>3, FS_AddElement
<1>5. Cardinality(D \cup {d}) <= Cardinality(E)
  BY <1>2, <1>3, FS_Subset
<1>6. Cardinality(D) \in Nat /\ Cardinality(E) \in Nat
  BY <1>1, <1>2, FS_CardinalityType
<1>7. Cardinality(D) < Cardinality(E)
  BY <1>4, <1>5, <1>6
<1> QED BY <1>6, <1>7 DEF D, E

\* The least row of a non-empty set, by the order the claim sorts by.
LEMMA LeastRow ==
    ASSUME NEW S \in SUBSET Nat, S # {}
    PROVE  \E e \in S : {f \in S : f < e} = {}
<1>1. \E e \in S : \A f \in S : ~(<<f, e>> \in OpToRel(<, Nat))
  BY WFMin, NatLessThanWellFounded
<1>2. PICK e \in S : \A f \in S : ~(<<f, e>> \in OpToRel(<, Nat))
  BY <1>1
<1>3. \A f \in S : ~(f < e)
  BY <1>2 DEF OpToRel
<1> QED BY <1>3

\* A LIMIT n takes at most n rows, takes some if there are any, and takes no row
\* before an older one.
LEMMA LimitTakesTheOldest ==
    ASSUME NEW S \in SUBSET Nat, NEW n \in Nat
    PROVE  /\ IsFiniteSet(Oldest(S, n)) /\ Cardinality(Oldest(S, n)) <= n
           /\ S # {} /\ n # 0 => Oldest(S, n) # {}
           /\ \A e \in Oldest(S, n), d \in S : d < e => d \in Oldest(S, n)
<1> DEFINE Rank(e) == Cardinality({f \in S : f < e})
           O == Oldest(S, n)
           g == [e \in O |-> Rank(e)]
<1>0. O = {e \in S : Rank(e) < n}
  BY DEF Oldest
<1>1. \A d, e \in S : d < e => Rank(d) \in Nat /\ Rank(e) \in Nat /\ Rank(d) < Rank(e)
  BY RanksGrow
<1>2. \A e \in S : Rank(e) \in Nat
  <2> SUFFICES ASSUME NEW e \in S PROVE Rank(e) \in Nat
    OBVIOUS
  <2> DEFINE E == {f \in S : f < e}
  <2>0. S \subseteq Nat /\ e \in Nat
    OBVIOUS
  <2>1. E \in SUBSET Nat
    BY <2>0
  <2>2. \A f \in E : f <= e
    BY <2>0
  <2>3. IsFiniteSet(E)
    <3> HIDE DEF E
    <3> QED BY <2>0, <2>1, <2>2, FS_BoundedSetOfNaturals
  <2> QED BY <2>3, FS_CardinalityType
<1> HIDE DEF Rank, O
<1>3. g \in Injection(O, 0 .. (n - 1))
  <2>1. g \in [O -> 0 .. (n - 1)]
    <3>1. \A e \in O : Rank(e) \in 0 .. (n - 1)
      BY <1>0, <1>2
    <3> QED BY <3>1
  <2>2. ASSUME NEW d \in O, NEW e \in O, d # e PROVE g[d] # g[e]
    <3>1. d \in Nat /\ e \in Nat /\ d \in S /\ e \in S
      BY <1>0
    <3>2. d < e \/ e < d
      BY <2>2, <3>1
    <3> QED BY <3>1, <3>2, <1>1
  <2> QED BY <2>1, <2>2 DEF Injection, IsInjective
<1>4. IsFiniteSet(O) /\ Cardinality(O) <= n
  <2>1. IsFiniteSet(0 .. (n - 1)) /\ Cardinality(0 .. (n - 1)) = n
    BY FS_Interval
  <2>2. IsFiniteSet(O) /\ Cardinality(O) <= Cardinality(0 .. (n - 1))
    <3> HIDE DEF g
    <3> QED BY <1>3, <2>1, FS_Injection
  <2> QED BY <2>1, <2>2
<1>5. S # {} /\ n # 0 => O # {}
  <2> SUFFICES ASSUME S # {}, n # 0 PROVE O # {}
    OBVIOUS
  <2>1. PICK e \in S : {f \in S : f < e} = {}
    BY LeastRow
  <2>2. Rank(e) = 0
    BY <2>1, FS_EmptySet DEF Rank
  <2> QED BY <2>2, <1>0
<1>6. \A e \in O, d \in S : d < e => d \in O
  <2> SUFFICES ASSUME NEW e \in O, NEW d \in S, d < e PROVE d \in O
    OBVIOUS
  <2>1. e \in S /\ Rank(e) < n
    BY <1>0
  <2>2. Rank(d) \in Nat /\ Rank(e) \in Nat /\ Rank(d) < Rank(e)
    BY <1>1, <2>1
  <2> QED BY <1>0, <2>1, <2>2
<1> QED BY <1>4, <1>5, <1>6 DEF O

\* Only Claim makes a relay hold more than before.
LEMMA ClaimsShrink ==
    ASSUME IInv, [Next]_vars, NEW q \in Relays, ~Claim(q)
    PROVE  Claimed(q)' \subseteq Claimed(q)
<1> USE DEF hostVars, tableVars, destVars, relayVars
<1>t. TypeOK
  BY DEF IInv
<1>1. ASSUME NEW t \in Txns, HostNext(t) PROVE UNCHANGED <<todo, marked, failed>>
  BY <1>1 DEF HostNext, Begin, Mutate, Enqueue, Commit, Rollback
<1>2. ASSUME NEW r \in Relays,
             Start(r) \/ RunCycle(r) \/ Prune(r) \/ ClaimFails(r) \/ LoseSession(r) \/ Stop(r)
      PROVE  UNCHANGED <<todo, marked, failed>>
  BY <1>2 DEF Start, RunCycle, Prune, ClaimFails, LoseSession, Stop
<1>3. ASSUME NEW r \in Relays, EndBatch(r) PROVE Claimed(q)' \subseteq Claimed(q)
  BY <1>3, <1>t, EndBatchClears
<1>4. ASSUME NEW r \in Relays, CommitBatch(r) \/ CommitFails(r) \/ Crash(r) PROVE EndBatch(r)
  BY <1>4 DEF CommitBatch, CommitFails, Crash
<1>5. ASSUME NEW r \in Relays, DeliverOK(r) PROVE Claimed(q)' \subseteq Claimed(q)
  <2>1. PICK e \in Oldest(todo[r], 1) :
          \/ /\ todo' = [todo EXCEPT ![r] = @ \ {e}]
             /\ marked' = [marked EXCEPT ![r] = @ \cup {e}]
             /\ failed' = failed
          \/ EndBatch(r)
    BY <1>5 DEF DeliverOK
  <2>2. e \in todo[r]
    BY <2>1 DEF Oldest
  <2>3. CASE EndBatch(r)
    BY <2>3, <1>3
  <2>4. CASE ~EndBatch(r)
    BY <2>1, <2>2, <2>4, <1>t DEF Claimed, TypeOK
  <2> QED BY <2>3, <2>4
<1>6. ASSUME NEW r \in Relays, DeliverFailed(r) PROVE Claimed(q)' \subseteq Claimed(q)
  <2>1. PICK e \in Oldest(todo[r], 1) :
          \/ /\ todo' = [todo EXCEPT ![r] = @ \ {e}]
             /\ failed' = [failed EXCEPT ![r] = @ \cup {e}]
             /\ marked' = marked
          \/ EndBatch(r)
    BY <1>6 DEF DeliverFailed, RecordFailure
  <2>2. e \in todo[r]
    BY <2>1 DEF Oldest
  <2>3. CASE EndBatch(r)
    BY <2>3, <1>3
  <2>4. CASE ~EndBatch(r)
    BY <2>1, <2>2, <2>4, <1>t DEF Claimed, TypeOK
  <2> QED BY <2>3, <2>4
<1>7. ASSUME NEW r \in Relays, Claim(r) PROVE Claimed(q)' \subseteq Claimed(q)
  <2>1. r # q
    BY <1>7
  <2> QED BY <2>1, <1>7, <1>t DEF Claim, Claimed, TypeOK
<1>8. CASE UNCHANGED <<todo, marked, failed>>
  BY <1>8 DEF Claimed
<1>9. CASE UNCHANGED vars
  BY <1>8, <1>9 DEF vars
<1> QED BY <1>1, <1>2, <1>3, <1>4, <1>5, <1>6, <1>7, <1>8, <1>9
  DEF Next, RelayStep, RelayFault

\* The rows a claim gets are a batch of natural numbers' order.
LEMMA ClaimTakes ==
    ASSUME IInv, NEW r \in Relays, Claim(r)
    PROVE  /\ Claimed(r)' = todo'[r]
           /\ todo'[r] = Oldest(Claimable, BatchSize)
           /\ Claimable \in SUBSET Nat /\ BatchSize \in Nat \ {0}
           /\ todo'[r] # {} => session'[r]
<1>t. TypeOK /\ BatchShape
  BY DEF IInv
<1>1. marked[r] = {} /\ failed[r] = {}
  BY <1>t DEF Claim, BatchShape, Claimed
<1>2. todo'[r] = Oldest(Claimable, BatchSize) /\ marked' = marked /\ failed' = failed
  BY <1>t DEF Claim, TypeOK
<1>3. Claimable \in SUBSET Nat /\ BatchSize \in Nat \ {0}
  BY OutboxAssumption DEF Claimable, Pending
<1>4. todo'[r] # {} => session'[r]
  BY <1>t DEF Claim, TypeOK
<1>5. Claimed(r)' = todo'[r]
  BY <1>1, <1>2 DEF Claimed
<1> QED BY <1>2, <1>3, <1>4, <1>5

\* No claiming transaction holds more rows than RelayConfig.BatchSize, at any
\* point of any batch.
THEOREM BatchesStayBounded == Spec => []BatchesAreBounded
<1>1. Init => BatchesAreBounded
  <2> SUFFICES ASSUME Init, NEW r \in Relays
               PROVE  IsFiniteSet(Claimed(r)) /\ Cardinality(Claimed(r)) <= BatchSize
    BY DEF BatchesAreBounded
  <2>1. Claimed(r) = {}
    BY DEF Init, Claimed
  <2>2. Cardinality({}) <= BatchSize
    BY FS_EmptySet, OutboxAssumption
  <2> QED BY <2>1, <2>2, FS_EmptySet
<1>2. IInv /\ BatchesAreBounded /\ [Next]_vars => BatchesAreBounded'
  <2> SUFFICES ASSUME IInv, BatchesAreBounded, [Next]_vars, NEW q \in Relays
               PROVE  IsFiniteSet(Claimed(q)') /\ Cardinality(Claimed(q)') <= BatchSize
    BY DEF BatchesAreBounded
  <2>0. BatchSize \in Nat
    BY OutboxAssumption
  <2>1. CASE Claim(q)
    <3>1. Claimed(q)' = Oldest(Claimable, BatchSize) /\ Claimable \in SUBSET Nat
      BY <2>1, ClaimTakes
    <3> QED BY <3>1, <2>0, LimitTakesTheOldest
  <2>2. CASE ~Claim(q)
    <3>1. Claimed(q)' \subseteq Claimed(q)
      BY <2>2, ClaimsShrink
    <3>2. IsFiniteSet(Claimed(q)) /\ Cardinality(Claimed(q)) <= BatchSize
      BY DEF BatchesAreBounded
    <3>3. IsFiniteSet(Claimed(q)') /\ Cardinality(Claimed(q)') <= Cardinality(Claimed(q))
      BY <3>1, <3>2, FS_Subset
    <3>4. Cardinality(Claimed(q)') \in Nat /\ Cardinality(Claimed(q)) \in Nat
      BY <3>2, <3>3, FS_CardinalityType
    <3> QED BY <2>0, <3>2, <3>3, <3>4
  <2> QED BY <2>1, <2>2
<1> QED BY <1>1, <1>2, Invariance, PTL DEF Spec

\* A claim is empty only when every pending row is in live hands, and otherwise
\* takes a prefix of the free ones: the safety half of EventuallyRecorded.
THEOREM NothingIsPassedOver == Spec => ClaimsPassNothingOver
<1> DEFINE A == \A r \in Relays : Claim(r) =>
                  /\ Claimable # {} => todo'[r] # {} /\ session'[r]
                  /\ \A e \in todo'[r], d \in Claimable : d < e => d \in todo'[r]
<1>1. IInv /\ [Next]_vars => [A]_vars
  <2> SUFFICES ASSUME IInv, NEW r \in Relays, Claim(r)
               PROVE  /\ Claimable # {} => todo'[r] # {} /\ session'[r]
                      /\ \A e \in todo'[r], d \in Claimable : d < e => d \in todo'[r]
    BY DEF vars
  <2>1. /\ todo'[r] = Oldest(Claimable, BatchSize)
        /\ Claimable \in SUBSET Nat /\ BatchSize \in Nat /\ BatchSize # 0
        /\ todo'[r] # {} => session'[r]
    BY ClaimTakes
  <2>2. /\ Claimable # {} => Oldest(Claimable, BatchSize) # {}
        /\ \A e \in Oldest(Claimable, BatchSize), d \in Claimable :
             d < e => d \in Oldest(Claimable, BatchSize)
    BY <2>1, LimitTakesTheOldest
  <2> QED BY <2>1, <2>2
<1> QED BY Invariance, <1>1, PTL DEF Spec, ClaimsPassNothingOver
===============================================================================
