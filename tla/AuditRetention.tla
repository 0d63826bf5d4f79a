----------------------------- MODULE AuditRetention ---------------------------
(***************************************************************************)
(* AuditRepository.DeleteAuditLogsBefore: retention sweeps delete old audit *)
(* rows in batches, oldest first, and spare those under a legal hold when   *)
(* the host names its table of holds. Sweeps of several replicas overlap    *)
(* with each other and with holds being placed and released: a sweep is one *)
(* statement, which chooses its rows from a snapshot and deletes them after.*)
(***************************************************************************)
EXTENDS Integers, FiniteSets

CONSTANTS Entries,        \* audit rows
          CreatedAt,      \* [Entries -> Nat]
          Times,          \* the times that occur
          Holds,
          Sweepers,
          BatchSize

ASSUME RetentionAssumption ==
    /\ IsFiniteSet(Entries) /\ BatchSize \in Nat
    /\ CreatedAt \in [Entries -> Int] /\ Times \subseteq Int

VARIABLES
    entries,     \* the rows there are
    hold,        \* [Holds -> [active, start, end]]
    holdTable,   \* the host has created the table of holds
    sweep        \* [Sweepers -> [step, option, cutoff, seen, chosen, inForce, alone]]

retentionVars == <<entries, hold, holdTable, sweep>>

HoldRange(h) == hold[h].start..hold[h].end
NoHold       == [active |-> FALSE, start |-> 0, end |-> -1]
NoSweep      == [step |-> "idle", option |-> "none", cutoff |-> 0, seen |-> {},
                 chosen |-> {}, inForce |-> {}, alone |-> TRUE]
Sweeping     == {s \in Sweepers : sweep[s].step = "delete"}

RetentionInit ==
    /\ entries \in SUBSET Entries
    /\ hold = [h \in Holds |-> NoHold]
    /\ holdTable = FALSE
    /\ sweep = [s \in Sweepers |-> NoSweep]
-----------------------------------------------------------------------------
(* The host: LegalHoldTableDDL in its migration, holds placed and released,  *)
(* rows written.                                                             *)
LegalHoldTableDDL ==
    /\ ~holdTable
    /\ holdTable' = TRUE
    /\ UNCHANGED <<entries, hold, sweep>>

PlaceHold(h) ==
    /\ holdTable /\ hold[h] = NoHold
    /\ \E s, e \in Times : s =< e /\ hold' = [hold EXCEPT ![h] = [active |-> TRUE, start |-> s, end |-> e]]
    /\ UNCHANGED <<entries, holdTable, sweep>>

ReleaseHold(h) ==
    /\ hold[h].active
    /\ hold' = [hold EXCEPT ![h].active = FALSE]
    /\ UNCHANGED <<entries, holdTable, sweep>>

\* A row is written at any time, with any created_at: the outbox's TableSink
\* writes the time the event occurred, so a row relayed late is born old. Ids are
\* fresh, no running statement has seen this one.
Append(l) ==
    /\ l \notin entries /\ \A s \in Sweepers : l \notin sweep[s].seen
    /\ entries' = entries \cup {l}
    /\ UNCHANGED <<hold, holdTable, sweep>>
-----------------------------------------------------------------------------
(* The option is absent, empty, not an identifier, or the host's table. *)
Options == {"absent", "empty", "unquotable", "table"}

\* An error before the statement: the name; or from it: there is no such table.
exemptionFails(option) == option \in {"empty", "unquotable"}
VerifyLegalHoldTable(option) == option = "table" => holdTable

exemption(option, l) ==
    option = "table" =>
        ~ \E h \in Holds : hold[h].active /\ CreatedAt[l] \in HoldRange(h)

Sweepable(option, cutoff) == {l \in entries : CreatedAt[l] < cutoff /\ exemption(option, l)}

\* ORDER BY created_at LIMIT: what may come out of it, ties either way.
OldestFirst(rows) ==
    {C \in SUBSET rows :
        /\ Cardinality(C) = IF Cardinality(rows) < BatchSize THEN Cardinality(rows) ELSE BatchSize
        /\ \A l \in C, k \in rows \ C : CreatedAt[l] =< CreatedAt[k]}

ChooseThenExempt(option, cutoff) ==     \* mutant: the exemption outside the LIMIT
    {{l \in C : exemption(option, l)} : C \in OldestFirst({l \in entries : CreatedAt[l] < cutoff})}

Choose(option, cutoff) == OldestFirst(Sweepable(option, cutoff))

DeleteAuditLogsBefore(s, option, cutoff) ==
    /\ sweep[s].step = "idle"
    /\ ~exemptionFails(option) /\ VerifyLegalHoldTable(option)
    /\ \E C \in Choose(option, cutoff) :
         sweep' = [r \in Sweepers |->
                     IF r = s THEN [step |-> "delete", option |-> option, cutoff |-> cutoff,
                                    seen |-> entries, chosen |-> C,
                                    inForce |-> {h \in Holds : hold[h].active},
                                    alone |-> Sweeping = {}]
                     ELSE IF r \in Sweeping THEN [sweep[r] EXCEPT !.alone = FALSE] ELSE sweep[r]]
    /\ UNCHANGED <<entries, hold, holdTable>>

DeleteChosen(s) ==
    /\ sweep[s].step = "delete"
    /\ entries' = entries \ sweep[s].chosen
    /\ sweep' = [sweep EXCEPT ![s] = NoSweep]
    /\ UNCHANGED <<hold, holdTable>>

\* The statement fails or its process dies: nothing is deleted.
SweepFails(s) ==
    /\ sweep[s].step = "delete"
    /\ sweep' = [sweep EXCEPT ![s] = NoSweep]
    /\ UNCHANGED <<entries, hold, holdTable>>

RetentionNext ==
    \/ LegalHoldTableDDL
    \/ \E h \in Holds : PlaceHold(h) \/ ReleaseHold(h)
    \/ \E l \in Entries : Append(l)
    \/ \E s \in Sweepers :
         \/ \E o \in Options, t \in Times : DeleteAuditLogsBefore(s, o, t)
         \/ DeleteChosen(s) \/ SweepFails(s)

RetentionSpec == RetentionInit /\ [][RetentionNext]_retentionVars
-----------------------------------------------------------------------------
(* What a finished sweep did. A row inside the range of a hold, its bounds    *)
(* included, that was in force before the sweep and still is, survives every *)
(* sweep that was given the table. And held rows do not stand in the way of  *)
(* the others: when a sweep that met no other one deletes less than its      *)
(* batch, none of the rows it saw remains that was old at its cutoff and     *)
(* free of the holds it saw. (A row that the outbox relays late may have     *)
(* come meanwhile, older than the cutoff; the next sweep sees it.)           *)
HeldRowsStay ==
    [][\A s \in Sweepers : DeleteChosen(s) =>
        LET gone == entries \ entries'
            held == {l \in Entries : \E h \in sweep[s].inForce : CreatedAt[l] \in HoldRange(h)}
            free == IF sweep[s].option = "table" THEN sweep[s].seen \ held ELSE sweep[s].seen
        IN  /\ sweep[s].option = "table" =>
                 \A h \in sweep[s].inForce, l \in gone : hold[h].active => CreatedAt[l] \notin HoldRange(h)
            /\ sweep[s].alone /\ Cardinality(gone) < BatchSize =>
                 \A l \in entries' \cap free : CreatedAt[l] >= sweep[s].cutoff
      ]_retentionVars

(* A sweep deletes at most its batch, only rows older than its cutoff, and    *)
(* the oldest first: no older row that it saw outlives it, whatever was      *)
(* written, held, released or swept meanwhile, unless the row was under a    *)
(* hold the sweep saw.                                                       *)
OldestGoFirst ==
    [][\A s \in Sweepers : DeleteChosen(s) =>
        LET gone == entries \ entries'
            held == {k \in Entries : \E h \in sweep[s].inForce : CreatedAt[k] \in HoldRange(h)}
        IN  /\ Cardinality(gone) =< BatchSize
            /\ \A l \in gone :
                 /\ CreatedAt[l] < sweep[s].cutoff
                 /\ \A k \in entries' \cap sweep[s].seen :
                       \/ CreatedAt[l] =< CreatedAt[k]
                       \/ sweep[s].option = "table" /\ k \in held
      ]_retentionVars
===============================================================================
