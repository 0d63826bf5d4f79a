----------------------------- MODULE PlatformAdmin -----------------------------
(***************************************************************************)
(* identity/platformadmin: the platform-admin carrier and its floor.        *)
(*                                                                         *)
(* Handlers of several server processes grant, revoke and erase at the same *)
(* time.  Revoke reads the carrier FOR UPDATE, asks the identity store      *)
(* (another database) about the remaining grants one lookup at a time, and  *)
(* deletes in the same transaction.  Serialize holds an advisory lock in a  *)
(* transaction of its own, so a serialised call uses two connections of     *)
(* the pool.  Any step may fail.                                            *)
(***************************************************************************)
EXTENDS Naturals, FiniteSets

CONSTANTS
    Users,          \* user ids, numbered in the carrier's ORDER BY
    Procs,          \* handlers running at the same time
    Kinds,          \* the operations the application performs
    Serialized,     \* the operations it runs inside Carrier.Serialize
    LockKey,        \* [Procs -> lock key]: advisoryLockKey of the table name
    Pool            \* MaxOpenConns of the carrier's sql.DB

Operations == {"grant", "revoke", "erase"}

\* Erasure is the write Revoke's row lock cannot reach: where the application
\* erases users it runs both inside Serialize, and spells the table name one
\* way.  Each serialised call pins a connection, and one of them needs a second.
ASSUME CarrierAssumption ==
    /\ Users \subseteq Nat \ {0}
    /\ Kinds \subseteq Operations
    /\ Serialized \subseteq Operations
    /\ "erase" \in Kinds =>
           /\ {"revoke", "erase"} \subseteq Serialized
           /\ \A p, q \in Procs : LockKey[p] = LockKey[q]
ASSUME PoolAssumption ==
    /\ Pool \in Nat
    /\ IsFiniteSet(Procs)
    /\ Pool > Cardinality(Procs)

VARIABLES
    carrier,    \* users with a committed carrier row
    users,      \* users that exist in the identity store
    pc,         \* handler -> where it is
    op,         \* handler -> the operation it performs
    target,     \* handler -> the user it is about (0 when idle)
    snap,       \* handler -> rows its lock statement still has to lock
    held,       \* handler -> rows it holds FOR UPDATE
    rest        \* handler -> remaining grants not resolved yet

callVars == <<pc, op, target, snap, held, rest>>
vars == <<carrier, users, callVars>>

Stages == {"idle", "serialize", "advisory", "begin", "lock", "floor", "write"}

Init ==
    /\ carrier \in SUBSET Users
    /\ users \in SUBSET Users
    /\ carrier \cap users # {}
    /\ pc = [p \in Procs |-> "idle"]
    /\ op = [p \in Procs |-> "none"]
    /\ target = [p \in Procs |-> 0]
    /\ snap = [p \in Procs |-> {}]
    /\ held = [p \in Procs |-> {}]
    /\ rest = [p \in Procs |-> {}]

-------------------------------------------------------------------------------
(* Connections and locks.                                                  *)

\* Serialize's own transaction, and the one of Grant or Revoke inside it.
LockTx(p) == op[p] \in Serialized /\ pc[p] \notin {"idle", "serialize"}
WorkTx(p) == op[p] # "erase" /\ pc[p] \in {"lock", "floor", "write"}
InUse == Cardinality({p \in Procs : LockTx(p)}) + Cardinality({p \in Procs : WorkTx(p)})

HoldsAdvisory(p) == op[p] \in Serialized /\ pc[p] \in {"begin", "lock", "floor", "write"}

RowLocked(p, u) == \E q \in Procs \ {p} : u \in held[q]

\* The next row of ORDER BY granted_at, user_id.
NextRow(p, u) == u \in snap[p] /\ \A v \in snap[p] : u <= v

\* Every return: the deferred Rollback drops row locks, advisory lock and
\* connections.
ReturnFallsThrough(p) ==
    /\ op' = [op EXCEPT ![p] = "none"]
    /\ target' = [target EXCEPT ![p] = 0]
    /\ snap' = [snap EXCEPT ![p] = {}]
    /\ held' = [held EXCEPT ![p] = {}]
    /\ rest' = [rest EXCEPT ![p] = {}]
    /\ UNCHANGED pc
ReturnLeaking(p) ==
    /\ pc' = [pc EXCEPT ![p] = "idle"]
    /\ op' = [op EXCEPT ![p] = "none"]
    /\ target' = [target EXCEPT ![p] = 0]
    /\ snap' = [snap EXCEPT ![p] = {}]
    /\ rest' = [rest EXCEPT ![p] = {}]
    /\ UNCHANGED held
Return(p) ==
    /\ pc' = [pc EXCEPT ![p] = "idle"]
    /\ op' = [op EXCEPT ![p] = "none"]
    /\ target' = [target EXCEPT ![p] = 0]
    /\ snap' = [snap EXCEPT ![p] = {}]
    /\ held' = [held EXCEPT ![p] = {}]
    /\ rest' = [rest EXCEPT ![p] = {}]

Goto(p, stage) ==
    /\ pc' = [pc EXCEPT ![p] = stage]
    /\ UNCHANGED <<op, target>>

-------------------------------------------------------------------------------
(* Carrier.Serialize.                                                      *)

\* A handler starts an operation, inside Serialize or not.
Call(p, k, u) ==
    /\ pc[p] = "idle"
    /\ pc' = [pc EXCEPT ![p] = IF k \in Serialized THEN "serialize" ELSE "begin"]
    /\ op' = [op EXCEPT ![p] = k]
    /\ target' = [target EXCEPT ![p] = u]
    /\ UNCHANGED <<carrier, users, snap, held, rest>>

BeginSerialize(p) ==
    /\ pc[p] = "serialize"
    /\ InUse < Pool
    /\ Goto(p, "advisory")
    /\ UNCHANGED <<carrier, users, snap, held, rest>>

\* pg_advisory_xact_lock waits for the holder of the same key.
TakeAdvisoryUnkeyed(p) ==
    /\ pc[p] = "advisory"
    /\ Goto(p, "begin")
    /\ UNCHANGED <<carrier, users, snap, held, rest>>
TakeAdvisory(p) ==
    /\ pc[p] = "advisory"
    /\ ~ \E q \in Procs : HoldsAdvisory(q) /\ LockKey[q] = LockKey[p]
    /\ Goto(p, "begin")
    /\ UNCHANGED <<carrier, users, snap, held, rest>>

-------------------------------------------------------------------------------
(* Carrier.Grant.                                                          *)

BeginGrant(p) ==
    /\ pc[p] = "begin" /\ op[p] = "grant"
    /\ InUse < Pool
    /\ Goto(p, "write")
    /\ UNCHANGED <<carrier, users, snap, held, rest>>

\* INSERT ... ON CONFLICT DO NOTHING, the audit intent, COMMIT.  The target is
\* not resolved: a grant to a user who does not exist is recorded.
CommitGrant(p) ==
    /\ pc[p] = "write" /\ op[p] = "grant"
    /\ target[p] \notin carrier
    /\ carrier' = carrier \cup {target[p]}
    /\ Return(p)
    /\ UNCHANGED users

AlreadyPlatformAdmin(p) ==
    /\ pc[p] = "write" /\ op[p] = "grant"
    /\ target[p] \in carrier
    /\ Return(p)
    /\ UNCHANGED <<carrier, users>>

-------------------------------------------------------------------------------
(* Carrier.Revoke.                                                         *)

\* The lock statement reads the rows committed when it starts.
BeginRevoke(p) ==
    /\ pc[p] = "begin" /\ op[p] = "revoke"
    /\ InUse < Pool
    /\ Goto(p, "lock")
    /\ snap' = [snap EXCEPT ![p] = carrier]
    /\ UNCHANGED <<carrier, users, held, rest>>

\* lockCarrier: one row at a time, in order; a row another transaction holds
\* is waited for, and one it deletes meanwhile is skipped (see CommitRevoke).
LockRowUnguarded(p, u) ==
    /\ pc[p] = "lock"
    /\ NextRow(p, u)
    /\ snap' = [snap EXCEPT ![p] = @ \ {u}]
    /\ held' = [held EXCEPT ![p] = @ \cup {u}]
    /\ UNCHANGED <<carrier, users, pc, op, target, rest>>
LockRow(p, u) ==
    /\ pc[p] = "lock"
    /\ NextRow(p, u)
    /\ ~RowLocked(p, u)
    /\ snap' = [snap EXCEPT ![p] = @ \ {u}]
    /\ held' = [held EXCEPT ![p] = @ \cup {u}]
    /\ UNCHANGED <<carrier, users, pc, op, target, rest>>

\* What would remain once the target's row is gone.
Remaining(p) == held[p] \ {target[p]}

LockedAnyTarget(p) ==
    /\ pc[p] = "lock" /\ snap[p] = {}
    /\ Goto(p, "floor")
    /\ rest' = [rest EXCEPT ![p] = Remaining(p)]
    /\ UNCHANGED <<carrier, users, snap, held>>
Locked(p) ==
    /\ pc[p] = "lock" /\ snap[p] = {}
    /\ target[p] \in held[p]
    /\ Goto(p, "floor")
    /\ rest' = [rest EXCEPT ![p] = Remaining(p)]
    /\ UNCHANGED <<carrier, users, snap, held>>

NotPlatformAdmin(p) ==
    /\ pc[p] = "lock" /\ snap[p] = {}
    /\ target[p] \notin held[p]
    /\ Return(p)
    /\ UNCHANGED <<carrier, users>>

-------------------------------------------------------------------------------
(* RequireAnotherExercisableAdmin, over the grants in rest.                 *)

NextGrant(p, g) == g \in rest[p] /\ \A v \in rest[p] : g <= v

\* Resolver.UserExists answers: one that exists is enough, else look further.
ResolveFound(p, g) ==
    /\ pc[p] = "floor"
    /\ NextGrant(p, g)
    /\ g \in users
    /\ Goto(p, "write")
    /\ rest' = [rest EXCEPT ![p] = {}]
    /\ UNCHANGED <<carrier, users, snap, held>>

ResolveMissing(p, g) ==
    /\ pc[p] = "floor"
    /\ NextGrant(p, g)
    /\ g \notin users
    /\ rest' = [rest EXCEPT ![p] = @ \ {g}]
    /\ UNCHANGED <<carrier, users, pc, op, target, snap, held>>

\* The identity store cannot answer: the whole call is refused.
IdentityUnavailableSkips(p) ==
    /\ pc[p] = "floor" /\ rest[p] # {}
    /\ \E g \in rest[p] : rest' = [rest EXCEPT ![p] = @ \ {g}]
    /\ UNCHANGED <<carrier, users, pc, op, target, snap, held>>
IdentityUnavailable(p) ==
    /\ pc[p] = "floor" /\ rest[p] # {}
    /\ Return(p)
    /\ UNCHANGED <<carrier, users>>

LastPlatformAdmin(p) ==
    /\ pc[p] = "floor" /\ rest[p] = {}
    /\ Return(p)
    /\ UNCHANGED <<carrier, users>>

\* DELETE, the audit intent, COMMIT.  Statements waiting for the row drop it;
\* a row granted again later is a new row their snapshot does not show.
CommitRevoke(p) ==
    /\ pc[p] = "write" /\ op[p] = "revoke"
    /\ target[p] \in carrier                      \* RowsAffected() = 1
    /\ carrier' = carrier \ {target[p]}
    /\ snap' = [q \in Procs |-> IF q = p THEN {} ELSE snap[q] \ {target[p]}]
    /\ pc' = [pc EXCEPT ![p] = "idle"]
    /\ op' = [op EXCEPT ![p] = "none"]
    /\ target' = [target EXCEPT ![p] = 0]
    /\ held' = [held EXCEPT ![p] = {}]
    /\ rest' = [rest EXCEPT ![p] = {}]
    /\ UNCHANGED users

-------------------------------------------------------------------------------
(* A user deletion as the host writes it, inside Serialize: Carrier.List,    *)
(* the same predicate when the user is an administrator, the delete.        *)

ListForErase(p) ==
    /\ pc[p] = "begin" /\ op[p] = "erase"
    /\ InUse < Pool
    /\ Goto(p, IF target[p] \in carrier THEN "floor" ELSE "write")
    /\ rest' = [rest EXCEPT ![p] = IF target[p] \in carrier THEN carrier \ {target[p]} ELSE {}]
    /\ UNCHANGED <<carrier, users, snap, held>>

EraseUser(p) ==
    /\ pc[p] = "write" /\ op[p] = "erase"
    /\ users' = users \ {target[p]}
    /\ Return(p)
    /\ UNCHANGED carrier

\* A driver error, a cancelled context, a refused audit intent, a failed
\* COMMIT or a dead process: nothing is written.
Fail(p) ==
    /\ pc[p] # "idle"
    /\ Return(p)
    /\ UNCHANGED <<carrier, users>>

-------------------------------------------------------------------------------
RevokeNext(p) ==
    \/ BeginRevoke(p) \/ Locked(p) \/ NotPlatformAdmin(p) \/ CommitRevoke(p)
    \/ \E u \in Users : LockRow(p, u)

FloorNext(p) ==
    \/ IdentityUnavailable(p) \/ LastPlatformAdmin(p)
    \/ \E g \in Users : ResolveFound(p, g) \/ ResolveMissing(p, g)

ProcNext(p) ==
    \/ BeginSerialize(p) \/ TakeAdvisory(p)
    \/ BeginGrant(p) \/ CommitGrant(p) \/ AlreadyPlatformAdmin(p)
    \/ RevokeNext(p) \/ FloorNext(p)
    \/ ListForErase(p) \/ EraseUser(p)

Next ==
    \E p \in Procs :
        \/ \E k \in Kinds, u \in Users : Call(p, k, u)
        \/ ProcNext(p)
        \/ Fail(p)

Spec == Init /\ [][Next]_vars

\* A handler that can run does.  It waits only for a row lock, the advisory
\* lock or a connection; Postgres and database/sql serve their waiters in
\* turn, so a wait that keeps becoming possible ends.
Fairness == \A p \in Procs : SF_vars(ProcNext(p))

FairSpec == Spec /\ Fairness

-------------------------------------------------------------------------------
(* Properties.                                                             *)

\* Every variable has its type.
TypeOK ==
    /\ carrier \subseteq Users
    /\ users \subseteq Users
    /\ pc \in [Procs -> Stages]
    /\ op \in [Procs -> Operations \cup {"none"}]
    /\ target \in [Procs -> Users \cup {0}]
    /\ snap \in [Procs -> SUBSET Users]
    /\ held \in [Procs -> SUBSET Users]
    /\ rest \in [Procs -> SUBSET Users]
    /\ \A p \in Procs :
        pc[p] # "idle" => op[p] \in Kinds /\ target[p] \in Users

\* Property 1 and 2 of docs/platform-admin.md: whatever revocations and
\* erasures run at the same time, some carrier row names a user who exists.
FloorNeverZero == carrier \cap users # {}

\* Revoke's "removed %d rows, want 1" branch is never taken: the row it found
\* under FOR UPDATE is still there when it deletes it.
RevokedRowIsThere ==
    \A p \in Procs :
        pc[p] = "write" /\ op[p] = "revoke" => target[p] \in carrier

\* A call refused with ErrLastPlatformAdmin was refused because nobody else
\* could administer: an outage of the identity store is never reported so.
LastVerdictIsTrue ==
    [][\A p \in Procs :
        LastPlatformAdmin(p) /\ op[p] = "revoke" => Remaining(p) \cap users = {}]_vars

\* No call waits for ever: not for a row lock, the advisory lock or a
\* connection of the pool.
CallsReturn == \A p \in Procs : pc[p] # "idle" ~> pc[p] = "idle"

Floor == INSTANCE AdminFloor

-------------------------------------------------------------------------------
(* The inductive invariant.                                                *)

\* A row lock is held by one running revocation, on a row that is there.
RowLocks ==
    \A p \in Procs :
        /\ held[p] \cup snap[p] \subseteq carrier
        /\ pc[p] = "lock" => op[p] = "revoke"
        /\ held[p] # {} => op[p] = "revoke" /\ pc[p] \in {"lock", "floor", "write"}
        /\ op[p] = "revoke" /\ pc[p] \in {"floor", "write"} => target[p] \in held[p]
        /\ \A q \in Procs \ {p} : held[p] \cap held[q] = {}

\* Where users are erased, the advisory lock has one holder.
AdvisoryExclusive ==
    "erase" \in Kinds =>
        \A p, q \in Procs : HoldsAdvisory(p) /\ HoldsAdvisory(q) => p = q

\* What a predicate still has to look up, and what it has ruled out.
Resolving ==
    \A p \in Procs :
        /\ pc[p] = "floor" => op[p] \in {"revoke", "erase"}
        /\ pc[p] = "floor" /\ op[p] = "revoke" =>
               /\ rest[p] \subseteq Remaining(p)
               /\ (Remaining(p) \ rest[p]) \cap users = {}
        /\ pc[p] = "floor" /\ op[p] = "erase" => rest[p] \subseteq carrier \ {target[p]}

\* A predicate that passed is still true when the call writes.
PassedStillTrue ==
    \A p \in Procs :
        pc[p] = "write" =>
            /\ op[p] = "revoke" => Remaining(p) \cap users # {}
            /\ op[p] = "erase" => (carrier \ {target[p]}) \cap users # {}

IInv ==
    /\ TypeOK
    /\ FloorNeverZero
    /\ RowLocks
    /\ AdvisoryExclusive
    /\ Resolving
    /\ PassedStillTrue

\* The carrier implements AdminFloor: each concurrent revocation and erasure
\* takes effect as if it had checked the floor at its commit.
FloorRefined == Floor!FloorSpec

-------------------------------------------------------------------------------
(* Waiting.                                                                *)

\* The guards of ProcNext(p): p finds a connection, its advisory lock and its
\* next row free, or waits for none of them.
Ready(p) ==
    \/ pc[p] \in {"serialize", "begin"} /\ InUse < Pool
    \/ pc[p] = "advisory" /\ ~ \E q \in Procs : HoldsAdvisory(q) /\ LockKey[q] = LockKey[p]
    \/ pc[p] = "lock" /\ (snap[p] = {} \/ \E u \in Users : NextRow(p, u) /\ ~RowLocked(p, u))
    \/ pc[p] = "floor" /\ (rest[p] = {} \/ \E g \in Users : NextGrant(p, g))
    \/ pc[p] = "write" /\ (op[p] = "revoke" => target[p] \in carrier)

\* Rows are locked in one order (the ORDER BY of lockQuery).
LockOrder == \A p \in Procs : \A u \in held[p], v \in snap[p] : u < v

\* Calls never all wait for each other: whenever one is running, one that is
\* running can go on without anybody's failure or timeout.
NoDeadlock ==
    (\E p \in Procs : pc[p] # "idle") => \E p \in Procs : Ready(p)

\* The order in which a call passes through its stages.
StageOrder == [idle |-> 0, serialize |-> 1, advisory |-> 2, begin |-> 3,
               lock |-> 4, floor |-> 5, write |-> 6]

\* A call repeats nothing: each step it takes ends it, brings it to a later
\* stage or leaves it fewer rows to lock or grants to resolve, and nobody
\* else's step takes it back or gives it more to do.
CallsGoForward ==
    [][\A p \in Procs : pc[p] # "idle" /\ pc'[p] # "idle" =>
        /\ op'[p] = op[p] /\ target'[p] = target[p]
        /\ \/ StageOrder[pc[p]] < StageOrder[pc'[p]]
           \/ /\ pc'[p] = pc[p]
              /\ snap'[p] \subseteq snap[p] /\ rest'[p] \subseteq rest[p]
              /\ ProcNext(p) => snap'[p] # snap[p] \/ rest'[p] # rest[p]]_vars
===============================================================================
