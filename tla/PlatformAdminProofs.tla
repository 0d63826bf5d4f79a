-------------------------- MODULE PlatformAdminProofs --------------------------
(***************************************************************************)
(* Proofs about PlatformAdmin, for any number of users, handlers and        *)
(* pooled connections.                                                     *)
(***************************************************************************)
EXTENDS PlatformAdmin, FiniteSetTheorems, WellFoundedInduction, TLAPS

\* A carrier with at least one administrator and no running call is an
\* initial state of the invariant.
LEMMA InitEstablishes == Init => IInv
  BY DEF Init, IInv, TypeOK, FloorNeverZero, RowLocks, AdvisoryExclusive, Resolving,
         PassedStillTrue, HoldsAdvisory, Stages

\* The steps of p that write neither the carrier nor the identity store leave
\* every other call's locks and verdicts as they were.
LEMMA ReturnPreserves ==
    ASSUME IInv, NEW p \in Procs, Return(p), UNCHANGED <<carrier, users>>
    PROVE  IInv'
<1>t. TypeOK' BY DEF IInv, TypeOK, Return, Stages
<1>1. FloorNeverZero' BY DEF IInv, FloorNeverZero
<1>2. RowLocks' BY DEF IInv, TypeOK, Return, RowLocks
<1>3. AdvisoryExclusive' BY DEF IInv, TypeOK, Return, AdvisoryExclusive, HoldsAdvisory
<1>4. Resolving' BY DEF IInv, TypeOK, Return, Resolving, Remaining
<1>5. PassedStillTrue' BY DEF IInv, TypeOK, Return, PassedStillTrue, Remaining
<1> QED BY <1>t, <1>1, <1>2, <1>3, <1>4, <1>5 DEF IInv

\* Entering Serialize, and starting a grant, preserve IInv; the advisory lock
\* is taken only when nobody holds it.
LEMMA EntryPreserves ==
    ASSUME IInv, NEW p \in Procs,
           \/ \E k \in Kinds, u \in Users : Call(p, k, u)
           \/ BeginSerialize(p) \/ TakeAdvisory(p) \/ BeginGrant(p)
    PROVE  IInv'
<1> USE CarrierAssumption
<1>a. /\ UNCHANGED <<carrier, users, snap, held, rest>>
      /\ pc[p] \in {"idle", "serialize", "advisory", "begin"}
      /\ \A q \in Procs \ {p} : pc'[q] = pc[q] /\ op'[q] = op[q] /\ target'[q] = target[q]
      /\ pc'[p] \in {"serialize", "advisory", "begin", "write"}
      /\ op'[p] \in Kinds /\ target'[p] \in Users
      /\ pc'[p] = "write" => op'[p] = "grant" /\ pc[p] = "begin" /\ op[p] = "grant"
  BY DEF IInv, TypeOK, Call, BeginSerialize, TakeAdvisory, BeginGrant, Goto, Stages
<1>t. TypeOK'
  <2>1. ASSUME NEW k \in Kinds, NEW u \in Users, Call(p, k, u) PROVE TypeOK'
    <3>1. /\ pc' \in [Procs -> Stages]
          /\ op' \in [Procs -> Operations \cup {"none"}]
          /\ target' \in [Procs -> Users \cup {0}]
      BY <2>1 DEF IInv, TypeOK, Call, Stages
    <3> QED BY <1>a, <3>1 DEF IInv, TypeOK
  <2>2. CASE BeginSerialize(p) \/ TakeAdvisory(p) \/ BeginGrant(p)
    BY <2>2 DEF IInv, TypeOK, BeginSerialize, TakeAdvisory, BeginGrant, Goto, Stages
  <2> QED BY <2>1, <2>2
<1>1. FloorNeverZero' BY <1>a DEF IInv, FloorNeverZero
<1>2. RowLocks'
  <2>1. held[p] = {} BY <1>a DEF IInv, RowLocks
  <2> QED BY <1>a, <2>1 DEF IInv, TypeOK, RowLocks
<1>3. AdvisoryExclusive'
  <2>1. CASE TakeAdvisory(p)
    BY <2>1 DEF IInv, TypeOK, AdvisoryExclusive, HoldsAdvisory, TakeAdvisory, Goto
  <2>2. CASE BeginSerialize(p) \/ BeginGrant(p)
    BY <2>2 DEF IInv, TypeOK, AdvisoryExclusive, HoldsAdvisory, BeginSerialize, BeginGrant, Goto
  <2>3. ASSUME NEW k \in Kinds, NEW u \in Users, Call(p, k, u) PROVE AdvisoryExclusive'
    BY <2>3 DEF IInv, TypeOK, AdvisoryExclusive, HoldsAdvisory, Call
  <2> QED BY <2>1, <2>2, <2>3
<1>4. Resolving' BY <1>a DEF IInv, Resolving, Remaining
<1>5. PassedStillTrue' BY <1>a DEF IInv, PassedStillTrue, Remaining
<1> QED BY <1>t, <1>1, <1>2, <1>3, <1>4, <1>5 DEF IInv

\* Reading the carrier and locking its rows one by one.
LEMMA LockingPreserves ==
    ASSUME IInv, NEW p \in Procs,
           BeginRevoke(p) \/ Locked(p) \/ \E u \in Users : LockRow(p, u)
    PROVE  IInv'
<1>i. TypeOK /\ FloorNeverZero /\ RowLocks /\ AdvisoryExclusive /\ Resolving /\ PassedStillTrue
  BY DEF IInv
<1>a. /\ UNCHANGED <<carrier, users>>
      /\ op' = op /\ target' = target
      /\ op[p] = "revoke" /\ pc'[p] \in {"lock", "floor"}
      /\ pc[p] \in {"begin", "lock"}
      /\ \A q \in Procs \ {p} :
            pc'[q] = pc[q] /\ snap'[q] = snap[q] /\ held'[q] = held[q] /\ rest'[q] = rest[q]
  BY <1>i DEF TypeOK, RowLocks, BeginRevoke, Locked, LockRow, Goto
<1>t. TypeOK'
  BY <1>i DEF TypeOK, BeginRevoke, Locked, LockRow, Goto, Stages, Remaining
<1>1. FloorNeverZero' BY <1>i, <1>a DEF FloorNeverZero
<1>2. RowLocks'
  <2>1. CASE BeginRevoke(p)
    BY <1>i, <1>a, <2>1 DEF TypeOK, RowLocks, BeginRevoke, Goto
  <2>2. CASE Locked(p)
    BY <1>i, <1>a, <2>2 DEF TypeOK, RowLocks, Locked, Goto
  <2>3. ASSUME NEW u \in Users, LockRow(p, u) PROVE RowLocks'
    BY <1>i, <1>a, <2>3 DEF TypeOK, RowLocks, LockRow, NextRow, RowLocked
  <2> QED BY <2>1, <2>2, <2>3
<1>3. AdvisoryExclusive' BY <1>i, <1>a DEF AdvisoryExclusive, HoldsAdvisory
<1>4. Resolving'
  <2>1. CASE Locked(p)
    BY <1>i, <1>a, <2>1 DEF TypeOK, Resolving, Locked, Goto, Remaining
  <2>2. CASE BeginRevoke(p) \/ \E u \in Users : LockRow(p, u)
    <3>1. pc'[p] = "lock" BY <1>i, <2>2 DEF TypeOK, BeginRevoke, LockRow, Goto
    <3> QED BY <1>i, <1>a, <3>1 DEF Resolving, Remaining
  <2> QED BY <2>1, <2>2
<1>5. PassedStillTrue' BY <1>i, <1>a DEF PassedStillTrue, Remaining
<1> QED BY <1>t, <1>1, <1>2, <1>3, <1>4, <1>5 DEF IInv

\* One lookup of the predicate, and the List an erasure starts from.
LEMMA ResolvePreserves ==
    ASSUME IInv, NEW p \in Procs,
           \/ ListForErase(p)
           \/ \E g \in Users : ResolveFound(p, g) \/ ResolveMissing(p, g)
    PROVE  IInv'
<1>i. TypeOK /\ FloorNeverZero /\ RowLocks /\ AdvisoryExclusive /\ Resolving /\ PassedStillTrue
  BY DEF IInv
<1>a. /\ UNCHANGED <<carrier, users, op, target, snap, held>>
      /\ pc'[p] \in {"floor", "write"}
      /\ pc[p] = "floor" \/ (pc[p] = "begin" /\ op[p] = "erase")
      /\ \A q \in Procs \ {p} : pc'[q] = pc[q] /\ rest'[q] = rest[q]
      /\ op[p] \in {"revoke", "erase"}
  BY <1>i DEF TypeOK, Resolving, ListForErase, ResolveFound, ResolveMissing, Goto
<1>t. TypeOK'
  BY <1>i DEF TypeOK, ListForErase, ResolveFound, ResolveMissing, Goto, Stages
<1>1. FloorNeverZero' BY <1>i, <1>a DEF FloorNeverZero
<1>2. RowLocks' BY <1>i, <1>a DEF RowLocks
<1>3. AdvisoryExclusive' BY <1>i, <1>a DEF AdvisoryExclusive, HoldsAdvisory
<1>4. Resolving'
  <2>1. CASE ListForErase(p)
    BY <1>i, <1>a, <2>1 DEF TypeOK, Resolving, ListForErase, Goto, Remaining
  <2>2. ASSUME NEW g \in Users, ResolveFound(p, g) PROVE Resolving'
    BY <1>i, <1>a, <2>2 DEF TypeOK, Resolving, ResolveFound, Goto, Remaining
  <2>3. ASSUME NEW g \in Users, ResolveMissing(p, g) PROVE Resolving'
    BY <1>i, <1>a, <2>3 DEF TypeOK, Resolving, ResolveMissing, Remaining
  <2> QED BY <2>1, <2>2, <2>3
<1>5. PassedStillTrue'
  <2>1. CASE ListForErase(p)
    BY <1>i, <1>a, <2>1 DEF TypeOK, FloorNeverZero, PassedStillTrue, ListForErase, Goto, Remaining
  <2>2. ASSUME NEW g \in Users, ResolveFound(p, g) PROVE PassedStillTrue'
    BY <1>i, <1>a, <2>2 DEF TypeOK, Resolving, PassedStillTrue, ResolveFound, NextGrant, Goto, Remaining
  <2>3. ASSUME NEW g \in Users, ResolveMissing(p, g) PROVE PassedStillTrue'
    BY <1>i, <1>a, <2>3 DEF TypeOK, PassedStillTrue, ResolveMissing, Remaining
  <2> QED BY <2>1, <2>2, <2>3
<1> QED BY <1>t, <1>1, <1>2, <1>3, <1>4, <1>5 DEF IInv

\* A grant only adds a row.
LEMMA GrantPreserves ==
    ASSUME IInv, NEW p \in Procs, CommitGrant(p)
    PROVE  IInv'
<1>i. TypeOK /\ FloorNeverZero /\ RowLocks /\ AdvisoryExclusive /\ Resolving /\ PassedStillTrue
  BY DEF IInv
<1>t. TypeOK' BY <1>i DEF TypeOK, CommitGrant, Return, Stages
<1>1. FloorNeverZero' BY <1>i DEF FloorNeverZero, CommitGrant
<1>2. RowLocks' BY <1>i DEF TypeOK, RowLocks, CommitGrant, Return
<1>3. AdvisoryExclusive' BY <1>i DEF TypeOK, AdvisoryExclusive, HoldsAdvisory, CommitGrant, Return
<1>4. Resolving' BY <1>i DEF TypeOK, Resolving, CommitGrant, Return, Remaining
<1>5. PassedStillTrue' BY <1>i DEF TypeOK, PassedStillTrue, CommitGrant, Return, Remaining
<1> QED BY <1>t, <1>1, <1>2, <1>3, <1>4, <1>5 DEF IInv

\* The row a revocation deletes is locked by nobody else, and no erasure is
\* under way beside it: a serialised one excludes it.
LEMMA RevokePreserves ==
    ASSUME IInv, NEW p \in Procs, CommitRevoke(p)
    PROVE  IInv'
<1>i. TypeOK /\ FloorNeverZero /\ RowLocks /\ AdvisoryExclusive /\ Resolving /\ PassedStillTrue
  BY DEF IInv
<1>a. /\ target[p] \in held[p]
      /\ held[p] \subseteq carrier
      /\ Remaining(p) \cap users # {}
      /\ \A q \in Procs \ {p} : target[p] \notin held[q]
      /\ users' = users /\ carrier' = carrier \ {target[p]}
      /\ \A q \in Procs \ {p} :
            /\ pc'[q] = pc[q] /\ op'[q] = op[q] /\ target'[q] = target[q]
            /\ held'[q] = held[q] /\ rest'[q] = rest[q]
      /\ pc'[p] = "idle" /\ held'[p] = {}
  BY <1>i DEF TypeOK, RowLocks, PassedStillTrue, CommitRevoke
<1>b. ASSUME NEW q \in Procs \ {p}, op[q] = "erase", pc[q] \in {"floor", "write"}
      PROVE  FALSE
  BY <1>i, <1>b, CarrierAssumption DEF TypeOK, AdvisoryExclusive, HoldsAdvisory, CommitRevoke
<1>t. TypeOK' BY <1>i DEF TypeOK, CommitRevoke, Stages
<1>1. FloorNeverZero' BY <1>a DEF FloorNeverZero, Remaining
<1>2. RowLocks' BY <1>i, <1>a DEF TypeOK, RowLocks, CommitRevoke
<1>3. AdvisoryExclusive' BY <1>i, <1>a DEF AdvisoryExclusive, HoldsAdvisory
<1>4. Resolving' BY <1>i, <1>a, <1>b DEF Resolving, Remaining
<1>5. PassedStillTrue' BY <1>i, <1>a, <1>b DEF PassedStillTrue, Remaining
<1> QED BY <1>t, <1>1, <1>2, <1>3, <1>4, <1>5 DEF IInv

\* An erasure removes a user whom no revocation or other erasure relies on:
\* none is past the advisory lock.
LEMMA ErasePreserves ==
    ASSUME IInv, NEW p \in Procs, EraseUser(p)
    PROVE  IInv'
<1>i. TypeOK /\ FloorNeverZero /\ RowLocks /\ AdvisoryExclusive /\ Resolving /\ PassedStillTrue
  BY DEF IInv
<1>a. /\ carrier' = carrier /\ users' = users \ {target[p]}
      /\ (carrier \ {target[p]}) \cap users # {}
      /\ \A q \in Procs \ {p} :
            /\ pc'[q] = pc[q] /\ op'[q] = op[q] /\ target'[q] = target[q]
            /\ held'[q] = held[q] /\ rest'[q] = rest[q]
      /\ pc'[p] = "idle"
  BY <1>i DEF TypeOK, PassedStillTrue, EraseUser, Return
<1>b. ASSUME NEW q \in Procs \ {p}, op[q] \in {"revoke", "erase"}, pc[q] = "write"
      PROVE  FALSE
  BY <1>i, <1>b, CarrierAssumption DEF TypeOK, AdvisoryExclusive, HoldsAdvisory, EraseUser
<1>t. TypeOK' BY <1>i DEF TypeOK, EraseUser, Return, Stages
<1>1. FloorNeverZero' BY <1>a DEF FloorNeverZero
<1>2. RowLocks' BY <1>i DEF TypeOK, RowLocks, EraseUser, Return
<1>3. AdvisoryExclusive' BY <1>i, <1>a DEF AdvisoryExclusive, HoldsAdvisory
<1>4. Resolving' BY <1>i, <1>a DEF Resolving, Remaining
<1>5. PassedStillTrue' BY <1>i, <1>a, <1>b DEF PassedStillTrue, Remaining
<1> QED BY <1>t, <1>1, <1>2, <1>3, <1>4, <1>5 DEF IInv

\* Every step preserves the invariant.
LEMMA StepPreserves == IInv /\ [Next]_vars => IInv'
<1> SUFFICES ASSUME IInv, [Next]_vars PROVE IInv'
  OBVIOUS
<1>1. CASE UNCHANGED vars
  BY <1>1 DEF IInv, TypeOK, FloorNeverZero, RowLocks, AdvisoryExclusive, Resolving,
              PassedStillTrue, HoldsAdvisory, Remaining, vars, callVars
<1>2. ASSUME NEW p \in Procs,
             \/ \E k \in Kinds, u \in Users : Call(p, k, u)
             \/ ProcNext(p)
             \/ Fail(p)
      PROVE  IInv'
  <2>1. CASE \E k \in Kinds, u \in Users : Call(p, k, u)
    BY <2>1, EntryPreserves
  <2>2. CASE Fail(p)
    BY <2>2, ReturnPreserves DEF Fail
  <2>3. CASE BeginSerialize(p) \/ TakeAdvisory(p) \/ BeginGrant(p)
    BY <2>3, EntryPreserves
  <2>4. CASE CommitGrant(p)
    BY <2>4, GrantPreserves
  <2>5. CASE AlreadyPlatformAdmin(p)
    BY <2>5, ReturnPreserves DEF AlreadyPlatformAdmin
  <2>6. CASE RevokeNext(p)
    <3>1. CASE NotPlatformAdmin(p)
      BY <3>1, ReturnPreserves DEF NotPlatformAdmin
    <3> QED BY <2>6, <3>1, LockingPreserves, RevokePreserves DEF RevokeNext
  <2>7. CASE FloorNext(p)
    <3>1. CASE IdentityUnavailable(p)
      BY <3>1, ReturnPreserves DEF IdentityUnavailable
    <3>2. CASE LastPlatformAdmin(p)
      BY <3>2, ReturnPreserves DEF LastPlatformAdmin
    <3> QED BY <2>7, <3>1, <3>2, ResolvePreserves DEF FloorNext
  <2>8. CASE ListForErase(p)
    BY <2>8, ResolvePreserves
  <2>9. CASE EraseUser(p)
    BY <2>9, ErasePreserves
  <2> QED BY <1>2, <2>1, <2>2, <2>3, <2>4, <2>5, <2>6, <2>7, <2>8, <2>9 DEF ProcNext
<1> QED BY <1>1, <1>2 DEF Next

\* IInv holds in every reachable state.
THEOREM Invariance == Spec => []IInv
  BY InitEstablishes, StepPreserves, PTL DEF Spec

\* Every variable of the carrier model keeps its type.
THEOREM TypeCorrect == Spec => []TypeOK
<1>1. IInv => TypeOK BY DEF IInv
<1> QED BY <1>1, Invariance, PTL

\* Revoke, the floor predicate and Serialize together never leave the
\* application without an administrator who exists.
THEOREM NeverZero == Spec => []FloorNeverZero
<1>1. IInv => FloorNeverZero BY DEF IInv
<1> QED BY <1>1, Invariance, PTL

\* The DELETE of Revoke always finds the row it locked.
THEOREM RowStillThere == Spec => []RevokedRowIsThere
<1>1. IInv => RevokedRowIsThere BY DEF IInv, RowLocks, TypeOK, RevokedRowIsThere
<1> QED BY <1>1, Invariance, PTL

\* ErrLastPlatformAdmin is returned only when no other grant is exercisable.
THEOREM HonestVerdict == Spec => LastVerdictIsTrue
<1>1. IInv /\ [Next]_vars =>
        [\A p \in Procs :
            LastPlatformAdmin(p) /\ op[p] = "revoke" => Remaining(p) \cap users = {}]_vars
  BY DEF IInv, Resolving, LastPlatformAdmin
<1> QED BY <1>1, Invariance, PTL DEF Spec, LastVerdictIsTrue

\* Every step of the carrier is a step of AdminFloor or changes nothing there.
LEMMA StepRefines ==
    ASSUME IInv, [Next]_vars
    PROVE  [Floor!FloorNext]_(Floor!floorVars)
<1> USE DEF Floor!floorVars
<1>1. CASE UNCHANGED vars
  BY <1>1 DEF vars
<1>2. ASSUME NEW p \in Procs,
             \/ \E k \in Kinds, u \in Users : Call(p, k, u)
             \/ ProcNext(p)
             \/ Fail(p)
      PROVE  [Floor!FloorNext]_(Floor!floorVars)
  <2>1. CASE CommitGrant(p)
    <3>1. target[p] \in Users BY <2>1 DEF CommitGrant, IInv, TypeOK
    <3>2. Floor!Grant(target[p]) BY <2>1 DEF CommitGrant, Floor!Grant
    <3> QED BY <3>1, <3>2 DEF Floor!FloorNext
  <2>2. CASE CommitRevoke(p)
    <3>1. target[p] \in Users BY <2>2 DEF CommitRevoke, IInv, TypeOK
    <3>2. held[p] \subseteq carrier /\ Remaining(p) \cap users # {}
      BY <2>2 DEF CommitRevoke, IInv, RowLocks, PassedStillTrue
    <3>3. Floor!Revoke(target[p])
      BY <2>2, <3>2 DEF CommitRevoke, Remaining, Floor!Revoke, Floor!Exercisable
    <3> QED BY <3>1, <3>3 DEF Floor!FloorNext
  <2>3. CASE EraseUser(p)
    <3>1. target[p] \in Users BY <2>3 DEF EraseUser, IInv, TypeOK
    <3>2. (carrier \ {target[p]}) \cap users # {}
      BY <2>3 DEF EraseUser, IInv, PassedStillTrue
    <3>3. Floor!Erase(target[p])
      BY <2>3, <3>2 DEF EraseUser, Floor!Erase, Floor!Exercisable
    <3> QED BY <3>1, <3>3 DEF Floor!FloorNext
  <2>4. CASE UNCHANGED <<carrier, users>>
    BY <2>4
  <2> QED BY <1>2, <2>1, <2>2, <2>3, <2>4
      DEF ProcNext, RevokeNext, FloorNext, Call, Fail, BeginSerialize, TakeAdvisory, BeginGrant,
          AlreadyPlatformAdmin, BeginRevoke, Locked, NotPlatformAdmin, LockRow,
          IdentityUnavailable, LastPlatformAdmin, ResolveFound, ResolveMissing, ListForErase
<1> QED BY <1>1, <1>2 DEF Next

\* The concurrent carrier implements the atomic administrator floor.
THEOREM Refinement == Spec => FloorRefined
<1>1. Init => Floor!FloorInit
  BY DEF Init, Floor!FloorInit, Floor!Exercisable
<1>2. IInv /\ [Next]_vars => [Floor!FloorNext]_(Floor!floorVars)
  BY StepRefines
<1> QED BY <1>1, <1>2, Invariance, PTL DEF Spec, FloorRefined, Floor!FloorSpec

-------------------------------------------------------------------------------
(* Nobody waits for ever because everybody does.                           *)

\* A non-empty set of rows has a first one.
LEMMA FirstRow ==
    ASSUME NEW S \in SUBSET Nat, S # {}
    PROVE  \E u \in S : \A v \in S : u <= v
<1>1. \E u \in S : \A v \in S : ~(<<v, u>> \in OpToRel(<, Nat))
  BY WFMin, NatLessThanWellFounded
<1>2. PICK u \in S : \A v \in S : ~(<<v, u>> \in OpToRel(<, Nat))
  BY <1>1
<1>3. \A v \in S : ~(v < u)
  BY <1>2 DEF OpToRel
<1> QED BY <1>3

\* A finite non-empty set of rows has a last one: the one with the fewest
\* rows above it.
LEMMA LastRow ==
    ASSUME NEW S \in SUBSET Nat, IsFiniteSet(S), S # {}
    PROVE  \E u \in S : \A v \in S : v <= u
<1> DEFINE Above(u) == {v \in S : u < v}
           K == {k \in Nat : \E u \in S : k = Cardinality(Above(u))}
<1>0. S \subseteq Nat
  OBVIOUS
<1>1. \A u \in S : IsFiniteSet(Above(u)) /\ Cardinality(Above(u)) \in Nat
  BY FS_Subset, FS_CardinalityType
<1>2. K # {} /\ K \in SUBSET Nat
  <2>1. K \in SUBSET Nat
    OBVIOUS
  <2>2. PICK u \in S : TRUE
    OBVIOUS
  <2>3. Cardinality(Above(u)) \in K
    <3> HIDE DEF Above
    <3> QED BY <1>1
  <2> QED BY <2>1, <2>3
<1>3. PICK k \in K : \A j \in K : k <= j
  <2> HIDE DEF K
  <2> QED BY <1>2, FirstRow
<1>4. PICK u \in S : k = Cardinality(Above(u))
  OBVIOUS
<1>5. ASSUME NEW v \in S, u < v PROVE FALSE
  <2>1. Above(v) \subseteq Above(u)
    <3>1. \A w \in S : v < w => u < w
      BY <1>0, <1>5
    <3> QED BY <3>1
  <2>2. v \in Above(u) /\ v \notin Above(v)
    BY <1>0, <1>5
  <2> HIDE DEF Above
  <2>3. Cardinality(Above(v)) <= Cardinality(Above(u)) /\ Cardinality(Above(v)) # Cardinality(Above(u))
    BY <1>1, <2>1, <2>2, FS_Subset
  <2>4. Cardinality(Above(v)) \in K
    BY <1>1
  <2>5. k <= Cardinality(Above(v))
    <3> HIDE DEF K
    <3> QED BY <1>3, <2>4
  <2> QED BY <1>1, <1>4, <2>3, <2>5
<1>6. \A v \in S : v <= u
  BY <1>0, <1>5
<1> QED BY <1>6

\* The lock statement takes the rows of its snapshot in order, so what it holds
\* comes before what it still wants.
LEMMA OrderKept ==
    ASSUME IInv, LockOrder, [Next]_vars
    PROVE  LockOrder'
<1> SUFFICES ASSUME NEW q \in Procs, NEW u \in held'[q], NEW v \in snap'[q] PROVE u < v
  BY DEF LockOrder
<1>t. TypeOK /\ RowLocks
  BY DEF IInv
<1>o. \A x \in held[q], y \in snap[q] : x < y
  BY DEF LockOrder
<1>n. \A p \in Procs : held[p] \subseteq Nat /\ snap[p] \subseteq Nat
  BY <1>t, CarrierAssumption DEF TypeOK
<1>1. ASSUME held'[q] \subseteq held[q], snap'[q] \subseteq snap[q] PROVE u < v
  BY <1>1, <1>o
<1>2. ASSUME NEW p \in Procs, Return(p) PROVE u < v
  BY <1>2, <1>1, <1>t DEF Return, TypeOK
<1>3. ASSUME NEW p \in Procs, BeginRevoke(p) PROVE u < v
  <2>1. held' = held /\ \A x \in Procs \ {p} : snap'[x] = snap[x]
    BY <1>3, <1>t DEF BeginRevoke, TypeOK
  <2>2. held[p] = {}
    BY <1>3, <1>t DEF BeginRevoke, RowLocks
  <2> QED BY <2>1, <2>2, <1>1
<1>4. ASSUME NEW p \in Procs, NEW w \in Users, LockRow(p, w) PROVE u < v
  <2>1. /\ \A x \in Procs \ {p} : snap'[x] = snap[x] /\ held'[x] = held[x]
        /\ snap'[p] = snap[p] \ {w} /\ held'[p] = held[p] \cup {w}
    BY <1>4, <1>t DEF LockRow, TypeOK
  <2>2. w \in snap[p] /\ \A x \in snap[p] : w <= x
    BY <1>4 DEF LockRow, NextRow
  <2>3. CASE q # p
    BY <2>1, <2>3, <1>1
  <2>4. CASE q = p /\ u # w
    BY <2>1, <2>4, <1>o
  <2>5. CASE q = p /\ u = w
    <3>1. v \in snap[p] /\ v # w /\ w <= v /\ w \in Nat /\ v \in Nat
      BY <2>1, <2>2, <2>5, <1>n
    <3> QED BY <3>1, <2>5
  <2> QED BY <2>3, <2>4, <2>5
<1>5. ASSUME NEW p \in Procs, CommitRevoke(p) PROVE u < v
  <2>1. held'[q] \subseteq held[q] /\ snap'[q] \subseteq snap[q]
    BY <1>5, <1>t DEF CommitRevoke, TypeOK
  <2> QED BY <2>1, <1>1
<1>6. ASSUME UNCHANGED <<held, snap>> PROVE u < v
  BY <1>6, <1>o
<1>7. ASSUME NEW p \in Procs,
             \/ \E k \in Kinds, x \in Users : Call(p, k, x)
             \/ ProcNext(p)
             \/ Fail(p)
      PROVE  u < v
  BY <1>2, <1>3, <1>4, <1>5, <1>6, <1>7
  DEF ProcNext, RevokeNext, FloorNext, Call, Fail, BeginSerialize, TakeAdvisory, BeginGrant,
      CommitGrant, AlreadyPlatformAdmin, Locked, NotPlatformAdmin, IdentityUnavailable,
      LastPlatformAdmin, ResolveFound, ResolveMissing, ListForErase, EraseUser
<1>8. CASE UNCHANGED vars
  BY <1>6, <1>8 DEF vars, callVars
<1> QED BY <1>7, <1>8 DEF Next

\* A call past its locks is ready.
LEMMA PastTheLocks ==
    ASSUME IInv, NEW p \in Procs, pc[p] \in {"floor", "write"}
    PROVE  Ready(p)
<1>1. CASE pc[p] = "floor"
  <2>1. rest[p] \in SUBSET Nat /\ rest[p] \subseteq Users
    BY CarrierAssumption DEF IInv, TypeOK
  <2>2. CASE rest[p] # {}
    <3>1. PICK g \in rest[p] : \A v \in rest[p] : g <= v
      BY <2>1, <2>2, FirstRow
    <3>2. g \in Users /\ NextGrant(p, g)
      BY <2>1, <3>1 DEF NextGrant
    <3> QED BY <1>1, <3>2 DEF Ready
  <2>3. CASE rest[p] = {}
    BY <1>1, <2>3 DEF Ready
  <2> QED BY <2>2, <2>3
<1>2. CASE pc[p] = "write"
  BY <1>2 DEF IInv, RowLocks, Ready
<1> QED BY <1>1, <1>2

\* A call that waits for a row waits for a call that is past its locks, or that
\* waits for a later row.
LEMMA WaitsForLater ==
    ASSUME IInv, LockOrder, NEW p \in Procs, pc[p] = "lock", ~Ready(p),
           \A q \in Procs : pc[q] \in {"floor", "write"} => Ready(q)
    PROVE  \E u \in Users : NextRow(p, u) /\
             \E q \in Procs :
                \/ Ready(q)
                \/ pc[q] = "lock" /\ \A v \in snap[q] : u < v
<1>1. snap[p] # {} /\ snap[p] \in SUBSET Nat /\ snap[p] \subseteq Users
  BY CarrierAssumption DEF Ready, IInv, TypeOK
<1>2. PICK u \in snap[p] : \A v \in snap[p] : u <= v
  BY <1>1, FirstRow
<1>3. u \in Users /\ NextRow(p, u) /\ RowLocked(p, u)
  BY <1>1, <1>2 DEF NextRow, Ready
<1>4. PICK q \in Procs : u \in held[q]
  BY <1>3 DEF RowLocked
<1>5. pc[q] \in {"lock", "floor", "write"}
  BY <1>4 DEF IInv, RowLocks
<1>6. \A v \in snap[q] : u < v
  BY <1>4 DEF LockOrder
<1> QED BY <1>3, <1>5, <1>6

\* Without a call past its locks, nobody is stuck at the row locks: the call
\* that waits for the last row waits for somebody who can go on.
LEMMA RowWaitsEnd ==
    ASSUME IInv, LockOrder, NEW p0 \in Procs, pc[p0] = "lock"
    PROVE  \E p \in Procs : Ready(p)
<1> SUFFICES ASSUME \A p \in Procs : ~Ready(p) PROVE FALSE
  OBVIOUS
<1> DEFINE W == {p \in Procs : pc[p] = "lock"}
           Wanted == {u \in Users : \E p \in W : NextRow(p, u)}
           want == [p \in W |-> CHOOSE u \in Users : NextRow(p, u)]
<1>1. \A p \in Procs : pc[p] \notin {"floor", "write"}
  BY PastTheLocks
<1>2. ASSUME NEW p \in W
      PROVE  \E u \in Users : NextRow(p, u) /\ \E q \in W : \A v \in snap[q] : u < v
  BY <1>1, WaitsForLater
<1>3. \A p \in W : \A u, v \in Users : NextRow(p, u) /\ NextRow(p, v) => u = v
  <2>1. Users \subseteq Nat
    BY CarrierAssumption
  <2> QED BY <2>1 DEF NextRow
<1>4. want \in Surjection(W, Wanted)
  <2>1. \A p \in W : want[p] \in Users /\ NextRow(p, want[p])
    BY <1>2
  <2>2. want \in [W -> Wanted]
    BY <2>1
  <2>3. ASSUME NEW u \in Wanted PROVE \E p \in W : want[p] = u
    <3>1. PICK p \in W : NextRow(p, u)
      OBVIOUS
    <3> HIDE DEF want, W
    <3> QED BY <2>1, <3>1, <1>3
  <2> HIDE DEF want, W, Wanted
  <2> QED BY <2>2, <2>3 DEF Surjection
<1>5. IsFiniteSet(Wanted)
  <2>1. IsFiniteSet(W)
    <3>1. W \in SUBSET Procs
      OBVIOUS
    <3> HIDE DEF W
    <3> QED BY <3>1, PoolAssumption, FS_Subset
  <2> HIDE DEF want, W, Wanted
  <2> QED BY <2>1, <1>4, FS_Surjection
<1>6. Wanted # {} /\ Wanted \in SUBSET Nat
  <2>1. p0 \in W
    OBVIOUS
  <2>2. PICK u \in Users : NextRow(p0, u)
    BY <1>2, <2>1
  <2>3. Users \subseteq Nat
    BY CarrierAssumption
  <2> QED BY <2>1, <2>2, <2>3
<1>7. PICK m \in Wanted : \A v \in Wanted : v <= m
  <2> HIDE DEF Wanted
  <2> QED BY <1>5, <1>6, LastRow
<1>8. PICK p \in W : NextRow(p, m)
  OBVIOUS
<1>9. PICK q \in W : \A v \in snap[q] : m < v
  BY <1>2, <1>3, <1>8
<1>10. PICK w \in Users : NextRow(q, w)
  BY <1>2, <1>9
<1>11. w \in Wanted /\ m < w
  BY <1>9, <1>10 DEF NextRow
<1>12. m \in Nat /\ w \in Nat /\ w <= m
  <2> HIDE DEF Wanted
  <2> QED BY <1>6, <1>7, <1>11
<1> QED BY <1>11, <1>12

\* Before the row locks, the pool has a connection for everybody: each call pins
\* at most one there.
LEMMA PoolSuffices ==
    ASSUME IInv, \A p \in Procs : pc[p] \notin {"lock", "floor", "write"}
    PROVE  InUse < Pool
<1>1. {p \in Procs : WorkTx(p)} = {}
  BY DEF WorkTx
<1>2. {p \in Procs : LockTx(p)} \in SUBSET Procs
  OBVIOUS
<1>3. Cardinality({p \in Procs : LockTx(p)}) <= Cardinality(Procs)
  BY <1>2, PoolAssumption, FS_Subset
<1>4. /\ Cardinality({p \in Procs : LockTx(p)}) \in Nat
      /\ Cardinality(Procs) \in Nat
      /\ Cardinality({p \in Procs : WorkTx(p)}) = 0
  BY <1>1, <1>2, PoolAssumption, FS_Subset, FS_CardinalityType, FS_EmptySet
<1> QED BY <1>3, <1>4, PoolAssumption DEF InUse

\* Row locks, the advisory lock and the pool never form a cycle of waits, for
\* any number of handlers, serialised or not: whenever a call is running, one
\* can take its next step.
THEOREM WaitsAreAcyclic == Spec => []NoDeadlock
<1>1. Init => LockOrder
  BY DEF Init, LockOrder
<1>2. IInv /\ LockOrder => NoDeadlock
  <2> SUFFICES ASSUME IInv, LockOrder, NEW p0 \in Procs, pc[p0] # "idle"
               PROVE  \E p \in Procs : Ready(p)
    BY DEF NoDeadlock
  <2>1. CASE \E p \in Procs : pc[p] \in {"floor", "write"}
    BY <2>1, PastTheLocks
  <2>2. CASE \E p \in Procs : pc[p] = "lock"
    BY <2>2, RowWaitsEnd
  <2>3. CASE \A p \in Procs : pc[p] \notin {"lock", "floor", "write"}
    <3>1. InUse < Pool
      BY <2>3, PoolSuffices
    <3>2. CASE \E p \in Procs : pc[p] \in {"serialize", "begin"}
      BY <3>1, <3>2 DEF Ready
    <3>3. CASE \A p \in Procs : pc[p] \notin {"serialize", "begin"}
      <4>1. pc[p0] = "advisory"
        BY <2>3, <3>3 DEF IInv, TypeOK, Stages
      <4>2. \A q \in Procs : ~HoldsAdvisory(q)
        BY <2>3, <3>3 DEF HoldsAdvisory
      <4> QED BY <4>1, <4>2 DEF Ready
    <3> QED BY <3>2, <3>3
  <2> QED BY <2>1, <2>2, <2>3
<1>3. IInv /\ LockOrder /\ [Next]_vars => LockOrder'
  BY OrderKept
<1> QED BY <1>1, <1>2, <1>3, Invariance, PTL DEF Spec

-------------------------------------------------------------------------------
(* Calls go forward.                                                       *)

\* The call of p is later, or where it was with no more to do.
Forward(p) ==
    /\ op'[p] = op[p] /\ target'[p] = target[p]
    /\ \/ StageOrder[pc[p]] < StageOrder[pc'[p]]
       \/ /\ pc'[p] = pc[p]
          /\ snap'[p] \subseteq snap[p] /\ rest'[p] \subseteq rest[p]
          /\ ProcNext(p) => snap'[p] # snap[p] \/ rest'[p] # rest[p]

\* A step that does not end the call is a move to a later stage...
LEMMA LaterStage ==
    ASSUME TypeOK, NEW p \in Procs, NEW stage \in Stages, Goto(p, stage),
           StageOrder[pc[p]] < StageOrder[stage]
    PROVE  Forward(p)
  BY DEF TypeOK, Goto, Forward

\* ...or one row locked, or one grant resolved.
LEMMA OneFewer ==
    ASSUME TypeOK, NEW p \in Procs, NEW u \in Users,
           LockRow(p, u) \/ ResolveMissing(p, u)
    PROVE  Forward(p)
<1>1. CASE LockRow(p, u)
  <2>1. pc' = pc /\ op' = op /\ target' = target /\ rest' = rest BY <1>1 DEF LockRow
  <2>2. u \in snap[p] /\ snap'[p] = snap[p] \ {u} BY <1>1 DEF LockRow, NextRow, TypeOK
  <2> QED BY <2>1, <2>2 DEF Forward
<1>2. CASE ResolveMissing(p, u)
  <2>1. pc' = pc /\ op' = op /\ target' = target /\ snap' = snap BY <1>2 DEF ResolveMissing
  <2>2. u \in rest[p] /\ rest'[p] = rest[p] \ {u} BY <1>2 DEF ResolveMissing, NextGrant, TypeOK
  <2> QED BY <2>1, <2>2 DEF Forward
<1> QED BY <1>1, <1>2

\* The steps of p itself.
LEMMA OwnStepForward ==
    ASSUME IInv, NEW p \in Procs, ProcNext(p), pc'[p] # "idle"
    PROVE  Forward(p)
<1>i. TypeOK BY DEF IInv
<1>s. \A s \in {"serialize", "advisory", "begin", "lock", "floor", "write"} : s \in Stages
  BY DEF Stages
<1>r. ~Return(p)
  BY <1>i DEF Return, TypeOK
<1>1. CASE BeginSerialize(p)
  BY <1>i, <1>s, <1>1, LaterStage DEF BeginSerialize, StageOrder
<1>2. CASE TakeAdvisory(p)
  BY <1>i, <1>s, <1>2, LaterStage DEF TakeAdvisory, StageOrder
<1>3. CASE BeginGrant(p)
  BY <1>i, <1>s, <1>3, LaterStage DEF BeginGrant, StageOrder
<1>4. CASE BeginRevoke(p)
  BY <1>i, <1>s, <1>4, LaterStage DEF BeginRevoke, StageOrder
<1>5. CASE Locked(p)
  BY <1>i, <1>s, <1>5, LaterStage DEF Locked, StageOrder
<1>6. ASSUME NEW g \in Users, ResolveFound(p, g) PROVE Forward(p)
  BY <1>i, <1>s, <1>6, LaterStage DEF ResolveFound, StageOrder
<1>7. CASE ListForErase(p)
  <2>1. CASE target[p] \in carrier
    BY <1>i, <1>s, <1>7, <2>1, LaterStage DEF ListForErase, StageOrder
  <2>2. CASE target[p] \notin carrier
    BY <1>i, <1>s, <1>7, <2>2, LaterStage DEF ListForErase, StageOrder
  <2> QED BY <2>1, <2>2
<1>8. ASSUME NEW u \in Users, LockRow(p, u) \/ ResolveMissing(p, u) PROVE Forward(p)
  BY <1>i, <1>8, OneFewer
<1>9. ~CommitRevoke(p)
  BY <1>i DEF CommitRevoke, TypeOK
<1> QED BY <1>r, <1>1, <1>2, <1>3, <1>4, <1>5, <1>6, <1>7, <1>8, <1>9
    DEF ProcNext, RevokeNext, FloorNext, CommitGrant, AlreadyPlatformAdmin, NotPlatformAdmin,
        IdentityUnavailable, LastPlatformAdmin, EraseUser

\* Nobody else's step touches the call, but for a row it waits for that goes.
LEMMA OthersStepForward ==
    ASSUME IInv, NEW p \in Procs, NEW q \in Procs, q # p, ~ProcNext(p),
           \/ \E k \in Kinds, u \in Users : Call(q, k, u)
           \/ ProcNext(q)
           \/ Fail(q)
    PROVE  Forward(p)
<1>i. TypeOK BY DEF IInv
<1>1. ASSUME pc'[p] = pc[p], op'[p] = op[p], target'[p] = target[p],
             snap'[p] \subseteq snap[p], rest'[p] = rest[p]
      PROVE  Forward(p)
  BY <1>1 DEF Forward
<1>2. CASE Return(q)
  BY <1>i, <1>1, <1>2 DEF Return, TypeOK
<1>3. ASSUME NEW k \in Kinds, NEW u \in Users, Call(q, k, u) PROVE Forward(p)
  BY <1>i, <1>1, <1>3 DEF Call, TypeOK
<1>4. CASE BeginSerialize(q) \/ TakeAdvisory(q) \/ BeginGrant(q) \/ BeginRevoke(q) \/ Locked(q)
           \/ ListForErase(q)
  BY <1>i, <1>1, <1>4
  DEF BeginSerialize, TakeAdvisory, BeginGrant, BeginRevoke, Locked, ListForErase, Goto, TypeOK
<1>5. ASSUME NEW u \in Users, LockRow(q, u) \/ ResolveFound(q, u) \/ ResolveMissing(q, u)
      PROVE  Forward(p)
  BY <1>i, <1>1, <1>5 DEF LockRow, ResolveFound, ResolveMissing, Goto, TypeOK
<1>6. CASE CommitRevoke(q)
  BY <1>i, <1>1, <1>6 DEF CommitRevoke, TypeOK
<1> QED BY <1>2, <1>3, <1>4, <1>5, <1>6
    DEF ProcNext, RevokeNext, FloorNext, CommitGrant, AlreadyPlatformAdmin, NotPlatformAdmin,
        IdentityUnavailable, LastPlatformAdmin, EraseUser, Fail

\* With WaitsAreAcyclic, the safety half of CallsReturn: some running call can
\* always move, and every move brings a call closer to its end.
THEOREM NothingIsRepeated == Spec => CallsGoForward
<1>1. ASSUME IInv, Next, NEW p \in Procs, pc[p] # "idle", pc'[p] # "idle" PROVE Forward(p)
  <2>1. CASE ProcNext(p) BY <1>1, <2>1, OwnStepForward
  <2>2. CASE ~ProcNext(p)
    <3>1. PICK q \in Procs :
              \/ \E k \in Kinds, u \in Users : Call(q, k, u)
              \/ ProcNext(q)
              \/ Fail(q)
      BY <1>1 DEF Next
    <3>2. q # p BY <1>1, <2>2, <3>1 DEF Call, Fail, Return, IInv, TypeOK
    <3> QED BY <1>1, <2>2, <3>1, <3>2, OthersStepForward
  <2> QED BY <2>1, <2>2
<1>2. IInv /\ [Next]_vars =>
        [\A p \in Procs : pc[p] # "idle" /\ pc'[p] # "idle" =>
            /\ op'[p] = op[p] /\ target'[p] = target[p]
            /\ \/ StageOrder[pc[p]] < StageOrder[pc'[p]]
               \/ /\ pc'[p] = pc[p]
                  /\ snap'[p] \subseteq snap[p] /\ rest'[p] \subseteq rest[p]
                  /\ ProcNext(p) => snap'[p] # snap[p] \/ rest'[p] # rest[p]]_vars
  BY <1>1 DEF Forward
<1> QED BY <1>2, Invariance, PTL DEF Spec, CallsGoForward
===============================================================================
