------------------------ MODULE TemplateReconcileProofs ------------------------
(***************************************************************************)
(* Proofs about TemplateReconcile, for any principals, templates, keys,     *)
(* scope grammar, page size, batch cap and number of concurrent writers,    *)
(* reductions and key handlers.                                             *)
(***************************************************************************)
EXTENDS TemplateReconcile, FiniteSetTheorems, TLAPS

\* What no scope covers, any scopes cover: it asks for nothing.
LEMMA EmptyAuthority ==
    ASSUME NEW have, NEW granted, AuthorityRetained(have, {})
    PROVE  AuthorityRetained(have, granted)
  BY DEF AuthorityRetained, HasScope

\* In an initial state every key is covered and no call runs.
LEMMA InitEstablishes == Init => IInv
<1> SUFFICES ASSUME Init PROVE IInv
  OBVIOUS
<1>1. TypeOK
  BY ReconcileAssumption DEF Init, TypeOK, Roles, Stages
<1>2. OnlyLateKeysStranded
  BY DEF Init, OnlyLateKeysStranded
<1>3. ASSUME NEW t \in Txs PROVE RowLocks(t)
  BY DEF Init, RowLocks
<1>4. ASSUME NEW w \in Writers PROVE CallShape(w) /\ PageKeys(w) /\ SweptBehind(w)
  BY DEF Init, CallShape, PageKeys, SweptBehind, Txs
<1>5. ASSUME NEW p \in Reducers
      PROVE  ReductionShape(p) /\ ReductionAuthority(p) /\ ReductionRead(p)
  BY DEF Init, ReductionShape, ReductionAuthority, ReductionRead, Txs
<1> QED BY <1>1, <1>2, <1>3, <1>4, <1>5 DEF IInv

-------------------------------------------------------------------------------
(* Whoever does not take a step keeps its part of the invariant.           *)

\* The other transactions and calls keep what is their own.
OthersKeep(t) ==
    /\ \A v \in Txs \ {t} : pc'[v] = pc[v] /\ locked'[v] = locked[v]
    /\ \A v \in Writers \ {t} :
           /\ tpl'[v] = tpl[v] /\ prop'[v] = prop[v] /\ kind'[v] = kind[v]
           /\ cursor'[v] = cursor[v] /\ batches'[v] = batches[v] /\ page'[v] = page[v]

\* What a run has still to read depends on its own progress only.
LEMMA AheadSame ==
    ASSUME NEW v \in Writers, pc'[v] = pc[v], cursor'[v] = cursor[v], page'[v] = page[v]
    PROVE  \A q : Ahead(v, q)' <=> Ahead(v, q)
  BY DEF Ahead, LastPage

\* A reduction that takes no step, while keys may go and templates stay.
LEMMA ReductionKept ==
    ASSUME NEW p \in Reducers,
           ReductionShape(p), ReductionAuthority(p), ReductionRead(p),
           pc'[p] = pc[p], who' = who, to'[p] = to[p], auth'[p] = auth[p],
           overtaken' = overtaken, exists' = exists, grants' = grants,
           locked'[p] = locked[p], want'[p] \subseteq want[p],
           \A k \in live' \ late' :
               /\ k \in live \ late /\ scopes'[k] = scopes[k]
               /\ k \in want[p] => k \in want'[p]
    PROVE  ReductionShape(p)' /\ ReductionAuthority(p)' /\ ReductionRead(p)'
<1>1. ReductionShape(p)'
  BY DEF ReductionShape
<1>2. ReductionAuthority(p)'
  BY DEF ReductionAuthority, Authority
<1>3. ReductionRead(p)'
  BY DEF ReductionRead
<1> QED BY <1>1, <1>2, <1>3

\* It is enough that the writer itself keeps its part of the invariant.
LEMMA CallPreserves ==
    ASSUME IInv, NEW w \in Writers,
           UNCHANGED <<role, exists, grants, scopes, late, who, to, auth, overtaken>>,
           OthersKeep(w),
           \A t \in Txs \ {w} : want'[t] = want[t],
           \A v \in Writers \ {w} : moved'[v] = moved[v],
           TypeOK', RowLocks(w)', CallShape(w)', PageKeys(w)', SweptBehind(w)'
    PROVE  IInv'
<1>0. live' = live
  BY DEF live
<1>1. OnlyLateKeysStranded'
  BY <1>0 DEF IInv, OnlyLateKeysStranded, Covered, Authority
<1>2. ASSUME NEW t \in Txs \ {w} PROVE RowLocks(t)'
  <2>1. RowLocks(t) /\ want'[t] = want[t] /\ locked'[t] = locked[t]
    BY <1>2 DEF IInv, OthersKeep
  <2>2. ASSUME NEW u \in Txs \ {t} PROVE locked'[t] \cap locked'[u] = {}
    <3>1. CASE u = w
      BY <1>2, <3>1 DEF RowLocks
    <3>2. CASE u # w
      BY <2>1, <3>2 DEF RowLocks, OthersKeep
    <3> QED BY <3>1, <3>2
  <2> QED BY <1>0, <2>1, <2>2 DEF RowLocks
<1>3. ASSUME NEW v \in Writers \ {w} PROVE CallShape(v)' /\ PageKeys(v)' /\ SweptBehind(v)'
  <2>0. /\ CallShape(v) /\ PageKeys(v) /\ SweptBehind(v)
        /\ pc'[v] = pc[v] /\ locked'[v] = locked[v] /\ want'[v] = want[v]
        /\ tpl'[v] = tpl[v] /\ prop'[v] = prop[v] /\ kind'[v] = kind[v]
        /\ cursor'[v] = cursor[v] /\ batches'[v] = batches[v] /\ page'[v] = page[v]
    BY <1>3 DEF IInv, OthersKeep, Txs
  <2>1. CallShape(v)'
    BY <2>0 DEF CallShape
  <2>2. PageKeys(v)'
    BY <1>3, <2>0 DEF PageKeys
  <2>3. SweptBehind(v)'
    BY <1>0, <1>3, <2>0, AheadSame DEF SweptBehind
  <2> QED BY <2>1, <2>2, <2>3
<1>4. ASSUME NEW p \in Reducers
      PROVE  ReductionShape(p)' /\ ReductionAuthority(p)' /\ ReductionRead(p)'
  <2>1. p \in Txs \ {w}
    BY ReconcileAssumption DEF Txs
  <2>2. pc'[p] = pc[p] /\ locked'[p] = locked[p] /\ want'[p] = want[p]
    BY <2>1 DEF OthersKeep
  <2>3. ReductionShape(p) /\ ReductionAuthority(p) /\ ReductionRead(p)
    BY DEF IInv
  <2> QED BY <1>0, <2>2, <2>3, ReductionKept
<1>5. \A t \in Txs : RowLocks(t)'
  BY <1>2
<1>6. \A v \in Writers : CallShape(v)' /\ PageKeys(v)' /\ SweptBehind(v)'
  BY <1>3
<1> QED BY <1>1, <1>4, <1>5, <1>6 DEF IInv

\* And that a reduction, before it commits, keeps its own.
LEMMA ReductionPreserves ==
    ASSUME IInv, NEW p \in Reducers,
           UNCHANGED <<role, exists, grants, scopes, late, tpl, prop, kind>>,
           UNCHANGED <<page, moved, cursor, batches>>,
           \A t \in Txs \ {p} : pc'[t] = pc[t] /\ locked'[t] = locked[t] /\ want'[t] = want[t],
           \A o \in Reducers \ {p} :
               /\ who'[o] = who[o] /\ to'[o] = to[o] /\ auth'[o] = auth[o]
               /\ o \in overtaken' <=> o \in overtaken
               /\ pc[o] # "idle" => who[o] # who'[p],
           TypeOK', RowLocks(p)', ReductionShape(p)', ReductionAuthority(p)', ReductionRead(p)'
    PROVE  IInv'
<1>0. live' = live
  BY DEF live
<1>1. OnlyLateKeysStranded'
  BY <1>0 DEF IInv, OnlyLateKeysStranded, Covered, Authority
<1>2. ASSUME NEW t \in Txs \ {p} PROVE RowLocks(t)'
  <2>1. RowLocks(t) /\ want'[t] = want[t] /\ locked'[t] = locked[t]
    BY <1>2 DEF IInv
  <2>2. ASSUME NEW u \in Txs \ {t} PROVE locked'[t] \cap locked'[u] = {}
    <3>1. CASE u = p
      BY <1>2, <3>1 DEF RowLocks
    <3>2. CASE u # p
      BY <2>1, <3>2 DEF RowLocks
    <3> QED BY <3>1, <3>2
  <2> QED BY <1>0, <2>1, <2>2 DEF RowLocks
<1>3. ASSUME NEW v \in Writers PROVE CallShape(v)' /\ PageKeys(v)' /\ SweptBehind(v)'
  <2>1. v \in Txs \ {p}
    BY ReconcileAssumption DEF Txs
  <2>2. pc'[v] = pc[v] /\ locked'[v] = locked[v] /\ want'[v] = want[v]
    BY <2>1
  <2>3. CallShape(v) /\ PageKeys(v) /\ SweptBehind(v)
    BY DEF IInv
  <2>4. CallShape(v)' /\ PageKeys(v)'
    BY <2>2, <2>3 DEF CallShape, PageKeys
  <2>5. SweptBehind(v)'
    BY <1>0, <2>2, <2>3, AheadSame DEF SweptBehind
  <2> QED BY <2>4, <2>5
<1>4. ASSUME NEW o \in Reducers \ {p}
      PROVE  ReductionShape(o)' /\ ReductionAuthority(o)' /\ ReductionRead(o)'
  <2>1. o \in Txs \ {p}
    BY DEF Txs
  <2>2. /\ pc'[o] = pc[o] /\ locked'[o] = locked[o] /\ want'[o] = want[o]
        /\ who'[o] = who[o] /\ to'[o] = to[o] /\ auth'[o] = auth[o]
        /\ o \in overtaken' <=> o \in overtaken
    BY <2>1
  <2>3. ReductionShape(o) /\ ReductionAuthority(o) /\ ReductionRead(o)
    BY DEF IInv
  <2>4. ASSUME pc[o] # "idle", NEW q \in Reducers \ {o} PROVE who'[q] # who'[o]
    <3>1. CASE q = p
      BY <1>4, <2>2, <2>4, <3>1
    <3>2. CASE q # p
      BY <2>2, <2>3, <2>4, <3>2 DEF ReductionShape
    <3> QED BY <3>1, <3>2
  <2>5. ReductionShape(o)'
    BY <2>2, <2>3, <2>4 DEF ReductionShape
  <2>6. ReductionAuthority(o)'
    BY <2>2, <2>3 DEF ReductionAuthority, Authority
  <2>7. ReductionRead(o)'
    BY <1>0, <2>2, <2>3 DEF ReductionRead
  <2> QED BY <2>5, <2>6, <2>7
<1>5. \A t \in Txs : RowLocks(t)'
  BY <1>2
<1>6. \A o \in Reducers : ReductionShape(o)' /\ ReductionAuthority(o)' /\ ReductionRead(o)'
  BY <1>4
<1> QED BY <1>1, <1>3, <1>5, <1>6 DEF IInv
-------------------------------------------------------------------------------
(* The steps of one writer that touch no table.                            *)

\* Calls that begin, go on or stop between batches.
LEMMA ControlPreserves ==
    ASSUME IInv, NEW w \in Writers,
           \/ \E t \in Templates, S \in ScopeSets, k \in {"update", "delete"} : Write(w, t, k, S)
           \/ Resume(w) \/ StopAtMaxBatches(w) \/ Cancelled(w)
    PROVE  IInv'
<1>i. TypeOK /\ CallShape(w) /\ PageKeys(w) /\ SweptBehind(w) /\ RowLocks(w)
  BY DEF IInv, Txs
<1>a. /\ UNCHANGED <<role, exists, grants, scopes, late, page, want, locked, moved>>
      /\ UNCHANGED <<who, to, auth, overtaken, asked>>
  BY DEF Write, Resume, StopAtMaxBatches, Cancelled, memberVars, keyVars, batchVars, hostVars
<1>b. OthersKeep(w)
  BY <1>i, <1>a DEF Write, Resume, StopAtMaxBatches, Cancelled, OthersKeep, TypeOK, callVars
<1>l. live' = live
  BY <1>a DEF live
<1>r. RowLocks(w)'
  BY <1>i, <1>a, <1>l DEF RowLocks
<1>1. ASSUME NEW t \in Templates, NEW S \in ScopeSets, NEW k \in {"update", "delete"},
             Write(w, t, k, S)
      PROVE  IInv'
  <2>1. /\ pc'[w] = "batch" /\ tpl'[w] = t /\ prop'[w] = S /\ kind'[w] = k /\ cursor'[w] = 0
        /\ t \in Templates \ System /\ pc[w] = "idle" /\ (k = "delete" => S = {})
    BY <1>1, <1>i DEF Write, Writable, TypeOK, Txs
  <2>t. TypeOK'
    <3>1. pc' \in [Txs -> Stages]
      BY <1>1, <1>i DEF Write, TypeOK, Stages
    <3>2. /\ tpl' \in [Writers -> Templates \cup {NoTemplate}] /\ prop' \in [Writers -> ScopeSets]
          /\ kind' \in [Writers -> {"update", "delete"}]
          /\ cursor' \in [Writers -> Principals \cup {0}]
      BY <1>1, <1>i DEF Write, TypeOK
    <3>3. batches' \in [Writers -> 0 .. MaxBatches]
      BY <1>1, <1>i, ReconcileAssumption DEF Write, TypeOK
    <3> QED BY <1>i, <1>a, <1>l, <3>1, <3>2, <3>3 DEF TypeOK
  <2>2. CallShape(w)' /\ PageKeys(w)'
    BY <1>i, <1>a, <2>1 DEF CallShape, PageKeys
  <2>3. ASSUME NEW q \in Principals PROVE Ahead(w, q)'
    <3>1. q > 0
      BY ReconcileAssumption
    <3> QED BY <2>1, <3>1 DEF Ahead
  <2>4. SweptBehind(w)'
    BY <2>3, ReconcileAssumption DEF SweptBehind, live
  <2> QED BY <1>a, <1>b, <1>r, <2>t, <2>2, <2>4, CallPreserves
<1>2. CASE Resume(w) \/ StopAtMaxBatches(w) \/ Cancelled(w)
  <2>1. /\ pc[w] \in {"batch", "stopped"} /\ pc'[w] \in {"batch", "stopped"}
        /\ cursor'[w] = cursor[w] /\ tpl'[w] = tpl[w] /\ prop'[w] = prop[w] /\ kind'[w] = kind[w]
    BY <1>2, <1>i DEF Resume, StopAtMaxBatches, Cancelled, TypeOK, callVars, Txs
  <2>t. TypeOK'
    BY <1>2, <1>i, <1>a, <1>l, ReconcileAssumption
    DEF Resume, StopAtMaxBatches, Cancelled, TypeOK, Stages, callVars
  <2>2. CallShape(w)' /\ PageKeys(w)'
    BY <1>i, <1>a, <2>1 DEF CallShape, PageKeys
  <2>3. SweptBehind(w)'
    BY <1>i, <1>a, <1>l, <2>1 DEF SweptBehind, Ahead
  <2> QED BY <1>a, <1>b, <1>r, <2>t, <2>2, <2>3, CallPreserves
<1> QED BY <1>1, <1>2

\* A free row that is locked was selected, and is nobody else's.
LEMMA LockTaken ==
    ASSUME TypeOK, NEW t \in Txs, RowLocks(t), NEW k \in Keys, LockKey(t, k)
    PROVE  /\ want'[t] = want[t] \ {k} /\ locked'[t] = locked[t] \cup {k} /\ k \in want[t]
           /\ \A v \in Txs \ {t} : want'[v] = want[v] /\ locked'[v] = locked[v]
           /\ want' \in [Txs -> SUBSET Keys] /\ locked' \in [Txs -> SUBSET Keys]
           /\ RowLocks(t)'
<1>1. /\ want' = [want EXCEPT ![t] = @ \ {k}] /\ locked' = [locked EXCEPT ![t] = @ \cup {k}]
      /\ k \in want[t] /\ UNCHANGED scopes /\ \A v \in Txs : k \notin locked[v]
  BY DEF LockKey, KeyLocked, keyVars
<1>2. /\ want'[t] = want[t] \ {k} /\ locked'[t] = locked[t] \cup {k}
      /\ \A v \in Txs \ {t} : want'[v] = want[v] /\ locked'[v] = locked[v]
      /\ want' \in [Txs -> SUBSET Keys] /\ locked' \in [Txs -> SUBSET Keys]
  BY <1>1 DEF TypeOK
<1>3. live' = live
  BY <1>1 DEF live
<1>4. RowLocks(t)'
  BY <1>1, <1>2, <1>3 DEF RowLocks
<1> QED BY <1>1, <1>2, <1>4

\* The steps of a batch before its COMMIT.
LEMMA BatchPreserves ==
    ASSUME IInv, NEW w \in Writers,
           PlanBatch(w) \/ ReadKeys(w) \/ \E k \in Keys : LockKey(w, k)
    PROVE  IInv'
<1>i. TypeOK /\ CallShape(w) /\ PageKeys(w) /\ SweptBehind(w) /\ RowLocks(w) /\ w \in Txs
  BY DEF IInv, Txs
<1>a. /\ UNCHANGED <<role, exists, grants, scopes, late, tpl, prop, kind, cursor>>
      /\ UNCHANGED <<who, to, auth, overtaken, asked>>
  BY DEF PlanBatch, ReadKeys, LockKey, memberVars, keyVars, callVars, runVars, hostVars
<1>b. /\ OthersKeep(w)
      /\ \A t \in Txs \ {w} : want'[t] = want[t]
      /\ \A v \in Writers \ {w} : moved'[v] = moved[v]
  BY <1>i, <1>a DEF PlanBatch, ReadKeys, LockKey, OthersKeep, TypeOK, runVars
<1>l. live' = live
  BY <1>a DEF live
<1>1. CASE PlanBatch(w)
  <2>1. PICK P \in SUBSET AfterCursor(w) :
            /\ IsPage(P, AfterCursor(w), BatchSize)
            /\ page' = [page EXCEPT ![w] = P]
            /\ pc' = [pc EXCEPT ![w] = IF P = {} THEN "mutate" ELSE "read"]
            /\ batches' = [batches EXCEPT ![w] = IF P = {} THEN @ + 1 ELSE @]
    BY <1>1 DEF PlanBatch
  <2>2. /\ pc[w] = "batch" /\ batches[w] < MaxBatches
        /\ UNCHANGED <<want, locked, moved>> /\ want[w] = {} /\ locked[w] = {}
        /\ page'[w] = P /\ pc'[w] = (IF P = {} THEN "mutate" ELSE "read")
        /\ batches'[w] = (IF P = {} THEN batches[w] + 1 ELSE batches[w])
        /\ P \subseteq Principals
    BY <1>1, <1>i, <2>1 DEF PlanBatch, MayPlan, TypeOK, CallShape, AfterCursor
  <2>t. TypeOK'
    <3>1. batches' \in [Writers -> 0 .. MaxBatches]
      BY <1>i, <2>1, <2>2, ReconcileAssumption DEF TypeOK
    <3> QED BY <1>i, <1>a, <1>l, <2>1, <2>2, <3>1 DEF TypeOK, Stages
  <2>3. CallShape(w)' /\ PageKeys(w)'
    BY <1>i, <1>a, <2>2 DEF CallShape, PageKeys
  <2>r. RowLocks(w)'
    BY <1>i, <1>l, <2>2 DEF RowLocks
  <2>4. ASSUME NEW q \in Principals, role[q] = tpl[w], ~Ahead(w, q)'
        PROVE  ~Ahead(w, q)
    <3>1. SUFFICES q \notin AfterCursor(w)
      BY <2>2, <2>4 DEF Ahead, AfterCursor
    <3>2. CASE P = {}
      BY <2>1, <3>2, FS_EmptySet, ReconcileAssumption DEF IsPage
    <3>3. CASE P # {} /\ Cardinality(P) < BatchSize
      BY <2>1, <2>2, <2>4, <3>3 DEF IsPage, Ahead
    <3>4. CASE P # {} /\ ~(Cardinality(P) < BatchSize)
      <4>1. q \notin P /\ \E r \in P : ~(r < q)
        BY <2>2, <2>4, <3>4 DEF Ahead, LastPage
      <4> QED BY <2>1, <4>1 DEF IsPage
    <3> QED BY <3>2, <3>3, <3>4
  <2>5. SweptBehind(w)'
    BY <1>i, <1>a, <1>l, <2>2, <2>4, ReconcileAssumption DEF SweptBehind, live
  <2> QED BY <1>a, <1>b, <2>t, <2>3, <2>r, <2>5, CallPreserves
<1>2. CASE ReadKeys(w)
  <2>1. /\ pc[w] = "read" /\ pc'[w] = "lock" /\ page' = page /\ locked' = locked /\ locked[w] = {}
        /\ want[w] = {} /\ want'[w] = BatchKeys(w) /\ moved'[w] = {} /\ batches' = batches
    BY <1>2, <1>i DEF ReadKeys, TypeOK, CallShape
  <2>t. TypeOK'
    BY <1>2, <1>i, <1>a, <1>l DEF ReadKeys, BatchKeys, TypeOK, Stages, live
  <2>2. CallShape(w)' /\ PageKeys(w)'
    BY <1>i, <1>a, <2>1 DEF CallShape, PageKeys, BatchKeys
  <2>r. RowLocks(w)'
    BY <1>i, <1>l, <2>1 DEF RowLocks, BatchKeys
  <2>3. SweptBehind(w)'
    BY <1>i, <1>a, <1>l, <2>1 DEF SweptBehind, Ahead, LastPage, BatchKeys
  <2> QED BY <1>a, <1>b, <2>t, <2>2, <2>r, <2>3, CallPreserves
<1>3. ASSUME NEW k \in Keys, LockKey(w, k) PROVE IInv'
  <2>1. pc[w] = "lock" /\ pc' = pc /\ page' = page /\ moved' = moved /\ batches' = batches
    BY <1>3 DEF LockKey, runVars
  <2>2. /\ want'[w] = want[w] \ {k} /\ locked'[w] = locked[w] \cup {k} /\ k \in want[w]
        /\ want' \in [Txs -> SUBSET Keys] /\ locked' \in [Txs -> SUBSET Keys]
        /\ RowLocks(w)'
    BY <1>3, <1>i, LockTaken
  <2>t. TypeOK'
    BY <1>i, <1>a, <1>l, <2>1, <2>2 DEF TypeOK
  <2>3. CallShape(w)' /\ PageKeys(w)'
    BY <1>i, <1>a, <2>1, <2>2 DEF CallShape, PageKeys
  <2>4. SweptBehind(w)'
    BY <1>i, <1>a, <1>l, <2>1, <2>2, AheadSame DEF SweptBehind
  <2> QED BY <1>a, <1>b, <2>t, <2>2, <2>3, <2>4, CallPreserves
<1> QED BY <1>1, <1>2, <1>3

-------------------------------------------------------------------------------
(* The steps that return.                                                  *)

\* A call that is over holds nothing; the others keep theirs.
LEMMA ReturnClears ==
    ASSUME TypeOK, NEW w \in Writers, Return(w)
    PROVE  /\ pc' \in [Txs -> Stages]
           /\ tpl' \in [Writers -> Templates \cup {NoTemplate}]
           /\ prop' \in [Writers -> ScopeSets]
           /\ kind' \in [Writers -> {"update", "delete"}]
           /\ cursor' \in [Writers -> Principals \cup {0}]
           /\ batches' \in [Writers -> 0 .. MaxBatches]
           /\ page' \in [Writers -> SUBSET Principals]
           /\ want' \in [Txs -> SUBSET Keys]
           /\ locked' \in [Txs -> SUBSET Keys]
           /\ pc'[w] = "idle" /\ want'[w] = {} /\ locked'[w] = {}
           /\ OthersKeep(w)
           /\ \A t \in Txs \ {w} : want'[t] = want[t]
  BY ReconcileAssumption DEF Return, TypeOK, Stages, OthersKeep, Txs

\* Its part of the invariant is empty, and its locks are free.
LEMMA ReturnShape ==
    ASSUME NEW w \in Writers, pc'[w] = "idle", want'[w] = {}, locked'[w] = {}
    PROVE  RowLocks(w)' /\ CallShape(w)' /\ PageKeys(w)' /\ SweptBehind(w)'
  BY DEF RowLocks, CallShape, PageKeys, SweptBehind

\* The others' locks stay when a call ends and no key goes.
LEMMA ReturnLocks ==
    ASSUME IInv, NEW w \in Writers, Return(w), UNCHANGED scopes, NEW t \in Txs
    PROVE  RowLocks(t)'
<1>1. /\ OthersKeep(w) /\ want'[w] = {} /\ locked'[w] = {} /\ pc'[w] = "idle"
      /\ \A u \in Txs \ {w} : want'[u] = want[u]
  BY ReturnClears DEF IInv
<1>2. \A u \in Txs : locked'[u] \subseteq locked[u] /\ want'[u] \subseteq want[u]
  BY <1>1 DEF OthersKeep
<1>3. RowLocks(t) /\ live' = live
  BY DEF IInv, live
<1> QED BY <1>2, <1>3 DEF RowLocks

\* Errors, crashes and callers that give up change no table.
LEMMA FailurePreserves ==
    ASSUME IInv, NEW w \in Writers,
           Abandon(w) \/ BatchFails(w) \/ Crash(w) \/ MutateFails(w)
    PROVE  IInv'
<1>i. TypeOK
  BY DEF IInv
<1>a. UNCHANGED <<role, exists, grants, scopes, late, who, to, auth, overtaken, asked>>
  BY DEF Abandon, BatchFails, Crash, MutateFails, memberVars, keyVars, hostVars
<1>m. /\ \A v \in Writers \ {w} : moved'[v] = moved[v]
      /\ moved' \in [Writers -> SUBSET Principals]
  BY <1>i DEF Abandon, BatchFails, Crash, MutateFails, TypeOK
<1>b. Return(w)
  BY DEF Abandon, BatchFails, Crash, MutateFails
<1>c. /\ pc'[w] = "idle" /\ want'[w] = {} /\ locked'[w] = {} /\ OthersKeep(w)
      /\ \A t \in Txs \ {w} : want'[t] = want[t]
  BY <1>i, <1>b, ReturnClears
<1>t. TypeOK'
  BY <1>i, <1>a, <1>b, <1>m, ReturnClears DEF TypeOK, live
<1>1. RowLocks(w)' /\ CallShape(w)' /\ PageKeys(w)' /\ SweptBehind(w)'
  BY <1>c, ReturnShape
<1> QED BY <1>a, <1>m, <1>c, <1>t, <1>1, CallPreserves
\* The template's new scopes cover every key the sweep left that is not late;
\* a reduction that has read the old ones is overtaken.
LEMMA UpdatePreserves ==
    ASSUME IInv, NEW w \in Writers, MutateUpdate(w)
    PROVE  IInv'
<1>i. /\ TypeOK /\ OnlyLateKeysStranded
      /\ \A v \in Writers : CallShape(v) /\ PageKeys(v) /\ SweptBehind(v)
  BY DEF IInv
<1>a. /\ UNCHANGED <<role, exists, scopes, late, moved, who, to, auth, asked>> /\ live' = live
      /\ grants' = [grants EXCEPT ![tpl[w]] = prop[w]]
      /\ overtaken' = overtaken
             \cup {p \in Reducers : pc[p] \in {"read", "lock"} /\ to[p] = tpl[w]}
      /\ pc[w] = "mutate" /\ tpl[w] \in Templates
      /\ Return(w)
  BY <1>i DEF MutateUpdate, CallShape, TypeOK, keyVars, live
<1>c. /\ pc'[w] = "idle" /\ want'[w] = {} /\ locked'[w] = {} /\ OthersKeep(w)
      /\ \A t \in Txs \ {w} : want'[t] = want[t]
  BY <1>i, <1>a, ReturnClears
<1>t. TypeOK'
  <2>1. grants' \in [Templates -> ScopeSets] /\ overtaken' \subseteq Reducers
    BY <1>i, <1>a DEF TypeOK
  <2> QED BY <1>i, <1>a, <2>1, ReturnClears DEF TypeOK
<1>l. ASSUME NEW t \in Txs PROVE RowLocks(t)'
  BY <1>a, <1>l, ReturnLocks
<1>1. ASSUME NEW v \in Writers PROVE CallShape(v)' /\ PageKeys(v)' /\ SweptBehind(v)'
  <2>1. CASE v = w
    BY <1>c, <2>1, ReturnShape
  <2>2. CASE v # w
    <3>0. /\ pc'[v] = pc[v] /\ locked'[v] = locked[v] /\ want'[v] = want[v]
          /\ tpl'[v] = tpl[v] /\ prop'[v] = prop[v] /\ kind'[v] = kind[v]
          /\ cursor'[v] = cursor[v] /\ batches'[v] = batches[v] /\ page'[v] = page[v]
      BY <1>c, <2>2 DEF OthersKeep, Txs
    <3>1. CallShape(v)' /\ PageKeys(v)'
      BY <1>i, <1>a, <3>0 DEF CallShape, PageKeys
    <3>3. SweptBehind(v)'
      BY <1>i, <1>a, <3>0, AheadSame DEF SweptBehind
    <3> QED BY <3>1, <3>3
  <2> QED BY <2>1, <2>2
<1>2. ASSUME NEW k \in live' \ late' PROVE Covered(k, scopes[k])'
  <2>1. Covered(k, scopes[k]) /\ k \in live \ late
    BY <1>i, <1>a, <1>2 DEF OnlyLateKeysStranded
  <2>2. CASE role[Owner[k]] = tpl[w]
    <3>1. AuthorityRetained(scopes[k], prop[w])
      BY <1>i, <1>a, <2>1, <2>2 DEF SweptBehind, CallShape, Ahead
    <3>2. tpl[w] \in exists
      BY DEF MutateUpdate, Writable
    <3>3. role'[Owner[k]] = tpl[w] /\ tpl[w] \in exists' /\ grants'[tpl[w]] = prop[w]
      BY <1>i, <1>a, <2>2, <3>2 DEF TypeOK
    <3> QED BY <1>a, <3>1, <3>3 DEF Covered, Authority
  <2>3. CASE role[Owner[k]] # tpl[w]
    <3>1. Authority(role[Owner[k]])' = Authority(role[Owner[k]])
      BY <1>i, <1>a, <2>3 DEF Authority, TypeOK
    <3> QED BY <1>a, <2>1, <3>1 DEF Covered
  <2> QED BY <2>2, <2>3
<1>3. OnlyLateKeysStranded'
  BY <1>2 DEF OnlyLateKeysStranded
<1>4. ASSUME NEW p \in Reducers
      PROVE  ReductionShape(p)' /\ ReductionAuthority(p)' /\ ReductionRead(p)'
  <2>0. ReductionShape(p) /\ ReductionAuthority(p) /\ ReductionRead(p)
    BY DEF IInv
  <2>1. p \in Txs \ {w}
    BY ReconcileAssumption DEF Txs
  <2>2. pc'[p] = pc[p] /\ locked'[p] = locked[p] /\ want'[p] = want[p]
    BY <1>c, <2>1 DEF OthersKeep
  <2>3. ReductionShape(p)' /\ ReductionRead(p)'
    BY <1>a, <2>0, <2>2 DEF ReductionShape, ReductionRead
  <2>4. ASSUME pc[p] \in {"read", "lock"}, p \notin overtaken' PROVE auth[p] = Authority(to[p])'
    <3>1. to[p] # tpl[w] /\ p \notin overtaken
      BY <1>a, <2>4
    <3>2. Authority(to[p])' = Authority(to[p])
      BY <1>i, <1>a, <3>1 DEF Authority, TypeOK
    <3> QED BY <2>0, <2>4, <3>1, <3>2 DEF ReductionAuthority
  <2>5. ReductionAuthority(p)'
    BY <1>a, <2>2, <2>4 DEF ReductionAuthority
  <2> QED BY <2>3, <2>5
<1> QED BY <1>t, <1>l, <1>1, <1>3, <1>4 DEF IInv

\* A deleted template's members keep only keys that ask for nothing.
LEMMA DeletePreserves ==
    ASSUME IInv, NEW w \in Writers, MutateDelete(w)
    PROVE  IInv'
<1> DEFINE members == {q \in Principals : role[q] = tpl[w]}
<1>i. /\ TypeOK /\ OnlyLateKeysStranded
      /\ \A v \in Writers : CallShape(v) /\ PageKeys(v) /\ SweptBehind(v)
  BY DEF IInv
<1>a. /\ UNCHANGED <<scopes, late, who, to, auth, overtaken, asked>> /\ live' = live
      /\ exists' = exists \ {tpl[w]}
      /\ grants' = [grants EXCEPT ![tpl[w]] = {}]
      /\ role' = [q \in Principals |-> IF q \in members THEN NoTemplate ELSE role[q]]
      /\ moved' = Moved(members)
      /\ pc[w] = "mutate" /\ tpl[w] \in Templates /\ prop[w] = {}
      /\ \A p \in Reducers : to[p] # tpl[w]
      /\ Return(w)
  BY <1>i DEF MutateDelete, CallShape, TypeOK, keyVars, hostVars, live
<1>c. /\ pc'[w] = "idle" /\ want'[w] = {} /\ locked'[w] = {} /\ OthersKeep(w)
      /\ \A t \in Txs \ {w} : want'[t] = want[t]
  BY <1>i, <1>a, ReturnClears
<1>t. TypeOK'
  <2>1. moved' \in [Writers -> SUBSET Principals]
    BY <1>i, <1>a DEF TypeOK, Moved
  <2>2. role' \in [Principals -> Roles]
    BY <1>i, <1>a DEF TypeOK, Roles
  <2>3. grants' \in [Templates -> ScopeSets]
    BY <1>i, <1>a, ReconcileAssumption DEF TypeOK
  <2> QED BY <1>i, <1>a, <2>1, <2>2, <2>3, ReturnClears DEF TypeOK
<1>l. ASSUME NEW t \in Txs PROVE RowLocks(t)'
  BY <1>a, <1>l, ReturnLocks
<1>1. ASSUME NEW v \in Writers PROVE CallShape(v)' /\ PageKeys(v)' /\ SweptBehind(v)'
  <2>1. CASE v = w
    BY <1>c, <2>1, ReturnShape
  <2>2. CASE v # w
    <3>0. /\ pc'[v] = pc[v] /\ locked'[v] = locked[v] /\ want'[v] = want[v]
          /\ tpl'[v] = tpl[v] /\ prop'[v] = prop[v] /\ kind'[v] = kind[v]
          /\ cursor'[v] = cursor[v] /\ batches'[v] = batches[v] /\ page'[v] = page[v]
      BY <1>c, <2>2 DEF OthersKeep, Txs
    <3>1. CallShape(v)'
      BY <1>i, <3>0 DEF CallShape
    <3>2. ASSUME NEW k \in want[v] \cup locked[v]
          PROVE  Owner[k] \in page[v] /\ (role'[Owner[k]] = tpl[v] \/ Owner[k] \in moved'[v])
      <4>1. pc[v] = "lock" /\ Owner[k] \in page[v] /\ Owner[k] \in Principals
            /\ (role[Owner[k]] = tpl[v] \/ Owner[k] \in moved[v])
        BY <1>i, <3>2 DEF CallShape, PageKeys, TypeOK
      <4>2. moved'[v] = moved[v] \cup members
        BY <1>a, <4>1 DEF Moved
      <4> QED BY <1>a, <4>1, <4>2
    <3>3. PageKeys(v)'
      BY <3>0, <3>2 DEF PageKeys
    <3>4. SweptBehind(v)'
      <4>1. SUFFICES ASSUME pc[v] # "idle", NEW k \in live \ late,
                            role'[Owner[k]] = tpl[v], ~Ahead(v, Owner[k]),
                            k \notin want[v] \cup locked[v]
                     PROVE  AuthorityRetained(scopes[k], prop[v])
        BY <1>a, <3>0, AheadSame DEF SweptBehind
      <4>2. tpl[v] # NoTemplate /\ Owner[k] \in Principals
        BY <1>i, <4>1, ReconcileAssumption DEF CallShape, live
      <4>3. role[Owner[k]] = tpl[v]
        BY <1>a, <4>1, <4>2
      <4> QED BY <1>i, <4>1, <4>3 DEF SweptBehind
    <3> QED BY <3>1, <3>3, <3>4
  <2> QED BY <2>1, <2>2
<1>2. ASSUME NEW k \in live' \ late' PROVE Covered(k, scopes[k])'
  <2>1. Covered(k, scopes[k]) /\ k \in live \ late /\ Owner[k] \in Principals
    BY <1>i, <1>a, <1>2, ReconcileAssumption DEF OnlyLateKeysStranded, live
  <2>2. CASE role[Owner[k]] = tpl[w]
    <3>1. AuthorityRetained(scopes[k], prop[w])
      <4>1. want[w] = {} /\ locked[w] = {} /\ ~Ahead(w, Owner[k])
        BY <1>i, <1>a DEF CallShape, Ahead
      <4> QED BY <1>i, <1>a, <2>1, <2>2, <4>1 DEF SweptBehind
    <3>2. AuthorityRetained(scopes[k], Authority(role[Owner[k]])')
      BY <1>a, <3>1, EmptyAuthority
    <3> QED BY <1>a, <3>2 DEF Covered
  <2>3. CASE role[Owner[k]] # tpl[w]
    <3>1. role'[Owner[k]] = role[Owner[k]]
      BY <1>a, <2>1, <2>3
    <3>2. Authority(role[Owner[k]])' = Authority(role[Owner[k]])
      BY <1>i, <1>a, <2>3, <3>1 DEF Authority, TypeOK
    <3> QED BY <1>a, <2>1, <3>2 DEF Covered
  <2> QED BY <2>2, <2>3
<1>3. OnlyLateKeysStranded'
  BY <1>2 DEF OnlyLateKeysStranded
<1>4. ASSUME NEW p \in Reducers
      PROVE  ReductionShape(p)' /\ ReductionAuthority(p)' /\ ReductionRead(p)'
  <2>0. ReductionShape(p) /\ ReductionAuthority(p) /\ ReductionRead(p)
    BY DEF IInv
  <2>1. p \in Txs \ {w}
    BY ReconcileAssumption DEF Txs
  <2>2. pc'[p] = pc[p] /\ locked'[p] = locked[p] /\ want'[p] = want[p]
    BY <1>c, <2>1 DEF OthersKeep
  <2>3. ReductionShape(p)' /\ ReductionRead(p)'
    BY <1>a, <2>0, <2>2 DEF ReductionShape, ReductionRead
  <2>4. Authority(to[p])' = Authority(to[p])
    BY <1>i, <1>a DEF Authority, TypeOK
  <2>5. ReductionAuthority(p)'
    BY <1>a, <2>0, <2>2, <2>4 DEF ReductionAuthority
  <2> QED BY <2>3, <2>5
<1> QED BY <1>t, <1>l, <1>1, <1>3, <1>4 DEF IInv

-------------------------------------------------------------------------------
(* The COMMIT of a batch.                                                  *)

\* After it, what it locked is swept and what it did not reach is ahead.
LEMMA CommitPreserves ==
    ASSUME IInv, NEW w \in Writers, CommitBatch(w)
    PROVE  IInv'
<1> DEFINE gone == Unretained(w)
<1>i. /\ TypeOK /\ OnlyLateKeysStranded
      /\ \A v \in Writers : CallShape(v) /\ PageKeys(v) /\ SweptBehind(v)
  BY DEF IInv
<1>j. w \in Txs /\ \A t \in Txs : RowLocks(t)
  BY DEF IInv, Txs
<1>a. /\ UNCHANGED <<role, exists, grants, tpl, prop, kind>>
      /\ UNCHANGED <<who, to, auth, overtaken, asked>>
      /\ pc[w] = "lock" /\ want[w] = {}
      /\ scopes' = Without(gone) /\ late' = late \ gone
      /\ want' = [t \in Txs |-> want[t] \ gone]
      /\ locked' = [locked EXCEPT ![w] = {}]
      /\ page' = [page EXCEPT ![w] = {}]
      /\ moved' = [moved EXCEPT ![w] = {}]
      /\ batches' = [batches EXCEPT ![w] = @ + 1]
      /\ pc' = [pc EXCEPT ![w] = IF LastPage(w) THEN "mutate" ELSE "batch"]
  BY DEF CommitBatch, memberVars, callVars, hostVars
<1>g. gone \subseteq locked[w] /\ gone \subseteq Keys
  BY <1>i, <1>j DEF Unretained, TypeOK
<1>c. PICK q \in Principals \cup {0} : NextCursor(w, q) /\ cursor' = [cursor EXCEPT ![w] = q]
  BY DEF CommitBatch
<1>l. live' = live \ gone /\ \A k \in live' : scopes'[k] = scopes[k]
  BY <1>a DEF live, Without
<1>o. \A t \in Txs \ {w} : pc'[t] = pc[t] /\ locked'[t] = locked[t] /\ want'[t] = want[t] \ gone
  BY <1>i, <1>a DEF TypeOK
<1>t. TypeOK'
  <2>1. batches' \in [Writers -> 0 .. MaxBatches]
    <3>1. batches[w] < MaxBatches /\ batches[w] \in Nat
      BY <1>i, <1>a DEF CallShape, TypeOK
    <3> QED BY <1>i, <1>a, <3>1, ReconcileAssumption DEF TypeOK
  <2>2. scopes' \in [Keys -> ScopeSets \cup {NoKey}] /\ late' \subseteq live'
    BY <1>i, <1>a, <1>l DEF TypeOK, Without
  <2>3. want' \in [Txs -> SUBSET Keys] /\ locked' \in [Txs -> SUBSET Keys]
    BY <1>i, <1>a DEF TypeOK
  <2>4. cursor' \in [Writers -> Principals \cup {0}]
    BY <1>i, <1>c DEF TypeOK
  <2>5. page' \in [Writers -> SUBSET Principals] /\ moved' \in [Writers -> SUBSET Principals]
        /\ pc' \in [Txs -> Stages]
    BY <1>i, <1>a DEF TypeOK, Stages
  <2> QED BY <1>i, <1>a, <2>1, <2>2, <2>3, <2>4, <2>5 DEF TypeOK
<1>r. ASSUME NEW t \in Txs PROVE RowLocks(t)'
  <2>1. CASE t = w
    BY <1>i, <1>j, <1>a, <2>1 DEF RowLocks, TypeOK
  <2>2. CASE t # w
    <3>1. locked[t] \cap gone = {}
      BY <1>j, <1>g, <2>2 DEF RowLocks
    <3>2. want'[t] \cup locked'[t] \subseteq live'
      BY <1>j, <1>l, <1>o, <2>2, <3>1 DEF RowLocks
    <3>3. \A u \in Txs : locked'[u] \subseteq locked[u]
      BY <1>i, <1>a DEF TypeOK
    <3> QED BY <1>j, <3>2, <3>3 DEF RowLocks
  <2> QED BY <2>1, <2>2
<1>1. ASSUME NEW v \in Writers PROVE CallShape(v)' /\ PageKeys(v)' /\ SweptBehind(v)'
  <2>1. CASE v = w
    <3>0. /\ pc'[w] = (IF LastPage(w) THEN "mutate" ELSE "batch") /\ cursor'[w] = q
          /\ want'[w] = {} /\ locked'[w] = {}
      BY <1>i, <1>j, <1>a, <1>c DEF TypeOK
    <3>1. CallShape(w)' /\ PageKeys(w)'
      BY <1>i, <1>a, <3>0 DEF CallShape, PageKeys
    <3>2. ASSUME NEW p \in Principals, ~Ahead(w, p)'
          PROVE  ~Ahead(w, p)
      <4>1. CASE LastPage(w)
        BY <1>a, <4>1 DEF Ahead
      <4>2. CASE ~LastPage(w)
        <5>1. ~(p > q) /\ q \in page[w]
          BY <1>c, <3>0, <3>2, <4>2 DEF Ahead, NextCursor
        <5>2. ~(q < p)
          BY <1>i, <5>1, ReconcileAssumption DEF TypeOK
        <5> QED BY <1>a, <5>1, <5>2 DEF Ahead
      <4> QED BY <4>1, <4>2
    <3>3. SweptBehind(w)'
      <4>1. SUFFICES ASSUME NEW k \in live' \ late', role[Owner[k]] = tpl[w],
                            ~Ahead(w, Owner[k])'
                     PROVE  AuthorityRetained(scopes[k], prop[w])
        BY <1>a, <1>l DEF SweptBehind
      <4>2. k \in live \ late /\ k \notin gone /\ Owner[k] \in Principals
        BY <1>a, <1>l, <4>1, ReconcileAssumption DEF live
      <4>3. CASE k \in locked[w]
        BY <4>2, <4>3 DEF Unretained
      <4>4. CASE k \notin locked[w]
        BY <1>i, <1>a, <3>2, <4>1, <4>2, <4>4 DEF SweptBehind
      <4> QED BY <4>3, <4>4
    <3> QED BY <2>1, <3>1, <3>3
  <2>2. CASE v # w
    <3>0. /\ cursor'[v] = cursor[v] /\ page'[v] = page[v] /\ batches'[v] = batches[v]
          /\ moved'[v] = moved[v] /\ pc'[v] = pc[v]
          /\ locked'[v] = locked[v] /\ want'[v] = want[v] \ gone
      BY <1>i, <1>a, <1>c, <1>o, <2>2 DEF TypeOK, Txs
    <3>1. CallShape(v)' /\ PageKeys(v)'
      BY <1>i, <1>a, <3>0 DEF CallShape, PageKeys
    <3>6. SweptBehind(v)'
      BY <1>i, <1>a, <1>l, <3>0, AheadSame DEF SweptBehind
    <3> QED BY <3>1, <3>6
  <2> QED BY <2>1, <2>2
<1>3. OnlyLateKeysStranded'
  <2>1. ASSUME NEW k \in live' \ late' PROVE Covered(k, scopes[k])'
    <3>1. k \in live \ late /\ scopes'[k] = scopes[k]
      BY <1>a, <1>l, <2>1
    <3> QED BY <1>i, <1>a, <3>1 DEF OnlyLateKeysStranded, Covered, Authority
  <2> QED BY <2>1 DEF OnlyLateKeysStranded
<1>4. ASSUME NEW p \in Reducers
      PROVE  ReductionShape(p)' /\ ReductionAuthority(p)' /\ ReductionRead(p)'
  <2>0. ReductionShape(p) /\ ReductionAuthority(p) /\ ReductionRead(p)
    BY DEF IInv
  <2>1. p \in Txs \ {w}
    BY ReconcileAssumption DEF Txs
  <2>2. pc'[p] = pc[p] /\ locked'[p] = locked[p] /\ want'[p] = want[p] \ gone
    BY <1>o, <2>1
  <2>3. \A k \in live' \ late' :
            /\ k \in live \ late /\ scopes'[k] = scopes[k]
            /\ k \in want[p] => k \in want'[p]
    BY <1>a, <1>l, <2>2
  <2> QED BY <1>a, <2>0, <2>2, <2>3, ReductionKept
<1> QED BY <1>t, <1>r, <1>1, <1>3, <1>4 DEF IInv
-------------------------------------------------------------------------------
(* Reductions.                                                             *)

\* Two open reductions never have the same membership.
LEMMA ReducePreserves ==
    ASSUME IInv, NEW p \in Reducers, NEW q \in Principals, NEW r \in Roles, Reduce(p, q, r)
    PROVE  IInv'
<1>i. TypeOK /\ RowLocks(p) /\ ReductionShape(p) /\ p \in Txs
  BY DEF IInv, Txs
<1>a. /\ UNCHANGED <<role, exists, grants, scopes, late, tpl, prop, kind>>
      /\ UNCHANGED <<page, want, locked, moved, cursor, batches, auth, overtaken, asked>>
      /\ pc[p] = "idle" /\ \A o \in Reducers : who[o] # q
      /\ pc' = [pc EXCEPT ![p] = "reduced"]
      /\ who' = [who EXCEPT ![p] = q] /\ to' = [to EXCEPT ![p] = r]
  BY DEF Reduce, MemberLocked, memberVars, keyVars, callVars, batchVars
<1>b. /\ pc'[p] = "reduced" /\ who'[p] = q
      /\ \A t \in Txs \ {p} : pc'[t] = pc[t]
      /\ \A o \in Reducers \ {p} : who'[o] = who[o] /\ to'[o] = to[o]
  BY <1>i, <1>a DEF TypeOK
<1>l. live' = live
  BY <1>a DEF live
<1>t. TypeOK'
  <2>1. pc' \in [Txs -> Stages]
    BY <1>i, <1>a DEF TypeOK, Stages
  <2>2. who' \in [Reducers -> Principals \cup {0}] /\ to' \in [Reducers -> Roles]
    BY <1>i, <1>a DEF TypeOK
  <2> QED BY <1>i, <1>a, <1>l, <2>1, <2>2 DEF TypeOK
<1>1. RowLocks(p)'
  BY <1>i, <1>a, <1>l DEF RowLocks
<1>2. ReductionShape(p)'
  <2>1. want[p] = {} /\ locked[p] = {}
    BY <1>i, <1>a DEF ReductionShape
  <2> QED BY <1>a, <1>b, <2>1 DEF ReductionShape
<1>3. ReductionAuthority(p)' /\ ReductionRead(p)'
  BY <1>b DEF ReductionAuthority, ReductionRead
<1> QED BY <1>a, <1>b, <1>t, <1>1, <1>2, <1>3, ReductionPreserves

\* Its reads, and the locks of its keys.
LEMMA ReducerReads ==
    ASSUME IInv, NEW p \in Reducers,
           RetainedScopes(p) \/ ReadOwnKeys(p) \/ \E k \in Keys : LockKey(p, k)
    PROVE  IInv'
<1>i. /\ TypeOK /\ RowLocks(p) /\ p \in Txs
      /\ ReductionShape(p) /\ ReductionAuthority(p) /\ ReductionRead(p)
  BY DEF IInv, Txs
<1>a. /\ UNCHANGED <<role, exists, grants, scopes, late, tpl, prop, kind>>
      /\ UNCHANGED <<page, moved, cursor, batches, who, to, overtaken, asked>>
  BY DEF RetainedScopes, ReadOwnKeys, LockKey, memberVars, keyVars, callVars, batchVars, runVars,
         hostVars
<1>l. live' = live
  BY <1>a DEF live
<1>w. \A o \in Reducers \ {p} : pc[o] # "idle" => who[o] # who'[p]
  <2>1. ASSUME NEW o \in Reducers \ {p}, pc[o] # "idle" PROVE who[o] # who'[p]
    BY <1>a, <2>1 DEF IInv, ReductionShape
  <2> QED BY <2>1
<1>1. CASE RetainedScopes(p)
  <2>1. /\ pc[p] = "reduced" /\ pc' = [pc EXCEPT ![p] = "read"]
        /\ auth' = [auth EXCEPT ![p] = Authority(to[p])] /\ UNCHANGED <<want, locked>>
    BY <1>1 DEF RetainedScopes, batchVars
  <2>2. /\ pc'[p] = "read" /\ auth'[p] = Authority(to[p])
        /\ \A t \in Txs \ {p} : pc'[t] = pc[t]
        /\ \A o \in Reducers \ {p} : auth'[o] = auth[o]
    BY <1>i, <2>1 DEF TypeOK
  <2>t. TypeOK'
    <3>1. pc' \in [Txs -> Stages]
      BY <1>i, <2>1 DEF TypeOK, Stages
    <3>2. Authority(to[p]) \in ScopeSets
      BY <1>i, ReconcileAssumption DEF Authority, TypeOK
    <3>3. auth' \in [Reducers -> ScopeSets]
      BY <1>i, <2>1, <3>2 DEF TypeOK
    <3> QED BY <1>i, <1>a, <1>l, <2>1, <3>1, <3>3 DEF TypeOK
  <2>3. RowLocks(p)'
    BY <1>i, <1>l, <2>1 DEF RowLocks
  <2>4. ReductionShape(p)'
    BY <1>i, <1>a, <2>1, <2>2 DEF ReductionShape
  <2>5. ReductionAuthority(p)'
    BY <1>a, <2>2 DEF ReductionAuthority, Authority
  <2>6. ReductionRead(p)'
    BY <2>2 DEF ReductionRead
  <2> QED BY <1>a, <1>w, <2>1, <2>2, <2>t, <2>3, <2>4, <2>5, <2>6, ReductionPreserves
<1>2. CASE ReadOwnKeys(p)
  <2>1. /\ pc[p] = "read" /\ pc' = [pc EXCEPT ![p] = "lock"]
        /\ want' = [want EXCEPT ![p] = OwnKeys(p)] /\ UNCHANGED <<locked, auth>>
    BY <1>2 DEF ReadOwnKeys, hostVars
  <2>2. /\ pc'[p] = "lock" /\ want'[p] = OwnKeys(p) /\ locked[p] = {}
        /\ \A t \in Txs \ {p} : pc'[t] = pc[t] /\ want'[t] = want[t]
    BY <1>i, <2>1 DEF TypeOK, ReductionShape
  <2>t. TypeOK'
    <3>1. pc' \in [Txs -> Stages]
      BY <1>i, <2>1 DEF TypeOK, Stages
    <3>2. want' \in [Txs -> SUBSET Keys]
      BY <1>i, <2>1 DEF TypeOK, OwnKeys, live
    <3> QED BY <1>i, <1>a, <1>l, <2>1, <3>1, <3>2 DEF TypeOK
  <2>3. RowLocks(p)'
    BY <1>i, <1>l, <2>1, <2>2 DEF RowLocks, OwnKeys
  <2>4. ReductionShape(p)'
    BY <1>i, <1>a, <2>1, <2>2 DEF ReductionShape, OwnKeys
  <2>5. ReductionAuthority(p)'
    BY <1>i, <1>a, <2>1, <2>2 DEF ReductionAuthority, Authority
  <2>6. ReductionRead(p)'
    BY <1>a, <1>l, <2>2 DEF ReductionRead, OwnKeys
  <2> QED BY <1>a, <1>w, <2>1, <2>2, <2>t, <2>3, <2>4, <2>5, <2>6, ReductionPreserves
<1>3. ASSUME NEW k \in Keys, LockKey(p, k) PROVE IInv'
  <2>1. pc[p] = "lock" /\ UNCHANGED <<pc, auth>>
    BY <1>3 DEF LockKey, runVars, hostVars
  <2>2. /\ want'[p] = want[p] \ {k} /\ locked'[p] = locked[p] \cup {k} /\ k \in want[p]
        /\ \A t \in Txs \ {p} : want'[t] = want[t] /\ locked'[t] = locked[t]
        /\ want' \in [Txs -> SUBSET Keys] /\ locked' \in [Txs -> SUBSET Keys]
        /\ RowLocks(p)'
    BY <1>3, <1>i, LockTaken
  <2>t. TypeOK'
    BY <1>i, <1>a, <1>l, <2>1, <2>2 DEF TypeOK
  <2>4. ReductionShape(p)'
    BY <1>i, <1>a, <2>1, <2>2 DEF ReductionShape
  <2>5. ReductionAuthority(p)'
    BY <1>i, <1>a, <2>1 DEF ReductionAuthority, Authority
  <2>6. ReductionRead(p)'
    BY <1>i, <1>a, <1>l, <2>1, <2>2 DEF ReductionRead
  <2> QED BY <1>a, <1>w, <2>1, <2>2, <2>t, <2>4, <2>5, <2>6, ReductionPreserves
<1> QED BY <1>1, <1>2, <1>3

\* A reduction that is over has no membership and no locks.
LEMMA ReductionEnds ==
    ASSUME TypeOK, NEW p \in Reducers, NEW gone \in SUBSET Keys, EndReduction(p, gone)
    PROVE  /\ pc' \in [Txs -> Stages]
           /\ want' \in [Txs -> SUBSET Keys] /\ locked' \in [Txs -> SUBSET Keys]
           /\ who' \in [Reducers -> Principals \cup {0}] /\ to' \in [Reducers -> Roles]
           /\ auth' \in [Reducers -> ScopeSets] /\ overtaken' \subseteq Reducers
           /\ pc'[p] = "idle" /\ want'[p] = {} /\ locked'[p] = {} /\ who'[p] = 0
           /\ \A t \in Txs \ {p} :
                  pc'[t] = pc[t] /\ locked'[t] = locked[t] /\ want'[t] = want[t] \ gone
           /\ \A o \in Reducers \ {p} :
                  /\ who'[o] = who[o] /\ to'[o] = to[o] /\ auth'[o] = auth[o]
                  /\ o \in overtaken' <=> o \in overtaken
<1>a. p \in Txs
  BY DEF Txs
<1>1. pc' \in [Txs -> Stages] /\ pc'[p] = "idle" /\ \A t \in Txs \ {p} : pc'[t] = pc[t]
  BY <1>a DEF EndReduction, TypeOK, Stages
<1>2. /\ want' \in [Txs -> SUBSET Keys] /\ want'[p] = {}
      /\ \A t \in Txs \ {p} : want'[t] = want[t] \ gone
  BY <1>a DEF EndReduction, TypeOK
<1>3. /\ locked' \in [Txs -> SUBSET Keys] /\ locked'[p] = {}
      /\ \A t \in Txs \ {p} : locked'[t] = locked[t]
  BY <1>a DEF EndReduction, TypeOK
<1>4. /\ who' \in [Reducers -> Principals \cup {0}] /\ who'[p] = 0
      /\ \A o \in Reducers \ {p} : who'[o] = who[o]
  BY DEF EndReduction, TypeOK
<1>5. to' \in [Reducers -> Roles] /\ \A o \in Reducers \ {p} : to'[o] = to[o]
  BY DEF EndReduction, TypeOK, Roles
<1>6. auth' \in [Reducers -> ScopeSets] /\ \A o \in Reducers \ {p} : auth'[o] = auth[o]
  BY ReconcileAssumption DEF EndReduction, TypeOK
<1>7. /\ overtaken' \subseteq Reducers
      /\ \A o \in Reducers \ {p} : o \in overtaken' <=> o \in overtaken
  BY DEF EndReduction, TypeOK
<1> QED BY <1>1, <1>2, <1>3, <1>4, <1>5, <1>6, <1>7

\* Nobody's principal is 0.
LEMMA PrincipalIsNotZero ==
    ASSUME NEW o \in Reducers, ReductionShape(o), pc[o] # "idle"
    PROVE  who[o] # 0
  BY ReconcileAssumption DEF ReductionShape

\* A rollback changes no table.
LEMMA RollbackPreserves ==
    ASSUME IInv, NEW p \in Reducers, Rollback(p)
    PROVE  IInv'
<1>i. TypeOK /\ p \in Txs
  BY DEF IInv, Txs
<1>a. /\ UNCHANGED <<role, exists, grants, scopes, late, tpl, prop, kind>>
      /\ UNCHANGED <<page, moved, cursor, batches, asked>> /\ EndReduction(p, {})
  BY DEF Rollback, memberVars, keyVars, callVars
<1>b. /\ pc' \in [Txs -> Stages]
      /\ want' \in [Txs -> SUBSET Keys] /\ locked' \in [Txs -> SUBSET Keys]
      /\ who' \in [Reducers -> Principals \cup {0}] /\ to' \in [Reducers -> Roles]
      /\ auth' \in [Reducers -> ScopeSets] /\ overtaken' \subseteq Reducers
      /\ pc'[p] = "idle" /\ want'[p] = {} /\ locked'[p] = {} /\ who'[p] = 0
      /\ \A t \in Txs \ {p} :
             pc'[t] = pc[t] /\ locked'[t] = locked[t] /\ want'[t] = want[t] \ {}
      /\ \A o \in Reducers \ {p} :
             /\ who'[o] = who[o] /\ to'[o] = to[o] /\ auth'[o] = auth[o]
             /\ o \in overtaken' <=> o \in overtaken
  <2>1. {} \in SUBSET Keys
    OBVIOUS
  <2> QED BY <1>i, <1>a, <2>1, ReductionEnds
<1>c. \A t \in Txs \ {p} : want'[t] = want[t]
  BY <1>b
<1>l. live' = live
  BY <1>a DEF live
<1>t. TypeOK'
  BY <1>i, <1>a, <1>b, <1>l DEF TypeOK
<1>1. RowLocks(p)' /\ ReductionAuthority(p)' /\ ReductionRead(p)'
  BY <1>b DEF RowLocks, ReductionAuthority, ReductionRead
<1>2. ReductionShape(p)'
  BY <1>b DEF ReductionShape
<1>3. \A o \in Reducers \ {p} : pc[o] # "idle" => who[o] # who'[p]
  BY <1>b, PrincipalIsNotZero DEF IInv
<1> QED BY <1>a, <1>b, <1>c, <1>t, <1>1, <1>2, <1>3, ReductionPreserves

\* What moves a principal is seen by every batch that has read it.
LEMMA MovedIsSeen ==
    ASSUME TypeOK, NEW v \in Writers, NEW q \in Principals, CallShape(v), PageKeys(v),
           \A p \in Principals \ {q} : role'[p] = role[p],
           moved' = Moved({q})
    PROVE  \A k \in want[v] \cup locked[v] :
               Owner[k] \in page[v] /\ (role'[Owner[k]] = tpl[v] \/ Owner[k] \in moved'[v])
<1>1. ASSUME NEW k \in want[v] \cup locked[v]
      PROVE  Owner[k] \in page[v] /\ (role'[Owner[k]] = tpl[v] \/ Owner[k] \in moved'[v])
  <2>1. pc[v] = "lock" /\ Owner[k] \in page[v] /\ Owner[k] \in Principals
        /\ (role[Owner[k]] = tpl[v] \/ Owner[k] \in moved[v])
    BY <1>1 DEF CallShape, PageKeys, TypeOK
  <2>2. moved'[v] = moved[v] \cup {q}
    BY <2>1 DEF Moved
  <2> QED BY <2>1, <2>2
<1> QED BY <1>1

\* A reduction leaves the mover the keys its new role covers; those it judged by
\* an overtaken read, did not see or moved to where a sweep has been are late.
LEMMA CommitReductionPreserves ==
    ASSUME IInv, NEW p \in Reducers, CommitReduction(p)
    PROVE  IInv'
<1> DEFINE gone == Doomed(p)
           q == who[p]
<1>i. /\ TypeOK /\ OnlyLateKeysStranded /\ p \in Txs
      /\ \A v \in Writers : CallShape(v) /\ PageKeys(v) /\ SweptBehind(v)
  BY DEF IInv, Txs
<1>j. /\ \A t \in Txs : RowLocks(t)
      /\ \A o \in Reducers : ReductionShape(o) /\ ReductionAuthority(o) /\ ReductionRead(o)
  BY DEF IInv
<1>a. /\ UNCHANGED <<exists, grants, tpl, prop, kind, page, cursor, batches, asked>>
      /\ pc[p] = "lock" /\ want[p] = {}
      /\ role' = [role EXCEPT ![q] = to[p]]
      /\ moved' = Moved({q})
      /\ scopes' = Without(gone)
      /\ late' = {k \in live \ gone :
                      IF Owner[k] = q THEN LateAfterMove(p, k) ELSE k \in late}
      /\ EndReduction(p, gone)
  BY DEF CommitReduction, callVars
<1>q. q \in Principals /\ to[p] \in Roles
  BY <1>i, <1>j, <1>a DEF ReductionShape, TypeOK
<1>g. gone \subseteq locked[p] /\ gone \in SUBSET Keys
  BY <1>i DEF Doomed, TypeOK
<1>b. role'[q] = to[p] /\ \A r \in Principals \ {q} : role'[r] = role[r]
  BY <1>i, <1>a, <1>q DEF TypeOK
<1>l. live' = live \ gone /\ \A k \in live' : scopes'[k] = scopes[k]
  BY <1>a DEF live, Without
<1>e. /\ pc' \in [Txs -> Stages]
      /\ want' \in [Txs -> SUBSET Keys] /\ locked' \in [Txs -> SUBSET Keys]
      /\ who' \in [Reducers -> Principals \cup {0}] /\ to' \in [Reducers -> Roles]
      /\ auth' \in [Reducers -> ScopeSets] /\ overtaken' \subseteq Reducers
      /\ pc'[p] = "idle" /\ want'[p] = {} /\ locked'[p] = {} /\ who'[p] = 0
      /\ \A t \in Txs \ {p} :
             pc'[t] = pc[t] /\ locked'[t] = locked[t] /\ want'[t] = want[t] \ gone
      /\ \A o \in Reducers \ {p} :
             /\ who'[o] = who[o] /\ to'[o] = to[o] /\ auth'[o] = auth[o]
             /\ o \in overtaken' <=> o \in overtaken
  BY <1>i, <1>a, <1>g, ReductionEnds
<1>t. TypeOK'
  <2>1. moved' \in [Writers -> SUBSET Principals]
    BY <1>i, <1>a, <1>q DEF TypeOK, Moved
  <2>2. scopes' \in [Keys -> ScopeSets \cup {NoKey}] /\ late' \subseteq live'
    BY <1>i, <1>a, <1>l DEF TypeOK, Without
  <2>3. role' \in [Principals -> Roles]
    BY <1>i, <1>a, <1>q DEF TypeOK
  <2> QED BY <1>i, <1>a, <1>e, <2>1, <2>2, <2>3 DEF TypeOK
<1>r. ASSUME NEW t \in Txs PROVE RowLocks(t)'
  <2>1. CASE t = p
    BY <1>e, <2>1 DEF RowLocks
  <2>2. CASE t # p
    <3>1. locked[t] \cap gone = {}
      BY <1>i, <1>j, <1>g, <2>2 DEF RowLocks
    <3>2. want'[t] \cup locked'[t] \subseteq live'
      BY <1>j, <1>l, <1>e, <2>2, <3>1 DEF RowLocks
    <3>3. \A u \in Txs : locked'[u] \subseteq locked[u]
      BY <1>e
    <3> QED BY <1>j, <3>2, <3>3 DEF RowLocks
  <2> QED BY <2>1, <2>2
<1>1. ASSUME NEW v \in Writers PROVE CallShape(v)' /\ PageKeys(v)' /\ SweptBehind(v)'
  <2>0. v \in Txs \ {p}
    BY ReconcileAssumption DEF Txs
  <2>1. pc'[v] = pc[v] /\ locked'[v] = locked[v] /\ want'[v] = want[v] \ gone
    BY <1>e, <2>0
  <2>2. CallShape(v)'
    BY <1>i, <1>a, <2>1 DEF CallShape
  <2>3. PageKeys(v)'
    <3>1. \A k \in want[v] \cup locked[v] :
              Owner[k] \in page[v] /\ (role'[Owner[k]] = tpl[v] \/ Owner[k] \in moved'[v])
      BY <1>i, <1>a, <1>b, <1>q, MovedIsSeen
    <3> QED BY <1>a, <2>1, <3>1 DEF PageKeys
  <2>4. ASSUME pc[v] # "idle", NEW k \in live' \ late', role'[Owner[k]] = tpl[v],
               ~Ahead(v, Owner[k]), k \notin want'[v] \cup locked[v]
        PROVE  AuthorityRetained(scopes[k], prop[v])
    <3>0. k \in live \ gone /\ k \notin want[v] \cup locked[v]
      BY <1>l, <2>1, <2>4
    <3>1. CASE Owner[k] = q
      <4>1. ~Missed(k, to[p], scopes[k]) /\ tpl[v] = to[p]
        BY <1>a, <1>b, <2>4, <3>0, <3>1 DEF LateAfterMove
      <4> QED BY <2>4, <3>0, <4>1 DEF Missed
    <3>2. CASE Owner[k] # q
      <4>1. Owner[k] \in Principals
        BY <3>0, ReconcileAssumption DEF live
      <4>2. role[Owner[k]] = tpl[v] /\ k \in live \ late
        BY <1>a, <1>b, <2>4, <3>0, <3>2, <4>1
      <4> QED BY <1>i, <2>4, <3>0, <4>2 DEF SweptBehind
    <3> QED BY <3>1, <3>2
  <2>5. SweptBehind(v)'
    BY <1>a, <1>l, <2>1, <2>4, AheadSame DEF SweptBehind
  <2> QED BY <2>2, <2>3, <2>5
<1>2. ASSUME NEW k \in live' \ late' PROVE Covered(k, scopes[k])'
  <2>0. k \in live \ gone /\ scopes'[k] = scopes[k] /\ Owner[k] \in Principals
    BY <1>l, <1>2, ReconcileAssumption DEF live
  <2>1. CASE Owner[k] = q
    <3>1. ~LateAfterMove(p, k)
      BY <1>a, <1>2, <2>0, <2>1
    <3>2. AuthorityRetained(scopes[k], Authority(to[p]))
      <4>1. CASE p \in overtaken
        BY <3>1, <4>1 DEF LateAfterMove
      <4>2. CASE p \notin overtaken
        <5>1. auth[p] = Authority(to[p])
          BY <1>j, <1>a, <4>2 DEF ReductionAuthority
        <5>2. CASE k \in locked[p]
          BY <2>0, <5>1, <5>2 DEF Doomed
        <5>3. CASE k \notin locked[p]
          BY <1>j, <1>a, <2>0, <2>1, <3>1, <5>1, <5>3 DEF LateAfterMove, ReductionRead
        <5> QED BY <5>2, <5>3
      <4> QED BY <4>1, <4>2
    <3> QED BY <1>a, <1>b, <2>0, <2>1, <3>2 DEF Covered, Authority
  <2>2. CASE Owner[k] # q
    <3>1. role'[Owner[k]] = role[Owner[k]] /\ Covered(k, scopes[k])
      BY <1>i, <1>a, <1>b, <1>2, <2>0, <2>2 DEF OnlyLateKeysStranded
    <3> QED BY <1>a, <2>0, <3>1 DEF Covered, Authority
  <2> QED BY <2>1, <2>2
<1>3. OnlyLateKeysStranded'
  BY <1>2 DEF OnlyLateKeysStranded
<1>4. ASSUME NEW o \in Reducers
      PROVE  ReductionShape(o)' /\ ReductionAuthority(o)' /\ ReductionRead(o)'
  <2>1. CASE o = p
    BY <1>e, <2>1 DEF ReductionShape, ReductionAuthority, ReductionRead
  <2>2. CASE o # p
    <3>1. /\ pc'[o] = pc[o] /\ locked'[o] = locked[o] /\ want'[o] = want[o] \ gone
          /\ who'[o] = who[o] /\ to'[o] = to[o] /\ auth'[o] = auth[o]
          /\ o \in overtaken' <=> o \in overtaken
      BY <1>e, <2>2 DEF Txs
    <3>2. ASSUME pc[o] # "idle", NEW u \in Reducers \ {o} PROVE who'[u] # who'[o]
      <4>1. CASE u = p
        BY <1>j, <1>e, <3>1, <3>2, <4>1, PrincipalIsNotZero
      <4>2. CASE u # p
        BY <1>j, <1>e, <3>1, <3>2, <4>2 DEF ReductionShape
      <4> QED BY <4>1, <4>2
    <3>3. ReductionShape(o)'
      BY <1>j, <3>1, <3>2 DEF ReductionShape
    <3>4. ReductionAuthority(o)'
      BY <1>j, <1>a, <3>1 DEF ReductionAuthority, Authority
    <3>5. ASSUME pc[o] = "lock", NEW k \in live' \ late', Owner[k] = who[o],
                 k \notin want'[o] \cup locked[o]
          PROVE  AuthorityRetained(scopes'[k], auth[o])
      <4>1. who[o] # q
        BY <1>j, <2>2, <3>5 DEF ReductionShape
      <4>2. k \in live \ late /\ scopes'[k] = scopes[k] /\ k \notin want[o] \cup locked[o]
        BY <1>a, <1>l, <3>1, <3>5, <4>1
      <4> QED BY <1>j, <3>5, <4>2 DEF ReductionRead
    <3>6. ReductionRead(o)'
      BY <3>1, <3>5 DEF ReductionRead
    <3> QED BY <3>3, <3>4, <3>6
  <2> QED BY <2>1, <2>2
<1> QED BY <1>t, <1>r, <1>1, <1>3, <1>4 DEF IInv
-------------------------------------------------------------------------------
(* The rest of the host.                                                   *)

\* What a handler has checked is nobody's invariant.
LEMMA AskedPreserves ==
    ASSUME IInv, asked' \in [Handlers -> SUBSET [key : Keys, have : ScopeSets]],
           UNCHANGED <<role, exists, grants, scopes, late, tpl, prop, kind>>,
           UNCHANGED <<page, want, locked, moved, pc, cursor, batches>>,
           UNCHANGED <<who, to, auth, overtaken>>
    PROVE  IInv'
<1>0. live' = live
  BY DEF live
<1>1. TypeOK'
  BY <1>0 DEF IInv, TypeOK
<1>2. OnlyLateKeysStranded'
  BY <1>0 DEF IInv, OnlyLateKeysStranded, Covered, Authority
<1>3. ASSUME NEW t \in Txs PROVE RowLocks(t)'
  BY <1>0 DEF IInv, RowLocks
<1>4. ASSUME NEW w \in Writers PROVE CallShape(w)' /\ PageKeys(w)' /\ SweptBehind(w)'
  <2>1. CallShape(w)' /\ PageKeys(w)'
    BY DEF IInv, CallShape, PageKeys
  <2>2. SweptBehind(w)'
    BY <1>0, AheadSame DEF IInv, SweptBehind
  <2> QED BY <2>1, <2>2
<1>5. ASSUME NEW p \in Reducers
      PROVE  ReductionShape(p)' /\ ReductionAuthority(p)' /\ ReductionRead(p)'
  <2>1. ReductionShape(p) /\ ReductionAuthority(p) /\ ReductionRead(p)
    BY DEF IInv
  <2> QED BY <1>0, <2>1, ReductionKept
<1> QED BY <1>1, <1>2, <1>3, <1>4, <1>5 DEF IInv

\* A check, and a handler that gives up, change nothing else.
LEMMA CheckPreserves ==
    ASSUME IInv, NEW h \in Handlers,
           \/ \E k \in Keys, have \in ScopeSets : CheckKeyWrite(h, k, have)
           \/ GiveUp(h)
    PROVE  IInv'
<1>i. TypeOK
  BY DEF IInv
<1>1. asked' \in [Handlers -> SUBSET [key : Keys, have : ScopeSets]]
  <2>1. ASSUME NEW A \in SUBSET [key : Keys, have : ScopeSets], asked' = [asked EXCEPT ![h] = A]
        PROVE  asked' \in [Handlers -> SUBSET [key : Keys, have : ScopeSets]]
    BY <1>i, <2>1 DEF TypeOK
  <2>2. CASE GiveUp(h)
    BY <2>1, <2>2 DEF GiveUp
  <2>3. ASSUME NEW k \in Keys, NEW have \in ScopeSets, CheckKeyWrite(h, k, have)
        PROVE  asked' \in [Handlers -> SUBSET [key : Keys, have : ScopeSets]]
    <3>1. {[key |-> k, have |-> have]} \in SUBSET [key : Keys, have : ScopeSets]
      OBVIOUS
    <3> QED BY <2>1, <2>3, <3>1 DEF CheckKeyWrite
  <2> QED BY <2>2, <2>3
<1>2. /\ UNCHANGED <<role, exists, grants, scopes, late, tpl, prop, kind>>
      /\ UNCHANGED <<page, want, locked, moved, pc, cursor, batches>>
      /\ UNCHANGED <<who, to, auth, overtaken>>
  BY DEF CheckKeyWrite, GiveUp, memberVars, keyVars, callVars, batchVars, runVars
<1> QED BY <1>1, <1>2, AskedPreserves

\* A key written on an overtaken check, or where a sweep or a reduction has
\* been, is late; another one is covered and passed by all of them.
LEMMA WritePreserves ==
    ASSUME IInv, NEW h \in Handlers, NEW a \in asked[h],
           CreateAPIKey(h, a) \/ Update(h, a)
    PROVE  IInv'
<1>i. /\ TypeOK /\ OnlyLateKeysStranded
      /\ \A v \in Writers : CallShape(v) /\ PageKeys(v) /\ SweptBehind(v)
  BY DEF IInv
<1> DEFINE k == a.key
           have == a.have
<1>k. k \in Keys /\ have \in ScopeSets
  BY <1>i DEF TypeOK
<1>a. /\ UNCHANGED <<role, exists, grants, tpl, prop, kind, page, want, locked, moved>>
      /\ UNCHANGED <<pc, cursor, batches, who, to, auth, overtaken>>
      /\ scopes' = [scopes EXCEPT ![k] = have]
      /\ late' = (IF LateWrite(k, have) THEN late \cup {k} ELSE late \ {k})
      /\ asked' = [asked EXCEPT ![h] = {}]
  BY DEF CreateAPIKey, Update, WriteKey, memberVars, callVars, batchVars, runVars
<1> HIDE DEF k, have
<1>l. /\ live' = live \cup {k} /\ scopes'[k] = have
      /\ \A j \in Keys \ {k} : scopes'[j] = scopes[j]
  BY <1>i, <1>k, <1>a, ReconcileAssumption DEF live, TypeOK
<1>t. TypeOK'
  <2>1. asked' \in [Handlers -> SUBSET [key : Keys, have : ScopeSets]]
    BY <1>i, <1>a DEF TypeOK
  <2>2. scopes' \in [Keys -> ScopeSets \cup {NoKey}] /\ late' \subseteq live'
    BY <1>i, <1>k, <1>a, <1>l DEF TypeOK
  <2> QED BY <1>i, <1>a, <2>1, <2>2 DEF TypeOK
<1>r. ASSUME NEW t \in Txs PROVE RowLocks(t)'
  BY <1>a, <1>l DEF IInv, RowLocks
<1>o. ASSUME NEW j \in live' \ late', j # k PROVE j \in live \ late /\ scopes'[j] = scopes[j]
  BY <1>a, <1>l, <1>o DEF live
<1>n. ASSUME k \notin late'
      PROVE  Covered(k, have) /\ ~Missed(k, role[Owner[k]], have) /\ ~Overlooked(k, have)
  BY <1>a, <1>n DEF LateWrite
<1>1. ASSUME NEW v \in Writers PROVE CallShape(v)' /\ PageKeys(v)' /\ SweptBehind(v)'
  <2>1. CallShape(v)' /\ PageKeys(v)'
    BY <1>i, <1>a DEF CallShape, PageKeys
  <2>3. ASSUME pc[v] # "idle", NEW j \in live' \ late', role[Owner[j]] = tpl[v],
               ~Ahead(v, Owner[j]), j \notin want[v] \cup locked[v]
        PROVE  AuthorityRetained(scopes'[j], prop[v])
    <3>1. CASE j = k
      <4>1. ~Missed(k, role[Owner[k]], have)
        BY <1>n, <2>3, <3>1
      <4> QED BY <1>l, <2>3, <3>1, <4>1 DEF Missed
    <3>2. CASE j # k
      BY <1>i, <1>o, <2>3, <3>2 DEF SweptBehind
    <3> QED BY <3>1, <3>2
  <2>4. SweptBehind(v)'
    BY <1>a, <2>3, AheadSame DEF SweptBehind
  <2> QED BY <2>1, <2>4
<1>2. ASSUME NEW j \in live' \ late' PROVE Covered(j, scopes[j])'
  <2>1. CASE j = k
    BY <1>a, <1>l, <1>n, <1>2, <2>1 DEF Covered, Authority
  <2>2. CASE j # k
    <3>1. j \in live \ late /\ scopes'[j] = scopes[j]
      BY <1>o, <1>2, <2>2
    <3> QED BY <1>i, <1>a, <3>1 DEF OnlyLateKeysStranded, Covered, Authority
  <2> QED BY <2>1, <2>2
<1>3. OnlyLateKeysStranded'
  BY <1>2 DEF OnlyLateKeysStranded
<1>4. ASSUME NEW p \in Reducers
      PROVE  ReductionShape(p)' /\ ReductionAuthority(p)' /\ ReductionRead(p)'
  <2>0. ReductionShape(p) /\ ReductionAuthority(p) /\ ReductionRead(p)
    BY DEF IInv
  <2>1. ReductionShape(p)' /\ ReductionAuthority(p)'
    BY <1>a, <2>0 DEF ReductionShape, ReductionAuthority, Authority
  <2>2. ASSUME pc[p] = "lock", NEW j \in live' \ late', Owner[j] = who[p],
               j \notin want[p] \cup locked[p]
        PROVE  AuthorityRetained(scopes'[j], auth[p])
    <3>1. CASE j = k
      <4>1. ~Overlooked(k, have)
        BY <1>n, <2>2, <3>1
      <4> QED BY <1>l, <2>2, <3>1, <4>1 DEF Overlooked
    <3>2. CASE j # k
      BY <1>o, <2>0, <2>2, <3>2 DEF ReductionRead
    <3> QED BY <3>1, <3>2
  <2>3. ReductionRead(p)'
    BY <1>a, <2>2 DEF ReductionRead
  <2> QED BY <2>1, <2>3
<1> QED BY <1>t, <1>r, <1>1, <1>3, <1>4 DEF IInv

\* A revoked key is no longer selected by any batch or reduction.
LEMMA RevokePreserves ==
    ASSUME IInv, NEW k \in Keys, RevokeAPIKey(k)
    PROVE  IInv'
<1>i. /\ TypeOK /\ OnlyLateKeysStranded
      /\ \A v \in Writers : CallShape(v) /\ PageKeys(v) /\ SweptBehind(v)
  BY DEF IInv
<1>a. /\ UNCHANGED <<role, exists, grants, tpl, prop, kind, page, locked, moved>>
      /\ UNCHANGED <<pc, cursor, batches, who, to, auth, overtaken, asked>>
      /\ scopes' = Without({k}) /\ late' = late \ {k}
      /\ want' = [t \in Txs |-> want[t] \ {k}]
      /\ \A t \in Txs : k \notin locked[t]
  BY DEF RevokeAPIKey, KeyLocked, memberVars, callVars, runVars, hostVars
<1>l. live' = live \ {k} /\ \A j \in live' : scopes'[j] = scopes[j]
  BY <1>a DEF live, Without
<1>t. TypeOK'
  BY <1>i, <1>a, <1>l DEF TypeOK, Without
<1>r. ASSUME NEW t \in Txs PROVE RowLocks(t)'
  <2>1. RowLocks(t)
    BY DEF IInv
  <2> QED BY <1>a, <1>l, <2>1 DEF RowLocks
<1>1. ASSUME NEW v \in Writers PROVE CallShape(v)' /\ PageKeys(v)' /\ SweptBehind(v)'
  <2>0. want'[v] = want[v] \ {k}
    BY <1>a DEF Txs
  <2>1. CallShape(v)' /\ PageKeys(v)'
    BY <1>i, <1>a, <2>0 DEF CallShape, PageKeys
  <2>3. SweptBehind(v)'
    BY <1>i, <1>a, <1>l, <2>0, AheadSame DEF SweptBehind
  <2> QED BY <2>1, <2>3
<1>2. ASSUME NEW j \in live' \ late' PROVE Covered(j, scopes[j])'
  <2>1. j \in live \ late /\ scopes'[j] = scopes[j]
    BY <1>a, <1>l, <1>2
  <2> QED BY <1>i, <1>a, <2>1 DEF OnlyLateKeysStranded, Covered, Authority
<1>3. OnlyLateKeysStranded'
  BY <1>2 DEF OnlyLateKeysStranded
<1>4. ASSUME NEW p \in Reducers
      PROVE  ReductionShape(p)' /\ ReductionAuthority(p)' /\ ReductionRead(p)'
  <2>0. ReductionShape(p) /\ ReductionAuthority(p) /\ ReductionRead(p)
    BY DEF IInv
  <2>1. want'[p] = want[p] \ {k}
    BY <1>a DEF Txs
  <2>2. \A j \in live' \ late' :
            /\ j \in live \ late /\ scopes'[j] = scopes[j]
            /\ j \in want[p] => j \in want'[p]
    BY <1>a, <1>l, <2>1
  <2> QED BY <1>a, <2>0, <2>1, <2>2, ReductionKept
<1> QED BY <1>t, <1>r, <1>1, <1>3, <1>4 DEF IInv

\* The keys of someone who was no member ask for nothing, or are late.
LEMMA AddPreserves ==
    ASSUME IInv, NEW q \in Principals, NEW r \in Roles, AddMember(q, r)
    PROVE  IInv'
<1>i. /\ TypeOK /\ OnlyLateKeysStranded
      /\ \A v \in Writers : CallShape(v) /\ PageKeys(v) /\ SweptBehind(v)
  BY DEF IInv
<1>a. /\ UNCHANGED <<exists, grants, scopes, late, tpl, prop, kind, page, want, locked>>
      /\ UNCHANGED <<pc, cursor, batches, who, to, auth, overtaken, asked>> /\ live' = live
      /\ role[q] = NoMember /\ role' = [role EXCEPT ![q] = r]
      /\ moved' = Moved({q})
  BY DEF AddMember, keyVars, callVars, runVars, hostVars, live
<1>b. role'[q] = r /\ \A p \in Principals \ {q} : role'[p] = role[p]
  BY <1>i, <1>a DEF TypeOK
<1>c. ASSUME NEW k \in live \ late, Owner[k] = q, NEW S
      PROVE  AuthorityRetained(scopes[k], S)
  <2>1. Authority(role[q]) = {}
    BY <1>i, <1>a, ReconcileAssumption DEF Authority, TypeOK
  <2>2. AuthorityRetained(scopes[k], {})
    BY <1>i, <1>c, <2>1 DEF OnlyLateKeysStranded, Covered
  <2> QED BY <2>2, EmptyAuthority
<1>t. TypeOK'
  <2>1. moved' \in [Writers -> SUBSET Principals]
    BY <1>i, <1>a DEF TypeOK, Moved
  <2>2. role' \in [Principals -> Roles]
    BY <1>i, <1>a DEF TypeOK
  <2> QED BY <1>i, <1>a, <2>1, <2>2 DEF TypeOK
<1>r. ASSUME NEW t \in Txs PROVE RowLocks(t)'
  BY <1>a DEF IInv, RowLocks
<1>1. ASSUME NEW v \in Writers PROVE CallShape(v)' /\ PageKeys(v)' /\ SweptBehind(v)'
  <2>1. CallShape(v)'
    BY <1>i, <1>a DEF CallShape
  <2>2. PageKeys(v)'
    <3>1. \A k \in want[v] \cup locked[v] :
              Owner[k] \in page[v] /\ (role'[Owner[k]] = tpl[v] \/ Owner[k] \in moved'[v])
      BY <1>i, <1>a, <1>b, MovedIsSeen
    <3> QED BY <1>a, <3>1 DEF PageKeys
  <2>3. ASSUME pc[v] # "idle", NEW k \in live \ late, role'[Owner[k]] = tpl[v],
               ~Ahead(v, Owner[k]), k \notin want[v] \cup locked[v]
        PROVE  AuthorityRetained(scopes[k], prop[v])
    <3>1. CASE Owner[k] = q
      BY <1>c, <3>1
    <3>2. CASE Owner[k] # q
      <4>1. role[Owner[k]] = tpl[v]
        BY <1>b, <2>3, <3>2, ReconcileAssumption DEF live
      <4> QED BY <1>i, <2>3, <4>1 DEF SweptBehind
    <3> QED BY <3>1, <3>2
  <2>4. SweptBehind(v)'
    BY <1>a, <2>3, AheadSame DEF SweptBehind
  <2> QED BY <2>1, <2>2, <2>4
<1>2. ASSUME NEW k \in live' \ late' PROVE Covered(k, scopes[k])'
  <2>1. CASE Owner[k] = q
    BY <1>a, <1>2, <1>c, <2>1 DEF Covered
  <2>2. CASE Owner[k] # q
    <3>1. role'[Owner[k]] = role[Owner[k]] /\ Covered(k, scopes[k])
      BY <1>i, <1>a, <1>b, <1>2, <2>2, ReconcileAssumption DEF OnlyLateKeysStranded, live
    <3> QED BY <1>a, <3>1 DEF Covered, Authority
  <2> QED BY <2>1, <2>2
<1>3. OnlyLateKeysStranded'
  BY <1>2 DEF OnlyLateKeysStranded
<1>4. ASSUME NEW p \in Reducers
      PROVE  ReductionShape(p)' /\ ReductionAuthority(p)' /\ ReductionRead(p)'
  <2>0. ReductionShape(p) /\ ReductionAuthority(p) /\ ReductionRead(p)
    BY DEF IInv
  <2> QED BY <1>a, <2>0, ReductionKept
<1> QED BY <1>t, <1>r, <1>1, <1>3, <1>4 DEF IInv

-------------------------------------------------------------------------------
(* The theorems.                                                           *)

\* Every step of writers, reductions and host keeps the invariant.
LEMMA NextPreserves == IInv /\ [Next]_vars => IInv'
<1> SUFFICES ASSUME IInv, [Next]_vars PROVE IInv'
  OBVIOUS
<1>1. CASE UNCHANGED vars
  <2>1. /\ UNCHANGED <<role, exists, grants, scopes, late, tpl, prop, kind>>
        /\ UNCHANGED <<page, want, locked, moved, pc, cursor, batches>>
        /\ UNCHANGED <<who, to, auth, overtaken, asked>>
    BY <1>1 DEF vars, memberVars, keyVars, callVars, batchVars, runVars, hostVars
  <2>2. asked' \in [Handlers -> SUBSET [key : Keys, have : ScopeSets]]
    BY <2>1 DEF IInv, TypeOK
  <2> QED BY <2>1, <2>2, AskedPreserves
<1>2. ASSUME NEW w \in Writers, WriterStep(w) \/ WriterFault(w)
      PROVE  IInv'
  BY <1>2, ControlPreserves, BatchPreserves, CommitPreserves, UpdatePreserves, DeletePreserves,
     FailurePreserves DEF WriterStep, WriterFault
<1>3. CASE HostNext
  <2>1. ASSUME NEW p \in Reducers, ReducerStep(p) PROVE IInv'
    BY <2>1, ReducerReads, CommitReductionPreserves, RollbackPreserves DEF ReducerStep
  <2>2. ASSUME NEW h \in Handlers, HandlerNext(h) PROVE IInv'
    BY <2>2, CheckPreserves, WritePreserves DEF HandlerNext
  <2> QED BY <1>3, <2>1, <2>2, ReducePreserves, RevokePreserves, AddPreserves DEF HostNext
<1>4. CASE \E w \in Writers, t \in Templates, S \in ScopeSets, k \in {"update", "delete"} :
               Write(w, t, k, S)
  BY <1>4, ControlPreserves
<1> QED BY <1>1, <1>2, <1>3, <1>4 DEF Next

\* The invariant holds of every execution.
THEOREM Invariance == Spec => []IInv
  BY InitEstablishes, NextPreserves, PTL DEF Spec

\* Types hold and no call of ReconcileRoleTemplate runs more than MaxBatches.
THEOREM TypeCorrect == Spec => []TypeOK
<1>1. IInv => TypeOK
  BY DEF IInv
<1> QED BY <1>1, Invariance, PTL

\* Whatever the pages, stops, crashes, concurrent writers, reductions and key
\* handlers, a key carries more than its owner's template grants only if it was
\* written on an overtaken check or behind a sweep or a reduction's read, or was
\* kept by a reduction whose template changed under it, or moved to where a
\* sweep had been.
THEOREM StrandingIsBounded == Spec => []OnlyLateKeysStranded
<1>1. IInv => OnlyLateKeysStranded
  BY DEF IInv
<1> QED BY <1>1, Invariance, PTL

\* A batch or a reduction deletes every row it has selected (the count checks of
\* sweepBatchKeys and sweepDerivedKeys).
THEOREM NothingVanishesUnderLock == Spec => []LockedRowsStay
<1>1. IInv => LockedRowsStay
  BY DEF IInv, RowLocks, LockedRowsStay
<1> QED BY <1>1, Invariance, PTL

\* A sweep deletes only what its proposal strands, of members it re-verified.
THEOREM SweepIsPrecise == Spec => SweepSparesOthers
<1>1. IInv /\ [Next]_vars =>
          [\A w \in Writers : CommitBatch(w) =>
              \A k \in live \ live' :
                  /\ ~AuthorityRetained(scopes[k], prop[w])
                  /\ role[Owner[k]] = tpl[w] \/ Owner[k] \in moved[w]]_vars
  <2>1. ASSUME IInv, NEW w \in Writers, CommitBatch(w), NEW k \in live \ live'
        PROVE  /\ ~AuthorityRetained(scopes[k], prop[w])
               /\ role[Owner[k]] = tpl[w] \/ Owner[k] \in moved[w]
    <3>1. k \in Unretained(w)
      BY <2>1 DEF CommitBatch, Without, live
    <3> QED BY <2>1, <3>1 DEF Unretained, IInv, PageKeys
  <2> QED BY <2>1
<1> QED BY <1>1, Invariance, PTL DEF Spec, SweepSparesOthers

\* The members of a system template lose no key to a sweep, unless they
\* became its members after the batch read them.
THEOREM SystemTemplatesAreSafe == Spec => SystemTemplatesKeepKeys
<1>1. IInv /\ [Next]_vars =>
          [\A w \in Writers : CommitBatch(w) =>
              \A k \in live \ live' :
                  role[Owner[k]] \in System => Owner[k] \in moved[w]]_vars
  <2>1. ASSUME IInv, NEW w \in Writers, CommitBatch(w), NEW k \in live \ live',
               role[Owner[k]] \in System
        PROVE  Owner[k] \in moved[w]
    <3>1. k \in Unretained(w)
      BY <2>1 DEF CommitBatch, Without, live
    <3>2. tpl[w] \notin System
      BY <2>1 DEF IInv, CallShape, CommitBatch
    <3> QED BY <2>1, <3>1, <3>2 DEF Unretained, IInv, PageKeys
  <2> QED BY <2>1
<1> QED BY <1>1, Invariance, PTL DEF Spec, SystemTemplatesKeepKeys

-------------------------------------------------------------------------------
(* Progress of a sweep.                                                    *)

\* Principals are numbered from one, and a cursor is one of them or none.
LEMMA CursorIsNat ==
    ASSUME NEW c \in Principals \cup {0}
    PROVE  c \in Nat
<1>1. CASE c \in Principals BY <1>1, ReconcileAssumption
<1>2. CASE c = 0 BY <1>2
<1> QED BY <1>1, <1>2

\* Only its own steps move a writer's page and cursor.
LEMMA HostKeepsPages ==
    ASSUME HostNext
    PROVE  page' = page /\ cursor' = cursor
<1>1. ASSUME NEW p \in Reducers, NEW q \in Principals, NEW r \in Roles, Reduce(p, q, r)
      PROVE  page' = page /\ cursor' = cursor
  BY <1>1 DEF Reduce, batchVars
<1>2. ASSUME NEW p \in Reducers, ReducerStep(p) PROVE page' = page /\ cursor' = cursor
  BY <1>2 DEF ReducerStep, RetainedScopes, ReadOwnKeys, CommitReduction, Rollback, LockKey,
              batchVars, runVars
<1>3. ASSUME NEW h \in Handlers, HandlerNext(h) PROVE page' = page /\ cursor' = cursor
  BY <1>3 DEF HandlerNext, CheckKeyWrite, GiveUp, CreateAPIKey, Update, WriteKey, batchVars,
              runVars
<1>4. ASSUME NEW k \in Keys, RevokeAPIKey(k) PROVE page' = page /\ cursor' = cursor
  BY <1>4 DEF RevokeAPIKey, runVars
<1>5. ASSUME NEW q \in Principals, NEW r \in Roles, AddMember(q, r)
      PROVE  page' = page /\ cursor' = cursor
  BY <1>5 DEF AddMember, runVars
<1> QED BY <1>1, <1>2, <1>3, <1>4, <1>5 DEF HostNext

\* How a step may leave the page and the cursor of one writer.
LEMMA PageMoves ==
    ASSUME TypeOK, [Next]_vars, NEW w \in Writers
    PROVE  \/ page'[w] = {}
           \/ page'[w] = page[w] /\ (cursor'[w] = cursor[w] \/ cursor'[w] = 0)
           \/ /\ cursor'[w] = cursor[w] /\ page'[w] \subseteq AfterCursor(w)
              /\ Cardinality(page'[w]) <= BatchSize
<1>t. page \in [Writers -> SUBSET Principals] /\ cursor \in [Writers -> Principals \cup {0}]
  BY DEF TypeOK
<1>1. CASE page' = page /\ cursor' = cursor
  BY <1>1
<1>2. ASSUME NEW v \in Writers, Return(v) \/ CommitBatch(v)
      PROVE  page'[w] = {} \/ (page'[w] = page[w] /\ cursor'[w] = cursor[w])
  <2>1. CASE Return(v)
    <3>1. page' = [page EXCEPT ![v] = {}] /\ cursor' = [cursor EXCEPT ![v] = 0]
      BY <2>1 DEF Return
    <3>2. CASE v = w BY <1>t, <3>1, <3>2
    <3>3. CASE v # w BY <1>t, <3>1, <3>3
    <3> QED BY <3>2, <3>3
  <2>2. CASE CommitBatch(v)
    <3>1. page' = [page EXCEPT ![v] = {}] BY <2>2 DEF CommitBatch
    <3>2. PICK q \in Principals \cup {0} : cursor' = [cursor EXCEPT ![v] = q]
      BY <2>2 DEF CommitBatch
    <3>3. CASE v = w BY <1>t, <3>1, <3>3
    <3>4. CASE v # w BY <1>t, <3>1, <3>2, <3>4
    <3> QED BY <3>3, <3>4
  <2> QED BY <1>2, <2>1, <2>2
<1>3. ASSUME NEW v \in Writers, PlanBatch(v)
      PROVE  \/ page'[w] = page[w] /\ cursor'[w] = cursor[w]
             \/ /\ cursor'[w] = cursor[w] /\ page'[w] \subseteq AfterCursor(w)
                /\ Cardinality(page'[w]) <= BatchSize
  <2>1. PICK P \in SUBSET AfterCursor(v) :
            IsPage(P, AfterCursor(v), BatchSize) /\ page' = [page EXCEPT ![v] = P]
    BY <1>3 DEF PlanBatch
  <2>2. cursor' = cursor BY <1>3 DEF PlanBatch
  <2>3. CASE v = w BY <2>1, <2>2, <2>3 DEF TypeOK, IsPage
  <2>4. CASE v # w BY <2>1, <2>2, <2>4 DEF TypeOK
  <2> QED BY <2>3, <2>4
<1>4. ASSUME NEW v \in Writers, NEW t \in Templates, NEW S \in ScopeSets,
             NEW k \in {"update", "delete"}, Write(v, t, k, S)
      PROVE  page'[w] = page[w] /\ (cursor'[w] = cursor[w] \/ cursor'[w] = 0)
  BY <1>4 DEF Write, TypeOK, batchVars
<1>5. ASSUME NEW v \in Writers, WriterStep(v) \/ WriterFault(v)
      PROVE  \/ Return(v) \/ CommitBatch(v) \/ PlanBatch(v)
             \/ page' = page /\ cursor' = cursor
  <2>1. CASE \E k \in Keys : LockKey(v, k)
    BY <2>1 DEF LockKey, runVars
  <2> QED BY <1>5, <2>1
      DEF WriterStep, WriterFault, Resume, StopAtMaxBatches, ReadKeys, MutateUpdate, MutateDelete,
          MutateFails, Abandon, Cancelled, BatchFails, Crash, batchVars
<1>6. CASE HostNext
  BY <1>1, <1>6, HostKeepsPages
<1>7. CASE UNCHANGED vars
  BY <1>1, <1>7 DEF vars, batchVars, runVars
<1> QED BY <1>1, <1>2, <1>3, <1>4, <1>5, <1>6, <1>7 DEF Next

\* Every page ReconcileRoleTemplate plans is bounded and after its cursor.
THEOREM PagesStayAhead == Spec => []PagesAreAhead
<1>1. Init => PagesAreAhead
  <2>1. Cardinality({}) = 0 BY FS_EmptySet
  <2> QED BY <2>1, ReconcileAssumption DEF Init, PagesAreAhead
<1>2. ASSUME TypeOK, TypeOK', PagesAreAhead, [Next]_vars, NEW w \in Writers
      PROVE  Cardinality(page'[w]) <= BatchSize /\ \A q \in page'[w] : q > cursor'[w]
  <2>1. CASE page'[w] = {}
    BY <2>1, FS_EmptySet, ReconcileAssumption
  <2>2. CASE page'[w] = page[w] /\ (cursor'[w] = cursor[w] \/ cursor'[w] = 0)
    <3>1. \A q \in page'[w] : q \in Nat \ {0} BY <1>2, ReconcileAssumption DEF TypeOK
    <3> QED BY <1>2, <2>2, <3>1 DEF PagesAreAhead
  <2>3. CASE /\ cursor'[w] = cursor[w] /\ page'[w] \subseteq AfterCursor(w)
             /\ Cardinality(page'[w]) <= BatchSize
    BY <2>3 DEF AfterCursor
  <2> QED BY <1>2, <2>1, <2>2, <2>3, PageMoves
<1>3. TypeOK /\ TypeOK' /\ PagesAreAhead /\ [Next]_vars => PagesAreAhead'
  BY <1>2 DEF PagesAreAhead
<1> QED BY <1>1, <1>3, TypeCorrect, PTL DEF Spec

\* While a call goes on its cursor stays, unless its own batch commits.
LEMMA CursorMoves ==
    ASSUME TypeOK, Next, NEW w \in Writers, pc[w] # "idle", pc'[w] # "idle", ~CommitBatch(w)
    PROVE  cursor'[w] = cursor[w]
<1>1. CASE cursor' = cursor
  BY <1>1
<1>2. ASSUME NEW v \in Writers, Return(v) PROVE cursor'[w] = cursor[w]
  <2>1. v # w BY <1>2 DEF Return, TypeOK, Txs
  <2> QED BY <1>2, <2>1 DEF Return, TypeOK
<1>3. ASSUME NEW v \in Writers, CommitBatch(v) PROVE cursor'[w] = cursor[w]
  <2>1. v # w BY <1>3
  <2> QED BY <1>3, <2>1 DEF CommitBatch, TypeOK
<1>4. ASSUME NEW v \in Writers, NEW t \in Templates, NEW S \in ScopeSets,
             NEW k \in {"update", "delete"}, Write(v, t, k, S)
      PROVE  cursor'[w] = cursor[w]
  <2>1. v # w BY <1>4 DEF Write
  <2> QED BY <1>4, <2>1 DEF Write, TypeOK
<1>5. ASSUME NEW v \in Writers, WriterStep(v) \/ WriterFault(v)
      PROVE  Return(v) \/ CommitBatch(v) \/ cursor' = cursor
  <2>1. CASE \E k \in Keys : LockKey(v, k)
    BY <2>1 DEF LockKey, runVars
  <2> QED BY <1>5, <2>1
      DEF WriterStep, WriterFault, Resume, StopAtMaxBatches, PlanBatch, ReadKeys, MutateUpdate,
          MutateDelete, MutateFails, Abandon, Cancelled, BatchFails, Crash
<1>6. CASE HostNext
  BY <1>1, <1>6, HostKeepsPages
<1> QED BY <1>1, <1>2, <1>3, <1>4, <1>5, <1>6 DEF Next

\* The commit of a batch moves the cursor to the end of its page, and deletes
\* keys only of the page's principals.
LEMMA CommitAdvances ==
    ASSUME IInv, PagesAreAhead, NEW w \in Writers, CommitBatch(w)
    PROVE  /\ cursor'[w] > cursor[w]
           /\ \A k \in live \ live' : cursor[w] < Owner[k] /\ Owner[k] <= cursor'[w]
<1>i. TypeOK /\ PageKeys(w) BY DEF IInv
<1>1. PICK q \in Principals \cup {0} : NextCursor(w, q) /\ cursor' = [cursor EXCEPT ![w] = q]
  BY DEF CommitBatch
<1>2. cursor'[w] = q /\ q \in page[w] /\ \A r \in page[w] : r <= q
  BY <1>i, <1>1 DEF TypeOK, NextCursor
<1>3. \A r \in page[w] : r > cursor[w] BY DEF PagesAreAhead
<1>4. ASSUME NEW k \in live \ live' PROVE Owner[k] \in page[w]
  <2>1. k \in Unretained(w) BY DEF CommitBatch, Without, live
  <2> QED BY <1>i, <2>1 DEF PageKeys, Unretained
<1>5. page[w] \subseteq Nat /\ cursor[w] \in Nat
  <2>1. page[w] \subseteq Principals /\ cursor[w] \in Principals \cup {0} BY <1>i DEF TypeOK
  <2>2. Principals \subseteq Nat BY ReconcileAssumption
  <2>3. page[w] \subseteq Nat BY <2>1, <2>2
  <2>4. cursor[w] \in Nat BY <2>1, CursorIsNat
  <2> QED BY <2>3, <2>4
<1> QED BY <1>2, <1>3, <1>4, <1>5

\* A sweep, with all its stops and resumptions, passes over each principal once.
THEOREM SweepsGoForward == Spec => SweepGoesForward
<1>1. ASSUME IInv, PagesAreAhead, Next, NEW w \in Writers, pc[w] # "idle", pc'[w] # "idle"
      PROVE  /\ cursor'[w] >= cursor[w]
             /\ CommitBatch(w) =>
                 /\ cursor'[w] > cursor[w]
                 /\ \A k \in live \ live' : cursor[w] < Owner[k] /\ Owner[k] <= cursor'[w]
  <2>1. TypeOK /\ TypeOK' BY <1>1, NextPreserves DEF IInv
  <2>2. cursor[w] \in Nat /\ cursor'[w] \in Nat
    <3>1. cursor[w] \in Principals \cup {0} /\ cursor'[w] \in Principals \cup {0}
      BY <2>1 DEF TypeOK
    <3> QED BY <3>1, CursorIsNat
  <2>3. CASE CommitBatch(w) BY <1>1, <2>2, <2>3, CommitAdvances
  <2>4. CASE ~CommitBatch(w) BY <1>1, <2>1, <2>2, <2>4, CursorMoves
  <2> QED BY <2>3, <2>4
<1>2. IInv /\ PagesAreAhead /\ [Next]_vars =>
        [\A w \in Writers : pc[w] # "idle" /\ pc'[w] # "idle" =>
            /\ cursor'[w] >= cursor[w]
            /\ CommitBatch(w) =>
                /\ cursor'[w] > cursor[w]
                /\ \A k \in live \ live' : cursor[w] < Owner[k] /\ Owner[k] <= cursor'[w]]_vars
  BY <1>1
<1> QED BY <1>2, Invariance, PagesStayAhead, PTL DEF Spec, SweepGoesForward
===============================================================================
