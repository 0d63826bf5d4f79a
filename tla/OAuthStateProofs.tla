---------------------------- MODULE OAuthStateProofs ----------------------------
(***************************************************************************)
(* Proofs about OAuthState, for any states, markers, purposes, lifetimes,   *)
(* capacity and number of goroutines.                                       *)
(***************************************************************************)
EXTENDS OAuthState, FiniteSetTheorems, TLAPS

\* The rest of the invariant, without the goroutines.
StoreInv == TypeOK /\ IsFiniteSet(held) /\ CapacityBound /\ StoredStates /\ MarkersHeld

CallersInv == \A c \in Callers : Storing(c) /\ Checking(c) /\ Registers(c)

\* At first nothing is stored and nobody is called.
LEMMA InitEstablishes == Init => IInv
<1> SUFFICES ASSUME Init PROVE IInv
  OBVIOUS
<1>1. TypeOK
  <2>1. clock \in 0 .. MaxTime
    BY StoreAssumption DEF Init
  <2>2. exp \in [AllKeys -> Nat] /\ denied \in [Markers -> Nat]
    BY DEF Init
  <2>3. key \in [Callers -> AllKeys \cup {NoKey}] /\ purpose \in [Callers -> Purposes \cup {NoPurpose}]
        /\ ttl \in [Callers -> TTLs \cup {0}]
    BY DEF Init
  <2>4. until \in [Callers -> Nat] /\ now \in [Callers -> Nat] /\ \A c \in Callers : now[c] <= clock
    BY DEF Init
  <2> QED BY <2>1, <2>2, <2>3, <2>4 DEF Init, TypeOK
<1>2. held = {}
  BY DEF Init, held
<1>3. IsFiniteSet(held) /\ CapacityBound
  BY <1>2, FS_EmptySet, StoreAssumption DEF CapacityBound
<1>4. StoredStates /\ MarkersHeld
  BY <1>2 DEF Init, StoredStates, MarkersHeld
<1>5. ASSUME NEW c \in Callers PROVE Storing(c) /\ Checking(c) /\ Registers(c)
  BY DEF Init, Storing, Checking, Registers
<1> QED BY <1>1, <1>3, <1>4, <1>5 DEF IInv

\* A subset of a namespace's entries is no larger.
LEMMA NoMore ==
    ASSUME NEW S, NEW T, IsFiniteSet(S), T \subseteq S
    PROVE  IsFiniteSet(T) /\ Cardinality(T) <= Cardinality(S)
           /\ Cardinality(T) \in Nat /\ Cardinality(S) \in Nat
  BY FS_Subset, FS_CardinalityType

\* Deleting entries keeps the store's part, if no marker that denies is deleted.
LEMMA DeletionKeeps ==
    ASSUME StoreInv, NEW G \in SUBSET AllKeys, exp' = Without(G),
           UNCHANGED <<clock, ticket, minted, denied>>, TypeOK',
           \A m \in G \cap Markers : m \in held => exp[m] <= clock
    PROVE  StoreInv' /\ held' = held \ G /\ \A k \in held' : exp'[k] = exp[k]
<1>1. held' = held \ G /\ \A k \in held' : exp'[k] = exp[k]
  BY DEF held, Without
<1>2. IsFiniteSet(held')
  BY <1>1, FS_Subset DEF StoreInv
<1>3. CapacityBound'
  <2>1. IsFiniteSet(held \cap States) /\ IsFiniteSet(held \cap Markers)
    BY FS_Subset DEF StoreInv
  <2>2. held' \cap States \subseteq held \cap States /\ held' \cap Markers \subseteq held \cap Markers
    BY <1>1
  <2>3. Cardinality(held' \cap States) <= Cardinality(held \cap States)
        /\ Cardinality(held' \cap States) \in Nat /\ Cardinality(held \cap States) \in Nat
    BY <2>1, <2>2, NoMore
  <2>4. Cardinality(held' \cap Markers) <= Cardinality(held \cap Markers)
        /\ Cardinality(held' \cap Markers) \in Nat /\ Cardinality(held \cap Markers) \in Nat
    BY <2>1, <2>2, NoMore
  <2> QED BY <2>3, <2>4, StoreAssumption DEF StoreInv, CapacityBound
<1>4. StoredStates'
  BY <1>1 DEF StoreInv, StoredStates
<1>5. MarkersHeld'
  <2>1. ASSUME NEW m \in Markers, clock < denied[m] PROVE m \in held' /\ exp'[m] = denied[m]
    <3>1. m \in held /\ exp[m] = denied[m] /\ ~(exp[m] <= clock)
      BY <2>1 DEF StoreInv, MarkersHeld, TypeOK, AllKeys
    <3> QED BY <1>1, <3>1
  <2> QED BY <2>1 DEF MarkersHeld
<1> QED BY <1>1, <1>2, <1>3, <1>4, <1>5 DEF StoreInv

\* A call that returns leaves nothing to be said of its goroutine.
LEMMA ReturnClears ==
    ASSUME TypeOK, NEW c \in Callers, Return(c)
    PROVE  /\ pc' \in [Callers -> {"idle", "enter", "put", "take", "check"}]
           /\ key' \in [Callers -> AllKeys \cup {NoKey}]
           /\ purpose' \in [Callers -> Purposes \cup {NoPurpose}]
           /\ ttl' \in [Callers -> TTLs \cup {0}]
           /\ until' \in [Callers -> Nat]
           /\ now' \in [Callers -> Nat]
           /\ \A d \in Callers : now'[d] <= clock
           /\ pc'[c] = "idle"
           /\ \A d \in Callers \ {c} : /\ pc'[d] = pc[d] /\ key'[d] = key[d]
                                       /\ ttl'[d] = ttl[d] /\ purpose'[d] = purpose[d]
<1>1. now' \in [Callers -> Nat] /\ \A d \in Callers : now'[d] <= clock
  BY DEF Return, TypeOK
<1> QED BY <1>1 DEF Return, Goto, TypeOK

\* The goroutines' part, when one of them returns and no state is stored.
LEMMA ReturnKeeps ==
    ASSUME IInv, NEW c \in Callers, Return(c), UNCHANGED <<ticket, minted>>, held' \subseteq held
    PROVE  CallersInv'
<1>1. /\ pc'[c] = "idle"
      /\ \A d \in Callers \ {c} : /\ pc'[d] = pc[d] /\ key'[d] = key[d]
                                  /\ ttl'[d] = ttl[d] /\ purpose'[d] = purpose[d]
  BY ReturnClears DEF IInv
<1>2. ASSUME NEW d \in Callers PROVE Storing(d)' /\ Checking(d)' /\ Registers(d)'
  BY <1>1 DEF IInv, Storing, Checking, Registers
<1> QED BY <1>2 DEF CallersInv

\* A call begins, or reads the time.
LEMMA CallPreserves ==
    ASSUME IInv, NEW c \in Callers, Call(c) \/ EnterPut(c)
    PROVE  IInv'
<1>i. StoreInv /\ CallersInv /\ TypeOK
  BY DEF IInv, StoreInv, CallersInv
<1>a. UNCHANGED <<clock, exp, ticket, closed, redeemed, denied>> /\ minted \subseteq minted'
  BY DEF Call, Issue, Reserve, Consume, EnterPut, storeVars, doneVars
<1>b. /\ pc' \in [Callers -> {"idle", "enter", "put", "take", "check"}]
      /\ key' \in [Callers -> AllKeys \cup {NoKey}]
      /\ minted' \subseteq States
      /\ \A d \in Callers \ {c} : /\ pc'[d] = pc[d] /\ key'[d] = key[d]
                                  /\ ttl'[d] = ttl[d] /\ purpose'[d] = purpose[d]
  BY <1>i DEF Call, Issue, Reserve, Consume, EnterPut, Goto, TypeOK, AllKeys
<1>t. TypeOK'
  <2>1. purpose' \in [Callers -> Purposes \cup {NoPurpose}] /\ ttl' \in [Callers -> TTLs \cup {0}]
    BY <1>i DEF Call, Issue, Reserve, Consume, EnterPut, TypeOK
  <2>2. until' \in [Callers -> Nat]
    BY <1>i, StoreAssumption DEF Call, Issue, Reserve, Consume, EnterPut, TypeOK
  <2>3. now' \in [Callers -> Nat] /\ \A d \in Callers : now'[d] <= clock
    BY <1>i DEF Call, Issue, Reserve, Consume, EnterPut, TypeOK
  <2> QED BY <1>i, <1>a, <1>b, <2>1, <2>2, <2>3 DEF TypeOK
<1>h. held' = held
  BY <1>a DEF held
<1>1. IsFiniteSet(held') /\ CapacityBound' /\ StoredStates' /\ MarkersHeld'
  BY <1>i, <1>a, <1>h DEF StoreInv, CapacityBound, StoredStates, MarkersHeld
<1>2. ASSUME NEW s \in States, NEW p \in Purposes, NEW t \in TTLs, Issue(c, s, p, t)
      PROVE  CallersInv'
  <2>1. /\ pc'[c] = "enter" /\ key'[c] = s /\ s \in minted' /\ s \notin minted /\ pc[c] = "idle"
        /\ ttl'[c] = t /\ purpose'[c] = p
    BY <1>i, <1>2 DEF Issue, Goto, TypeOK
  <2>2. ticket[s] = NoTicket
    BY <1>i, <2>1 DEF StoreInv, StoredStates
  <2>3. ASSUME NEW d \in Callers PROVE Storing(d)' /\ Checking(d)' /\ Registers(d)'
    BY <1>i, <1>a, <1>b, <1>h, <2>1, <2>2 DEF CallersInv, Storing, Checking, Registers
  <2> QED BY <2>3 DEF CallersInv
<1>3. ASSUME NEW m \in Markers, NEW t \in TTLs, Reserve(c, m, t)
      PROVE  CallersInv'
  <2>1. pc'[c] = "enter" /\ key'[c] = m /\ m \notin States /\ minted' = minted
        /\ ttl'[c] = t
    BY <1>i, <1>3, StoreAssumption DEF Reserve, Goto, TypeOK
  <2>3. ASSUME NEW d \in Callers PROVE Storing(d)' /\ Checking(d)' /\ Registers(d)'
    BY <1>i, <1>a, <1>b, <1>h, <2>1 DEF CallersInv, Storing, Checking, Registers
  <2> QED BY <2>3 DEF CallersInv
<1>4. ASSUME NEW s \in States, NEW p \in Purposes, Consume(c, p, s)
      PROVE  CallersInv'
  <2>1. pc'[c] = "take" /\ key'[c] = s /\ minted' = minted
    BY <1>i, <1>4 DEF Consume, Goto, TypeOK
  <2>3. ASSUME NEW d \in Callers PROVE Storing(d)' /\ Checking(d)' /\ Registers(d)'
    BY <1>i, <1>a, <1>b, <1>h, <2>1 DEF CallersInv, Storing, Checking, Registers
  <2> QED BY <2>3 DEF CallersInv
<1>5. ASSUME EnterPut(c) PROVE CallersInv'
  <2>1. pc[c] = "enter" /\ pc'[c] = "put" /\ key' = key /\ minted' = minted
        /\ ttl' = ttl /\ purpose' = purpose
    BY <1>i, <1>5 DEF EnterPut, Goto, TypeOK
  <2>3. ASSUME NEW d \in Callers PROVE Storing(d)' /\ Checking(d)' /\ Registers(d)'
    BY <1>i, <1>a, <1>b, <1>h, <2>1 DEF CallersInv, Storing, Checking, Registers
  <2> QED BY <2>3 DEF CallersInv
<1>6. CallersInv'
  BY <1>2, <1>3, <1>4, <1>5 DEF Call
<1> QED BY <1>t, <1>1, <1>6 DEF IInv, CallersInv

\* PutIfAbsent refuses, Consume checks: the store only loses expired entries.
LEMMA ReturnPreserves ==
    ASSUME IInv, NEW c \in Callers, PutExists(c) \/ PutFull(c) \/ Check(c)
    PROVE  IInv'
<1>i. StoreInv /\ TypeOK /\ Checking(c)
  BY DEF IInv, StoreInv
<1>a. Return(c) /\ UNCHANGED <<clock, ticket, minted, closed, denied>>
  BY DEF PutExists, PutFull, Check, storeVars, doneVars
<1>r. redeemed' \in [States -> Purposes \cup {NoPurpose}]
  BY <1>i DEF PutExists, PutFull, Check, Checking, TypeOK, doneVars
<1>1. ASSUME NEW G \in SUBSET AllKeys, exp' = Without(G),
             \A m \in G \cap Markers : m \in held => exp[m] <= clock
      PROVE  IInv'
  <2>t. TypeOK'
    <3>1. exp' \in [AllKeys -> Nat]
      BY <1>i, <1>1 DEF Without, TypeOK
    <3> QED BY <1>i, <1>a, <1>r, <3>1, ReturnClears DEF TypeOK
  <2>1. StoreInv' /\ held' \subseteq held
    BY <1>i, <1>a, <1>1, <2>t, DeletionKeeps
  <2>2. CallersInv'
    BY <1>a, <2>1, ReturnKeeps
  <2> QED BY <2>1, <2>2 DEF IInv, StoreInv, CallersInv
<1>2. CASE PutExists(c) \/ Check(c)
  <2>1. exp' = Without({})
    BY <1>2, <1>i DEF PutExists, Check, storeVars, Without, TypeOK
  <2> QED BY <2>1, <1>1
<1>3. CASE PutFull(c)
  <2>1. exp' = Without(Expired(now[c])) /\ Expired(now[c]) \in SUBSET AllKeys
    BY <1>3 DEF PutFull, Expired, held
  <2>2. \A m \in Expired(now[c]) : exp[m] <= clock
    BY <1>i DEF Expired, TypeOK, held
  <2> QED BY <2>1, <2>2, <1>1
<1> QED BY <1>2, <1>3

\* The steps of the janitor, of Close and of time, and Take.
LEMMA StorePreserves ==
    ASSUME IInv, Tick \/ Sweep \/ Close \/ \E c \in Callers : Take(c)
    PROVE  IInv'
<1>i. StoreInv /\ TypeOK /\ CallersInv
  BY DEF IInv, StoreInv, CallersInv
<1>1. ASSUME Tick PROVE IInv'
  <2>1. clock' = clock + 1 /\ clock < MaxTime
        /\ UNCHANGED <<exp, ticket, minted, closed, pc, key, purpose, ttl, until, now, redeemed, denied>>
    BY <1>1 DEF Tick, storeVars, callVars, doneVars
  <2>t. TypeOK'
    <3>1. clock' \in 0 .. MaxTime
      BY <1>i, <2>1, StoreAssumption DEF TypeOK
    <3>2. \A c \in Callers : now'[c] <= clock'
      BY <1>i, <2>1, StoreAssumption DEF TypeOK
    <3> QED BY <1>i, <2>1, <3>1, <3>2 DEF TypeOK
  <2>2. held' = held
    BY <2>1 DEF held
  <2>3. IsFiniteSet(held)' /\ CapacityBound' /\ StoredStates'
    BY <1>i, <2>1, <2>2 DEF StoreInv, CapacityBound, StoredStates
  <2>4. MarkersHeld'
    BY <1>i, <2>1, <2>2, StoreAssumption DEF StoreInv, MarkersHeld, TypeOK
  <2>5. CallersInv'
    BY <1>i, <2>1, <2>2 DEF CallersInv, Storing, Checking, Registers
  <2> QED BY <2>t, <2>3, <2>4, <2>5 DEF IInv, CallersInv
<1>2. ASSUME Sweep PROVE IInv'
  <2>1. /\ exp' = Without(Expired(clock)) /\ Expired(clock) \in SUBSET AllKeys
        /\ UNCHANGED <<clock, ticket, minted, closed, pc, key, purpose, ttl, until, now, redeemed, denied>>
    BY <1>2 DEF Sweep, Expired, held, callVars, doneVars
  <2>2. \A m \in Expired(clock) : exp[m] <= clock
    BY <1>i, StoreAssumption DEF Expired, held, TypeOK
  <2>t. TypeOK'
    <3>1. exp' \in [AllKeys -> Nat]
      BY <1>i, <2>1 DEF Without, TypeOK
    <3> QED BY <1>i, <2>1, <3>1 DEF TypeOK
  <2>3. StoreInv' /\ held' \subseteq held
    BY <1>i, <2>1, <2>2, <2>t, DeletionKeeps
  <2>4. CallersInv'
    BY <1>i, <2>1, <2>3 DEF CallersInv, Storing, Checking, Registers
  <2> QED BY <2>3, <2>4 DEF IInv, StoreInv, CallersInv
<1>3. ASSUME Close PROVE IInv'
  <2>1. /\ exp' = [k \in AllKeys |-> 0] /\ closed' = TRUE /\ denied' = [m \in Markers |-> 0]
        /\ UNCHANGED <<clock, ticket, minted, pc, key, purpose, ttl, until, now, redeemed>>
    BY <1>3 DEF Close, callVars
  <2>2. held' = {}
    BY <2>1 DEF held
  <2>t. TypeOK'
    BY <1>i, <2>1 DEF TypeOK
  <2>3. IsFiniteSet(held)' /\ CapacityBound'
    BY <2>2, FS_EmptySet, StoreAssumption DEF CapacityBound
  <2>4. StoredStates' /\ MarkersHeld'
    <3>1. \A m \in Markers : ~(clock' < denied'[m])
      BY <1>i, <2>1, StoreAssumption DEF TypeOK
    <3> QED BY <1>i, <2>1, <2>2, <3>1 DEF StoreInv, StoredStates, MarkersHeld
  <2>5. CallersInv'
    BY <1>i, <2>1, <2>2 DEF CallersInv, Storing, Checking, Registers
  <2> QED BY <2>t, <2>3, <2>4, <2>5 DEF IInv, CallersInv
<1>4. ASSUME NEW c \in Callers, Take(c) PROVE IInv'
  <2>1. /\ pc[c] = "take" /\ key[c] \in States /\ exp' = Without({key[c]})
        /\ UNCHANGED <<clock, ticket, minted, closed, redeemed, denied>>
    BY <1>i, <1>4 DEF Take, CallersInv, Registers, doneVars
  <2>2. {key[c]} \in SUBSET AllKeys /\ {key[c]} \cap Markers = {}
    BY <2>1, StoreAssumption DEF AllKeys
  <2>3. exp' \in [AllKeys -> Nat]
    BY <1>i, <2>1 DEF Without, TypeOK
  <2>4. ASSUME Return(c) PROVE IInv'
    <3>t. TypeOK'
      BY <1>i, <2>1, <2>3, <2>4, ReturnClears DEF TypeOK
    <3>1. StoreInv' /\ held' \subseteq held
      BY <1>i, <2>1, <2>2, <3>t, DeletionKeeps
    <3>2. CallersInv'
      BY <2>1, <2>4, <3>1, ReturnKeeps
    <3> QED BY <3>1, <3>2 DEF IInv, StoreInv, CallersInv
  <2>5. ASSUME key[c] \in held, Goto(c, "check"), UNCHANGED <<key, purpose, ttl, until, now>>
        PROVE  IInv'
    <3>1. pc' = [pc EXCEPT ![c] = "check"]
      BY <2>5 DEF Goto
    <3>t. TypeOK'
      BY <1>i, <2>1, <2>3, <2>5, <3>1 DEF TypeOK
    <3>2. StoreInv' /\ held' = held \ {key[c]}
      BY <1>i, <2>1, <2>2, <3>t, DeletionKeeps
    <3>3. ticket[key[c]] # NoTicket
      BY <1>i, <2>1, <2>5 DEF StoreInv, StoredStates
    <3>4. pc'[c] = "check" /\ \A d \in Callers \ {c} : pc'[d] = pc[d]
      BY <1>i, <3>1 DEF TypeOK
    <3>5. ASSUME NEW d \in Callers PROVE Storing(d)' /\ Checking(d)' /\ Registers(d)'
      <4>1. Storing(d)' /\ Registers(d)'
        BY <1>i, <2>1, <2>5, <3>4 DEF CallersInv, Storing, Registers
      <4>2. CASE d = c
        <5>1. Checking(c)'
          BY <1>i, <2>1, <2>5, <3>2, <3>3, <3>4 DEF CallersInv, Checking
        <5> QED BY <4>1, <4>2, <5>1
      <4>3. CASE d # c
        <5>1. Checking(d)'
          BY <1>i, <2>1, <2>5, <3>2, <3>4, <4>3 DEF CallersInv, Checking
        <5> QED BY <4>1, <5>1
      <4> QED BY <4>2, <4>3
    <3> QED BY <3>2, <3>5 DEF IInv, StoreInv, CallersInv
  <2> QED BY <1>4, <2>4, <2>5 DEF Take
<1> QED BY <1>1, <1>2, <1>3, <1>4

\* The time a call that stores has read, and how long its entry lives.
LEMMA TimesAreNat ==
    ASSUME TypeOK, NEW c \in Callers, Registers(c), pc[c] = "put"
    PROVE  now[c] <= clock /\ now[c] \in Nat /\ clock \in Nat /\ ttl[c] \in Nat \ {0}
<1>1. ttl[c] \in TTLs
  BY DEF Registers
<1>2. ttl[c] \in Nat \ {0}
  BY <1>1, StoreAssumption
<1>3. clock \in Nat
  BY StoreAssumption DEF TypeOK
<1> QED BY <1>2, <1>3 DEF TypeOK

\* One entry more than there was.
LEMMA OneMore ==
    ASSUME NEW S, NEW x, IsFiniteSet(S)
    PROVE  IsFiniteSet(S \cup {x}) /\ Cardinality(S) \in Nat
           /\ Cardinality(S \cup {x}) \in Nat /\ Cardinality(S \cup {x}) <= Cardinality(S) + 1
  BY FS_AddElement, FS_CardinalityType

\* A marker is admitted only into free room, and denies from now on.
LEMMA MarkerPreserves ==
    ASSUME IInv, NEW c \in Callers, PutMarker(c)
    PROVE  IInv' /\ denied[key[c]] <= clock
<1> DEFINE m == key[c]
           gone == Expired(now[c])
           e == now[c] + ttl[c]
           kept == held \ gone
<1>i. StoreInv /\ TypeOK /\ Registers(c)
  BY DEF IInv, StoreInv
<1>a. /\ m \in Markers /\ m \notin States /\ pc[c] = "put" /\ ~Live(m, now[c])
      /\ exp' = [Without(gone) EXCEPT ![m] = e]
      /\ denied' = [denied EXCEPT ![m] = e]
      /\ Return(c) /\ UNCHANGED <<clock, ticket, minted, closed, redeemed>>
      /\ Cardinality(kept \cap Markers) < MaxEntries
  BY StoreAssumption DEF PutMarker, HasRoom
<1>n. now[c] <= clock /\ now[c] \in Nat /\ clock \in Nat /\ ttl[c] \in Nat \ {0}
  BY <1>i, <1>a, TimesAreNat
<1>b. e \in Nat /\ e # 0 /\ now[c] <= clock /\ now[c] \in Nat /\ clock \in Nat
  BY <1>n
<1>c. /\ held' = kept \cup {m} /\ exp'[m] = e
      /\ \A k \in kept \ {m} : exp'[k] = exp[k]
  BY <1>a, <1>b DEF held, Without, AllKeys
<1>t. TypeOK'
  <2>1. exp' \in [AllKeys -> Nat] /\ denied' \in [Markers -> Nat]
    BY <1>i, <1>a, <1>b DEF Without, TypeOK, AllKeys
  <2> QED BY <1>i, <1>a, <2>1, ReturnClears DEF TypeOK
<1>1. IsFiniteSet(kept \cap States) /\ IsFiniteSet(kept \cap Markers) /\ IsFiniteSet(kept)
      /\ IsFiniteSet(held \cap States)
  BY <1>i, FS_Subset DEF StoreInv
<1>2. IsFiniteSet(held')
  BY <1>1, <1>c, OneMore
<1>3. CapacityBound'
  <2>1. held' \cap States \subseteq held \cap States /\ held' \cap Markers = (kept \cap Markers) \cup {m}
    BY <1>a, <1>c
  <2>2. Cardinality(held' \cap States) <= MaxEntries
    BY <1>i, <1>1, <2>1, NoMore, StoreAssumption DEF StoreInv, CapacityBound
  <2>3. Cardinality(held' \cap Markers) <= MaxEntries
    <3>1. Cardinality((kept \cap Markers) \cup {m}) \in Nat /\ Cardinality(kept \cap Markers) \in Nat
          /\ Cardinality((kept \cap Markers) \cup {m}) <= Cardinality(kept \cap Markers) + 1
      <4> HIDE DEF m, kept
      <4> QED BY <1>1, OneMore
    <3>2. MaxEntries \in Nat
      BY StoreAssumption
    <3>3. Cardinality(kept \cap Markers) < MaxEntries
      BY <1>a
    <3>4. Cardinality((kept \cap Markers) \cup {m}) <= MaxEntries
      <4> HIDE DEF m, kept
      <4> QED BY <3>1, <3>2, <3>3
    <3> QED BY <2>1, <3>4
  <2> QED BY <2>2, <2>3 DEF CapacityBound
<1>4. StoredStates'
  BY <1>i, <1>a, <1>c DEF StoreInv, StoredStates
<1>5. MarkersHeld'
  <2>1. ASSUME NEW n \in Markers, clock < denied'[n], n # m
        PROVE  n \in held' /\ exp'[n] = denied'[n]
    <3>1. denied'[n] = denied[n] /\ denied[n] \in Nat
      BY <1>i, <1>a, <2>1 DEF TypeOK
    <3>2. n \in held /\ exp[n] = denied[n]
      BY <1>i, <2>1, <3>1 DEF StoreInv, MarkersHeld
    <3>3. n \notin gone
      BY <1>b, <2>1, <3>1, <3>2 DEF Expired
    <3> QED BY <1>c, <2>1, <3>1, <3>2, <3>3
  <2>2. denied'[m] = e
    BY <1>i, <1>a DEF TypeOK
  <2> QED BY <1>a, <1>c, <2>1, <2>2 DEF MarkersHeld
<1>6. CallersInv'
  <2>1. /\ pc'[c] = "idle"
        /\ \A d \in Callers \ {c} : /\ pc'[d] = pc[d] /\ key'[d] = key[d]
                                    /\ ttl'[d] = ttl[d] /\ purpose'[d] = purpose[d]
    BY <1>i, <1>a, ReturnClears
  <2>2. \A s \in States : s \in held' => s \in held
    BY <1>a, <1>c
  <2>3. ASSUME NEW d \in Callers PROVE Storing(d)' /\ Checking(d)' /\ Registers(d)'
    BY <1>a, <2>1, <2>2 DEF IInv, Storing, Checking, Registers
  <2> QED BY <2>3 DEF CallersInv
<1>7. denied[m] <= clock
  <2>1. SUFFICES ASSUME clock < denied[m] PROVE FALSE
    BY <1>i, <1>a, <1>b DEF TypeOK
  <2>2. m \in held /\ exp[m] = denied[m]
    BY <1>i, <1>a, <2>1 DEF StoreInv, MarkersHeld
  <2>3. denied[m] \in Nat
    BY <1>i, <1>a DEF TypeOK
  <2> QED BY <1>a, <1>b, <2>1, <2>2, <2>3 DEF Live
<1> QED BY <1>t, <1>2, <1>3, <1>4, <1>5, <1>6, <1>7 DEF IInv, CallersInv

\* A state is admitted after others made room.
LEMMA StatePreserves ==
    ASSUME IInv, NEW c \in Callers, PutState(c)
    PROVE  /\ IInv'
           /\ ticket[key[c]] = NoTicket /\ key[c] \in States
           /\ ticket' = [ticket EXCEPT ![key[c]] = [purpose |-> purpose[c], until |-> until[c]]]
           /\ ticket'[key[c]] \in [purpose : Purposes, until : Nat]
           /\ key[c] \in held' /\ held' \ {key[c]} \subseteq held
<1> DEFINE s == key[c]
           gone == Expired(now[c])
           e == now[c] + ttl[c]
           kept == held \ gone
<1>i. StoreInv /\ TypeOK /\ Registers(c) /\ Storing(c)
  BY DEF IInv, StoreInv
<1>a. /\ s \in States /\ s \notin Markers /\ pc[c] = "put"
      /\ ticket' = [ticket EXCEPT ![s] = [purpose |-> purpose[c], until |-> until[c]]]
      /\ Return(c) /\ UNCHANGED <<clock, minted, closed, redeemed, denied>>
  BY StoreAssumption DEF PutState, doneVars
<1>v. PICK V \in SUBSET kept :
        /\ Evicted(V, kept)
        /\ exp' = [Without(gone \cup V) EXCEPT ![s] = e]
  BY DEF PutState
<1>n. now[c] <= clock /\ now[c] \in Nat /\ clock \in Nat /\ ttl[c] \in Nat \ {0}
  BY <1>i, <1>a, TimesAreNat
<1>p. purpose[c] \in Purposes /\ until[c] \in Nat /\ s \in minted /\ ticket[s] = NoTicket
  BY <1>i, <1>a DEF TypeOK, Registers, Storing
<1>b. e \in Nat /\ e # 0 /\ now[c] <= clock /\ now[c] \in Nat /\ clock \in Nat
      /\ purpose[c] \in Purposes /\ until[c] \in Nat /\ s \in minted /\ ticket[s] = NoTicket
  BY <1>n, <1>p
<1>c. /\ held' = (kept \ V) \cup {s}
      /\ \A k \in (kept \ V) \ {s} : exp'[k] = exp[k]
  BY <1>a, <1>b, <1>v DEF held, Without, AllKeys
<1>d. ticket'[s] = [purpose |-> purpose[c], until |-> until[c]]
      /\ \A u \in States \ {s} : ticket'[u] = ticket[u]
  BY <1>i, <1>a DEF TypeOK
<1>e. ticket'[s] \in [purpose : Purposes, until : Nat] /\ ticket'[s] # NoTicket
  BY <1>b, <1>d, StoreAssumption
<1>t. TypeOK'
  <2>1. exp' \in [AllKeys -> Nat]
    BY <1>i, <1>a, <1>b, <1>v DEF Without, TypeOK, AllKeys
  <2>2. ticket' \in [States -> [purpose : Purposes, until : Nat] \cup {NoTicket}]
    BY <1>i, <1>a, <1>b DEF TypeOK
  <2> QED BY <1>i, <1>a, <2>1, <2>2, ReturnClears DEF TypeOK
<1>1. /\ IsFiniteSet(kept \cap States) /\ IsFiniteSet((kept \ V) \cap States) /\ IsFiniteSet(kept \ V)
      /\ IsFiniteSet(held \cap Markers)
  BY <1>i, FS_Subset DEF StoreInv
<1>2. IsFiniteSet(held')
  BY <1>1, <1>c, OneMore
<1>3. CapacityBound'
  <2>1. held' \cap Markers \subseteq held \cap Markers /\ held' \cap States = ((kept \ V) \cap States) \cup {s}
    BY <1>a, <1>c
  <2>2. Cardinality(held' \cap Markers) <= MaxEntries
    BY <1>i, <1>1, <2>1, NoMore, StoreAssumption DEF StoreInv, CapacityBound
  <2>3. Cardinality((kept \ V) \cap States) <= MaxEntries - 1
    <3>1. (kept \ V) \cap States = (kept \cap States) \ V
      OBVIOUS
    <3>2. Cardinality(kept \cap States) \in Nat
      BY <1>1, FS_CardinalityType
    <3>3. CASE Cardinality(kept \cap States) < MaxEntries
      <4>1. V = {}
        BY <1>v, <3>3 DEF Evicted
      <4> QED BY <3>2, <3>3, <4>1, StoreAssumption
    <3>4. CASE Cardinality(kept \cap States) >= MaxEntries
      <4>1. Cardinality((kept \cap States) \ V) = MaxEntries - 1
        <5>1. Evicted(V, kept)
          BY <1>v
        <5> HIDE DEF kept
        <5> QED BY <5>1, <3>4 DEF Evicted
      <4>2. Cardinality((kept \ V) \cap States) = MaxEntries - 1
        BY <3>1, <4>1
      <4> QED BY <4>2, StoreAssumption
    <3> QED BY <3>2, <3>3, <3>4, StoreAssumption
  <2>4. Cardinality(held' \cap States) <= MaxEntries
    <3>1. /\ Cardinality(((kept \ V) \cap States) \cup {s}) \in Nat
          /\ Cardinality((kept \ V) \cap States) \in Nat
          /\ Cardinality(((kept \ V) \cap States) \cup {s}) <= Cardinality((kept \ V) \cap States) + 1
      <4> HIDE DEF s, kept
      <4> QED BY <1>1, OneMore
    <3>2. MaxEntries \in Nat
      BY StoreAssumption
    <3>3. Cardinality(((kept \ V) \cap States) \cup {s}) <= MaxEntries
      <4> HIDE DEF s, kept
      <4> QED BY <2>3, <3>1, <3>2
    <3> QED BY <2>1, <3>3
  <2> QED BY <2>2, <2>4 DEF CapacityBound
<1>4. StoredStates'
  BY <1>i, <1>a, <1>b, <1>c, <1>d, <1>e DEF StoreInv, StoredStates
<1>5. MarkersHeld'
  <2>1. ASSUME NEW m \in Markers, clock < denied[m]
        PROVE  m \in held' /\ exp'[m] = denied[m]
    <3>1. m \in held /\ exp[m] = denied[m] /\ denied[m] \in Nat
      BY <1>i, <2>1 DEF StoreInv, MarkersHeld, TypeOK
    <3>2. m \notin gone
      BY <1>b, <2>1, <3>1 DEF Expired
    <3>3. m \notin V /\ m # s
      BY <1>a, <1>v, <2>1, StoreAssumption DEF Evicted
    <3> QED BY <1>c, <3>1, <3>2, <3>3
  <2> QED BY <1>a, <2>1 DEF MarkersHeld
<1>6. CallersInv'
  <2>1. /\ pc'[c] = "idle"
        /\ \A d \in Callers \ {c} : /\ pc'[d] = pc[d] /\ key'[d] = key[d]
                                    /\ ttl'[d] = ttl[d] /\ purpose'[d] = purpose[d]
    BY <1>i, <1>a, ReturnClears
  <2>2. ASSUME NEW d \in Callers \ {c} PROVE Storing(d)' /\ Checking(d)' /\ Registers(d)'
    <3>1. Storing(d) /\ Checking(d) /\ Registers(d)
      BY DEF IInv
    <3>2. Storing(d)' /\ Registers(d)'
      BY <1>i, <1>a, <1>d, <2>1, <3>1 DEF Storing, Registers
    <3>3. ASSUME pc[d] = "check" PROVE key[d] # s /\ key[d] \notin held'
      BY <1>b, <1>c, <3>1, <3>3 DEF Checking
    <3>4. Checking(d)'
      BY <1>d, <2>1, <3>1, <3>3 DEF Checking
    <3> QED BY <3>2, <3>4
  <2>3. Storing(c)' /\ Checking(c)' /\ Registers(c)'
    BY <2>1 DEF Storing, Checking, Registers
  <2> QED BY <2>2, <2>3 DEF CallersInv
<1> QED BY <1>a, <1>b, <1>c, <1>e, <1>t, <1>2, <1>3, <1>4, <1>5, <1>6 DEF IInv, CallersInv

\* Every step keeps the invariant.
LEMMA NextPreserves == IInv /\ [Next]_vars => IInv'
<1> SUFFICES ASSUME IInv, [Next]_vars PROVE IInv'
  OBVIOUS
<1>1. CASE Tick \/ Sweep \/ Close
  BY <1>1, StorePreserves
<1>2. ASSUME NEW c \in Callers, Call(c) PROVE IInv'
  BY <1>2, CallPreserves
<1>3. ASSUME NEW c \in Callers, Step(c) PROVE IInv'
  <2>1. CASE EnterPut(c)
    BY <2>1, CallPreserves
  <2>2. CASE PutExists(c) \/ PutFull(c) \/ Check(c)
    BY <2>2, ReturnPreserves
  <2>3. CASE PutMarker(c)
    BY <2>3, MarkerPreserves
  <2>4. CASE PutState(c)
    BY <2>4, StatePreserves
  <2>5. CASE Take(c)
    BY <2>5, StorePreserves
  <2> QED BY <1>3, <2>1, <2>2, <2>3, <2>4, <2>5 DEF Step
<1>4. CASE UNCHANGED vars
  <2>1. /\ clock' = clock /\ exp' = exp /\ ticket' = ticket /\ minted' = minted /\ closed' = closed
        /\ pc' = pc /\ key' = key /\ purpose' = purpose /\ ttl' = ttl /\ until' = until
        /\ now' = now /\ redeemed' = redeemed /\ denied' = denied
    BY <1>4 DEF vars, storeVars, callVars, doneVars
  <2>2. held' = held
    BY <2>1 DEF held
  <2>3. TypeOK' /\ IsFiniteSet(held)' /\ CapacityBound' /\ StoredStates' /\ MarkersHeld'
    BY <2>1, <2>2 DEF IInv, TypeOK, CapacityBound, StoredStates, MarkersHeld
  <2>4. ASSUME NEW c \in Callers PROVE Storing(c)' /\ Checking(c)' /\ Registers(c)'
    BY <2>1, <2>2 DEF IInv, Storing, Checking, Registers
  <2> QED BY <2>3, <2>4 DEF IInv
<1> QED BY <1>1, <1>2, <1>3, <1>4 DEF Next

-------------------------------------------------------------------------------
(* The refinement.                                                         *)

\* What can be redeemed, by membership.
LEMMA OutstandingIs ==
    ASSUME NEW s
    PROVE  s \in Outstanding <=>
              (s \in held /\ s \in States) \/ \E d \in Callers : pc[d] = "check" /\ key[d] = s
  BY DEF Outstanding

\* The same of the next state.
LEMMA OutstandingIsNext ==
    ASSUME NEW s
    PROVE  s \in Outstanding' <=>
              (s \in held' /\ s \in States) \/ \E d \in Callers : pc'[d] = "check" /\ key'[d] = s
  BY DEF Outstanding

\* A step that takes, refuses, purges or only begins a call forgets.
LEMMA ForgetRefines ==
    ASSUME UNCHANGED <<clock, ticket, redeemed, denied>>,
           held' \subseteq held,
           \A d \in Callers : pc'[d] = "check" =>
               \/ pc[d] = "check" /\ key'[d] = key[d]
               \/ key'[d] \in held /\ key'[d] \in States
    PROVE  Tokens!Forget
<1>1. Outstanding' \subseteq Outstanding
  BY OutstandingIs, OutstandingIsNext
<1> QED BY <1>1 DEF Tokens!Forget

\* Entries are only deleted.
LEMMA DeletionShrinks ==
    ASSUME NEW G, exp' = Without(G)
    PROVE  held' \subseteq held
  BY DEF held, Without

\* Calls, purges, refusals and the taking of an entry.
LEMMA QuietRefines ==
    ASSUME IInv, NEW c \in Callers,
           Call(c) \/ EnterPut(c) \/ PutExists(c) \/ PutFull(c) \/ Take(c)
    PROVE  Tokens!Forget
<1>i. TypeOK /\ Registers(c)
  BY DEF IInv
<1>1. UNCHANGED <<clock, ticket, redeemed, denied>>
  BY DEF Call, Issue, Reserve, Consume, EnterPut, PutExists, PutFull, Take, storeVars, doneVars
<1>2. CASE Call(c) \/ EnterPut(c)
  <2>1. held' = held
    BY <1>2 DEF Call, Issue, Reserve, Consume, EnterPut, storeVars, held
  <2>2. pc'[c] # "check" /\ \A d \in Callers \ {c} : pc'[d] = pc[d] /\ key'[d] = key[d]
    BY <1>i, <1>2 DEF Call, Issue, Reserve, Consume, EnterPut, Goto, TypeOK
  <2> QED BY <1>1, <2>1, <2>2, ForgetRefines
<1>3. CASE PutExists(c) \/ PutFull(c)
  <2>1. held' \subseteq held
    BY <1>3, DeletionShrinks DEF PutExists, PutFull, storeVars, held
  <2>2. pc'[c] # "check" /\ \A d \in Callers \ {c} : pc'[d] = pc[d] /\ key'[d] = key[d]
    BY <1>i, <1>3, ReturnClears DEF PutExists, PutFull
  <2> QED BY <1>1, <2>1, <2>2, ForgetRefines
<1>4. CASE Take(c)
  <2>1. held' \subseteq held
    BY <1>4, DeletionShrinks DEF Take
  <2>2. CASE Return(c)
    <3>1. pc'[c] # "check" /\ \A d \in Callers \ {c} : pc'[d] = pc[d] /\ key'[d] = key[d]
      BY <1>i, <2>2, ReturnClears
    <3> QED BY <1>1, <2>1, <3>1, ForgetRefines
  <2>3. CASE key[c] \in held /\ Goto(c, "check") /\ key' = key
    <3>1. key[c] \in States
      BY <1>i, <1>4 DEF Registers, Take
    <3>2. \A d \in Callers \ {c} : pc'[d] = pc[d] /\ key'[d] = key[d]
      BY <1>i, <2>3 DEF Goto, TypeOK
    <3> QED BY <1>1, <2>1, <2>3, <3>1, <3>2, ForgetRefines
  <2> QED BY <1>4, <2>2, <2>3 DEF Take
<1> QED BY <1>2, <1>3, <1>4

\* The steps that matter: an entry judged, a state stored, a marker stored.
LEMMA CheckRefines ==
    ASSUME IInv, NEW c \in Callers, Check(c)
    PROVE  Tokens!Forget \/ \E s \in States : Tokens!Redeem(s)
<1> DEFINE s == key[c]
<1>i. TypeOK /\ Checking(c)
  BY DEF IInv
<1>1. /\ pc[c] = "check" /\ Return(c) /\ UNCHANGED <<clock, exp, ticket, denied>>
      /\ s \in States /\ s \notin held
      /\ \A d \in Callers \ {c} : pc[d] = "check" => key[d] # s
  BY <1>i DEF Check, Checking, storeVars
<1>2. pc'[c] = "idle" /\ \A d \in Callers \ {c} : pc'[d] = pc[d] /\ key'[d] = key[d]
  BY <1>i, <1>1, ReturnClears
<1>3. held' = held
  BY <1>1 DEF held
<1>4. CASE Accepted(c)
  <2>1. redeemed' = [redeemed EXCEPT ![s] = ticket[s].purpose] /\ clock <= ticket[s].until
    BY <1>4 DEF Check, Accepted
  <2>2. s \in Outstanding
    BY <1>1, OutstandingIs
  <2>3. ASSUME NEW t PROVE t \in Outstanding' <=> t \in Outstanding /\ t # s
    BY <1>1, <1>2, <1>3, OutstandingIs, OutstandingIsNext
  <2>4. Outstanding' = Outstanding \ {s}
    BY <2>3
  <2>5. Tokens!Redeem(s)
    BY <1>1, <2>1, <2>2, <2>4 DEF Tokens!Redeem
  <2> QED BY <1>1, <2>5
<1>5. CASE ~Accepted(c)
  <2>1. redeemed' = redeemed
    BY <1>5 DEF Check
  <2> QED BY <1>1, <1>2, <1>3, <2>1, ForgetRefines
<1> QED BY <1>4, <1>5

\* Storing a state issues it, and forgets the states evicted for it.
LEMMA StateRefines ==
    ASSUME IInv, NEW c \in Callers, PutState(c)
    PROVE  \E s \in States : Tokens!Issue(s)
<1> DEFINE s == key[c]
<1>i. TypeOK
  BY DEF IInv
<1>1. /\ ticket[s] = NoTicket /\ s \in States
      /\ ticket' = [ticket EXCEPT ![s] = [purpose |-> purpose[c], until |-> until[c]]]
      /\ ticket'[s] \in [purpose : Purposes, until : Nat]
      /\ s \in held' /\ held' \ {s} \subseteq held
  BY StatePreserves
<1>2. ticket' = [ticket EXCEPT ![s] = ticket'[s]]
  BY <1>i, <1>1 DEF TypeOK
<1>3. Return(c) /\ UNCHANGED <<clock, redeemed, denied>>
  BY DEF PutState, doneVars
<1>4. pc'[c] = "idle" /\ \A d \in Callers \ {c} : pc'[d] = pc[d] /\ key'[d] = key[d]
  BY <1>i, <1>3, ReturnClears
<1>5. s \in Outstanding'
  BY <1>1, OutstandingIsNext
<1>6. ASSUME NEW t, t \in Outstanding', t # s PROVE t \in Outstanding
  BY <1>1, <1>4, <1>6, OutstandingIs, OutstandingIsNext
<1>7. Tokens!Issue(s)
  BY <1>1, <1>2, <1>3, <1>5, <1>6 DEF Tokens!Issue
<1> QED BY <1>1, <1>7

\* Storing a marker is a reservation nobody holds any more.
LEMMA MarkerRefines ==
    ASSUME IInv, NEW c \in Callers, PutMarker(c)
    PROVE  \E m \in Markers : Tokens!Reserve(m)
<1> DEFINE m == key[c]
<1>i. TypeOK
  BY DEF IInv
<1>1. /\ m \in Markers /\ Return(c) /\ UNCHANGED <<clock, ticket, redeemed>>
      /\ denied' = [denied EXCEPT ![m] = now[c] + ttl[c]]
      /\ exp' = [Without(Expired(now[c])) EXCEPT ![m] = now[c] + ttl[c]]
  BY DEF PutMarker
<1>2. denied[m] <= clock
  BY MarkerPreserves
<1>3. denied' = [denied EXCEPT ![m] = denied'[m]]
  BY <1>i, <1>1 DEF TypeOK
<1>4. pc'[c] = "idle" /\ \A d \in Callers \ {c} : pc'[d] = pc[d] /\ key'[d] = key[d]
  BY <1>i, <1>1, ReturnClears
<1>5. \A s \in States : s \in held' => s \in held
  BY <1>1, StoreAssumption DEF held, Without, AllKeys
<1>6. Outstanding' \subseteq Outstanding
  BY <1>4, <1>5, OutstandingIs, OutstandingIsNext
<1>7. Tokens!Reserve(m)
  BY <1>1, <1>2, <1>3, <1>6 DEF Tokens!Reserve
<1> QED BY <1>1, <1>7

\* Every step of the store is a step of OneTimeTokens.
LEMMA StepRefines == IInv /\ [Next]_vars => [Tokens!Next]_(Tokens!vars)
<1> SUFFICES ASSUME IInv, [Next]_vars PROVE Tokens!Next \/ UNCHANGED Tokens!vars
  OBVIOUS
<1>1. CASE Tick
  <2>1. clock' = clock + 1 /\ UNCHANGED <<exp, ticket, pc, key, redeemed, denied>>
    BY <1>1 DEF Tick, storeVars, callVars, doneVars
  <2>2. clock' \in Nat /\ clock' > clock
    BY <2>1, StoreAssumption DEF IInv, TypeOK
  <2>3. Outstanding' = Outstanding
    BY <2>1 DEF Outstanding, held
  <2> QED BY <2>1, <2>2, <2>3 DEF Tokens!Next, Tokens!Tick
<1>2. CASE Sweep
  <2>1. UNCHANGED <<clock, ticket, pc, key, redeemed, denied>> /\ held' \subseteq held
    BY <1>2, DeletionShrinks DEF Sweep, callVars, doneVars
  <2>2. Tokens!Forget
    BY <2>1, ForgetRefines
  <2> QED BY <2>2 DEF Tokens!Next
<1>3. CASE Close
  <2>1. UNCHANGED <<clock, ticket, pc, key, redeemed>> /\ denied' = [m \in Markers |-> 0] /\ held' = {}
    BY <1>3 DEF Close, callVars, held
  <2>2. Outstanding' \subseteq Outstanding
    BY <2>1, OutstandingIs, OutstandingIsNext
  <2> QED BY <2>1, <2>2 DEF Tokens!Next, Tokens!Close
<1>4. ASSUME NEW c \in Callers, Call(c) \/ Step(c) PROVE Tokens!Next
  <2>1. CASE Call(c) \/ EnterPut(c) \/ PutExists(c) \/ PutFull(c) \/ Take(c)
    BY <2>1, QuietRefines DEF Tokens!Next
  <2>2. CASE Check(c)
    BY <2>2, CheckRefines DEF Tokens!Next
  <2>3. CASE PutState(c)
    BY <2>3, StateRefines DEF Tokens!Next
  <2>4. CASE PutMarker(c)
    BY <2>4, MarkerRefines DEF Tokens!Next
  <2> QED BY <1>4, <2>1, <2>2, <2>3, <2>4 DEF Step
<1>5. CASE UNCHANGED vars
  <2>1. UNCHANGED <<clock, exp, ticket, pc, key, redeemed, denied>>
    BY <1>5 DEF vars, storeVars, callVars, doneVars
  <2>2. Outstanding' = Outstanding
    BY <2>1 DEF Outstanding, held
  <2> QED BY <2>1, <2>2 DEF Tokens!vars
<1> QED BY <1>1, <1>2, <1>3, <1>4, <1>5 DEF Next

-------------------------------------------------------------------------------
\* The invariant holds in every state the store and its callers can reach:
\* a state that is stored, or taken and not yet judged, belongs to one call.
THEOREM Invariance == Spec => []IInv
  BY InitEstablishes, NextPreserves, PTL DEF Spec

\* Every variable has its type, and PutIfAbsent never uses a time to come.
THEOREM TypeCorrect == Spec => []TypeOK
<1>1. IInv => TypeOK
  BY DEF IInv
<1> QED BY <1>1, Invariance, PTL

\* makeRoomLocked keeps each namespace within maxEntries, for any capacity and
\* any number of racing calls, although each purges by a time of its own.
THEOREM Capacity == Spec => []CapacityBound
<1>1. IInv => CapacityBound
  BY DEF IInv
<1> QED BY <1>1, Invariance, PTL

\* Manager over MemoryStore implements OneTimeTokens: a state is redeemed at most
\* once, for its purpose and in time, and an identifier is not reserved twice
\* while its marker lives, for any capacity and any number of racing calls.
THEOREM Refinement == Spec => TokensRefined
<1>1. Init => Tokens!Init
  <2> SUFFICES ASSUME Init PROVE Tokens!Init
    OBVIOUS
  <2>1. Outstanding = {}
    BY DEF Init, Outstanding, held
  <2> QED BY <2>1 DEF Init, Tokens!Init
<1> QED BY <1>1, StepRefines, Invariance, PTL DEF Spec, TokensRefined, Tokens!Spec

\* One state makes room for one: a set that loses V and then has one element
\* less has lost only v.
LEMMA OneVictim ==
    ASSUME NEW S, NEW V \in SUBSET S, NEW v \in V, IsFiniteSet(S), NEW n \in Nat,
           Cardinality(S) <= n, Cardinality(S) >= n, Cardinality(S \ V) = n - 1
    PROVE  V = {v} /\ Cardinality(S) = n
<1>1. Cardinality(S) \in Nat
  BY FS_CardinalityType
<1>2. Cardinality(S) = n
  BY <1>1
<1>3. IsFiniteSet(S \ {v}) /\ Cardinality(S \ {v}) = n - 1
  BY <1>2, FS_RemoveElement
<1>4. S \ V \in SUBSET (S \ {v})
  OBVIOUS
<1>5. S \ {v} = S \ V
  BY <1>3, <1>4, FS_Subset
<1> QED BY <1>2, <1>5

\* ShedsOnlyWhenFull, of one step.
LEMMA EvictionIsForced ==
    ASSUME IInv, NEW c \in Callers, PutState(c),
           NEW s \in (held \ held') \cap States, clock <= exp[s]
    PROVE  Cardinality({u \in held \cap States : exp[s] <= exp[u]}) = MaxEntries
<1> DEFINE gone == Expired(now[c])
           kept == held \ gone
           S == kept \cap States
           e == now[c] + ttl[c]
<1>i. TypeOK /\ CapacityBound /\ IsFiniteSet(held) /\ Registers(c)
  BY DEF IInv
<1>n. now[c] <= clock /\ now[c] \in Nat /\ clock \in Nat /\ ttl[c] \in Nat \ {0}
  <2>1. pc[c] = "put"
    BY DEF PutState
  <2> QED BY <1>i, <2>1, TimesAreNat
<1>e. e # 0
  BY <1>n
<1>v. PICK V \in SUBSET kept :
        /\ Evicted(V, kept)
        /\ exp' = [Without(gone \cup V) EXCEPT ![key[c]] = e]
  BY DEF PutState
<1>1. \A k \in held : exp[k] \in Nat
  BY <1>i DEF TypeOK, held
<1>2. s \in kept
  BY <1>1, <1>n DEF Expired
<1>3. s \in V
  <2>1. SUFFICES ASSUME s \notin V PROVE s \in held'
    OBVIOUS
  <2>2. s \in AllKeys /\ exp[s] # 0 /\ s \notin gone
    BY <1>2 DEF held
  <2>3. exp'[s] # 0
    BY <1>v, <1>e, <2>1, <2>2 DEF Without
  <2> QED BY <2>2, <2>3 DEF held
<1>4. IsFiniteSet(S) /\ IsFiniteSet(held \cap States)
  BY <1>i, FS_Subset
<1>5. /\ V \in SUBSET S
      /\ Cardinality(S) < MaxEntries => V = {}
      /\ Cardinality(S) >= MaxEntries => Cardinality(S \ V) = MaxEntries - 1
      /\ \A v \in V : \A u \in S \ V : exp[v] <= exp[u]
  <2>1. Evicted(V, kept)
    BY <1>v
  <2> HIDE DEF kept
  <2> QED BY <2>1 DEF Evicted
<1>6. Cardinality(S) <= MaxEntries /\ Cardinality(S) \in Nat /\ MaxEntries \in Nat
  <2>1. Cardinality(S) <= Cardinality(held \cap States) /\ Cardinality(S) \in Nat
        /\ Cardinality(held \cap States) \in Nat
    <3>1. S \subseteq held \cap States
      OBVIOUS
    <3> HIDE DEF S
    <3> QED BY <1>4, <3>1, NoMore
  <2>2. Cardinality(held \cap States) <= MaxEntries /\ MaxEntries \in Nat
    BY <1>i, StoreAssumption DEF CapacityBound
  <2> HIDE DEF S
  <2> QED BY <2>1, <2>2
<1>7. V = {s} /\ Cardinality(S) = MaxEntries
  <2>1. Cardinality(S) >= MaxEntries
    <3> HIDE DEF S
    <3> QED BY <1>3, <1>5, <1>6
  <2> HIDE DEF S
  <2> QED BY <1>3, <1>4, <1>5, <1>6, <2>1, OneVictim
<1>8. {u \in held \cap States : exp[s] <= exp[u]} = S
  <2>1. ASSUME NEW u \in held \cap States, exp[s] <= exp[u] PROVE u \in S
    BY <1>1, <1>n, <2>1 DEF Expired
  <2>2. ASSUME NEW u \in S PROVE exp[s] <= exp[u]
    <3>1. CASE u = s
      BY <1>1, <3>1
    <3>2. CASE u # s
      BY <1>3, <1>5, <1>7, <3>2
    <3> QED BY <3>1, <3>2
  <2> QED BY <2>1, <2>2
<1> QED BY <1>7, <1>8

\* evictNearestExpiryStateLocked costs a user a live login only when the store is
\* full of logins that expire no sooner, for any capacity.
THEOREM EvictionIsFair == Spec => ShedsOnlyWhenFull
<1>1. ASSUME IInv, [Next]_vars
      PROVE  [\A c \in Callers : PutState(c) =>
                 \A s \in (held \ held') \cap States : clock <= exp[s] =>
                     Cardinality({u \in held \cap States : exp[s] <= exp[u]}) = MaxEntries]_vars
  BY <1>1, EvictionIsForced
<1> QED BY <1>1, Invariance, PTL DEF Spec, ShedsOnlyWhenFull
===============================================================================
