------------------------ MODULE AuthorityReductionProofs ------------------------
(***************************************************************************)
(* Proofs about AuthorityReduction, for any organizations, templates, scope *)
(* grammar, keys, concurrent reductions and concurrent key handlers.        *)
(***************************************************************************)
EXTENDS AuthorityReduction, TLAPS

\* What no role covers, every role covers: it carries no scope.
LEMMA EmptyAuthority ==
    ASSUME NEW have, NEW granted, AuthorityRetained(have, {})
    PROVE  AuthorityRetained(have, granted)
  BY DEF AuthorityRetained, HasScope

\* In an initial state every derived key is covered and nothing runs.
LEMMA InitEstablishes == Init => IInv
  BY ReductionAssumption
  DEF Init, IInv, TypeOK, RowLocks, ReadComplete, DecisionStands, OnlyLateKeysStranded, Roles

\* The transaction of p ends holding nothing; the others keep what they had
\* but for the rows that are gone.
LEMMA EndTxClears ==
    ASSUME TypeOK, NEW p \in Reducers, NEW gone \in SUBSET Keys, EndTx(p, gone)
    PROVE  /\ pc' \in [Reducers -> {"idle", "reduced", "lock", "delete"}]
           /\ orgs' \in [Reducers -> SUBSET Orgs]
           /\ role' \in [Reducers -> Roles]
           /\ want' \in [Reducers -> SUBSET Keys]
           /\ locked' \in [Reducers -> SUBSET Keys]
           /\ doomed' \in [Reducers -> SUBSET Keys]
           /\ pc'[p] = "idle" /\ orgs'[p] = {} /\ want'[p] = {} /\ locked'[p] = {}
           /\ \A q \in Reducers \ {p} :
                /\ pc'[q] = pc[q] /\ orgs'[q] = orgs[q] /\ role'[q] = role[q]
                /\ want'[q] = want[q] \ gone
                /\ locked'[q] = locked[q] /\ doomed'[q] = doomed[q]
  BY DEF EndTx, TypeOK, Roles

\* The steps of a reduction before its COMMIT touch no committed row.
LEMMA OpenPreserves ==
    ASSUME IInv, NEW p \in Reducers,
           \/ \E O \in SUBSET Orgs, r \in Roles : Reduce(p, O, r)
           \/ ReadKeys(p) \/ Decide(p)
           \/ \E k \in Keys : LockKey(p, k)
    PROVE  IInv'
<1>i. TypeOK /\ RowLocks /\ ReadComplete /\ DecisionStands /\ OnlyLateKeysStranded
  BY DEF IInv
<1>a. UNCHANGED <<member, live, scopes, late, asked>>
  BY DEF Reduce, ReadKeys, Decide, LockKey, memberVars, keyVars
<1>b. \A q \in Reducers \ {p} :
        /\ pc'[q] = pc[q] /\ orgs'[q] = orgs[q] /\ role'[q] = role[q]
        /\ want'[q] = want[q] /\ locked'[q] = locked[q] /\ doomed'[q] = doomed[q]
  BY <1>i DEF TypeOK, Reduce, ReadKeys, Decide, LockKey
<1>1. ASSUME NEW O \in SUBSET Orgs, NEW r \in Roles, Reduce(p, O, r) PROVE IInv'
  <2>t. TypeOK' BY <1>i, <1>a, <1>1 DEF TypeOK, Reduce
  <2>1. /\ pc'[p] = "reduced" /\ orgs'[p] = O /\ want'[p] = {} /\ locked'[p] = {}
        /\ \A q \in Reducers : O \cap orgs[q] = {}
    BY <1>i, <1>1 DEF TypeOK, Reduce, MemberLocked
  <2>2. RowLocks' BY <1>i, <1>a, <1>b, <2>1 DEF RowLocks
  <2>3. ReadComplete' BY <1>i, <1>a, <1>b, <2>1 DEF ReadComplete
  <2>4. DecisionStands' BY <1>i, <1>a, <1>b, <2>1 DEF DecisionStands, Unretained
  <2>5. OnlyLateKeysStranded' BY <1>i, <1>a DEF OnlyLateKeysStranded, Covered
  <2> QED BY <2>t, <2>2, <2>3, <2>4, <2>5 DEF IInv
<1>2. CASE ReadKeys(p)
  <2>t. TypeOK' BY <1>i, <1>a, <1>2 DEF TypeOK, ReadKeys, OwnKeys
  <2>1. /\ pc'[p] = "lock" /\ orgs'[p] = orgs[p] /\ locked'[p] = {}
        /\ want'[p] = {k \in live \cap Derived : KeyOrg[k] \in orgs[p]}
    BY <1>i, <1>2 DEF TypeOK, ReadKeys, OwnKeys, Derived
  <2>2. RowLocks' BY <1>i, <1>a, <1>b, <2>1 DEF RowLocks
  <2>3. ReadComplete' BY <1>i, <1>a, <1>b, <2>1 DEF ReadComplete
  <2>4. DecisionStands' BY <1>i, <1>a, <1>b, <2>1 DEF DecisionStands, Unretained
  <2>5. OnlyLateKeysStranded' BY <1>i, <1>a DEF OnlyLateKeysStranded, Covered
  <2> QED BY <2>t, <2>2, <2>3, <2>4, <2>5 DEF IInv
<1>3. ASSUME NEW k \in Keys, LockKey(p, k) PROVE IInv'
  <2>t. TypeOK' BY <1>i, <1>a, <1>3 DEF TypeOK, LockKey
  <2>1. /\ pc'[p] = "lock" /\ orgs'[p] = orgs[p] /\ pc[p] = "lock"
        /\ k \in want[p] /\ want'[p] = want[p] \ {k} /\ locked'[p] = locked[p] \cup {k}
        /\ \A q \in Reducers : k \notin locked[q]
    BY <1>i, <1>3 DEF TypeOK, LockKey, KeyLocked
  <2>2. RowLocks' BY <1>i, <1>a, <1>b, <2>1 DEF RowLocks
  <2>3. ReadComplete' BY <1>i, <1>a, <1>b, <2>1 DEF ReadComplete
  <2>4. DecisionStands' BY <1>i, <1>a, <1>b, <2>1 DEF DecisionStands, Unretained
  <2>5. OnlyLateKeysStranded' BY <1>i, <1>a DEF OnlyLateKeysStranded, Covered
  <2> QED BY <2>t, <2>2, <2>3, <2>4, <2>5 DEF IInv
<1>4. CASE Decide(p)
  <2>t. TypeOK' BY <1>i, <1>a, <1>4 DEF TypeOK, Decide, Unretained
  <2>1. /\ pc'[p] = "delete" /\ orgs'[p] = orgs[p] /\ role'[p] = role[p] /\ pc[p] = "lock"
        /\ want'[p] = {} /\ want[p] = {} /\ locked'[p] = locked[p] /\ doomed'[p] = Unretained(p)
    BY <1>i, <1>4 DEF TypeOK, Decide
  <2>2. RowLocks' BY <1>i, <1>a, <1>b, <2>1 DEF RowLocks
  <2>3. ReadComplete' BY <1>i, <1>a, <1>b, <2>1 DEF ReadComplete
  <2>4. DecisionStands' BY <1>i, <1>a, <1>b, <2>1 DEF DecisionStands, Unretained
  <2>5. OnlyLateKeysStranded' BY <1>i, <1>a DEF OnlyLateKeysStranded, Covered
  <2> QED BY <2>t, <2>2, <2>3, <2>4, <2>5 DEF IInv
<1> QED BY <1>1, <1>2, <1>3, <1>4

\* A rolled-back reduction leaves every row as it was.
LEMMA RollbackPreserves ==
    ASSUME IInv, NEW p \in Reducers, Rollback(p)
    PROVE  IInv'
<1>i. TypeOK /\ RowLocks /\ ReadComplete /\ DecisionStands /\ OnlyLateKeysStranded
  BY DEF IInv
<1>a. EndTx(p, {}) /\ UNCHANGED <<member, live, scopes, late, asked>>
  BY DEF Rollback, memberVars, keyVars
<1>b. /\ pc'[p] = "idle" /\ orgs'[p] = {} /\ want'[p] = {} /\ locked'[p] = {}
      /\ \A q \in Reducers \ {p} :
            /\ pc'[q] = pc[q] /\ orgs'[q] = orgs[q] /\ role'[q] = role[q]
            /\ want'[q] = want[q] /\ locked'[q] = locked[q] /\ doomed'[q] = doomed[q]
  BY <1>i, <1>a DEF TypeOK, EndTx
<1>t. TypeOK'
  <2>1. \A q \in Reducers :
            /\ pc'[q] = "idle" => orgs'[q] = {}
            /\ pc'[q] \in {"idle", "reduced"} => want'[q] = {} /\ locked'[q] = {}
    BY <1>i, <1>b DEF TypeOK
  <2> QED BY <1>i, <1>a, <2>1, EndTxClears DEF TypeOK
<1>2. RowLocks' BY <1>i, <1>a, <1>b DEF RowLocks
<1>3. ReadComplete' BY <1>i, <1>a, <1>b DEF ReadComplete
<1>4. DecisionStands' BY <1>i, <1>a, <1>b DEF DecisionStands, Unretained
<1>5. OnlyLateKeysStranded' BY <1>i, <1>a DEF OnlyLateKeysStranded, Covered
<1> QED BY <1>t, <1>2, <1>3, <1>4, <1>5 DEF IInv

\* A committed reduction deletes what its own role no longer covers; keys it
\* never saw are late, and keys elsewhere keep their authority.
LEMMA CommitPreserves ==
    ASSUME IInv, NEW p \in Reducers, Commit(p)
    PROVE  IInv'
<1>i. TypeOK /\ RowLocks /\ ReadComplete /\ DecisionStands /\ OnlyLateKeysStranded
  BY DEF IInv
<1>a. /\ EndTx(p, doomed[p]) /\ UNCHANGED <<scopes, asked>>
      /\ live' = live \ doomed[p] /\ late' = late \ doomed[p]
      /\ member' = [o \in Orgs |-> IF o \in orgs[p] THEN role[p] ELSE member[o]]
      /\ pc[p] = "delete"
  BY DEF Commit
<1>d. /\ doomed[p] \in SUBSET Keys /\ doomed[p] = Unretained(p) /\ want[p] = {}
      /\ doomed[p] \subseteq locked[p]
  BY <1>i, <1>a DEF TypeOK, DecisionStands, Unretained
<1>b. /\ pc'[p] = "idle" /\ orgs'[p] = {} /\ want'[p] = {} /\ locked'[p] = {}
      /\ \A q \in Reducers \ {p} :
            /\ pc'[q] = pc[q] /\ orgs'[q] = orgs[q] /\ role'[q] = role[q]
            /\ want'[q] = want[q] \ doomed[p]
            /\ locked'[q] = locked[q] /\ doomed'[q] = doomed[q]
            /\ locked[q] \cap doomed[p] = {}
  BY <1>i, <1>a, <1>d, EndTxClears DEF RowLocks
<1>t. TypeOK'
  <2>1. \A q \in Reducers :
            /\ pc'[q] = "idle" => orgs'[q] = {}
            /\ pc'[q] \in {"idle", "reduced"} => want'[q] = {} /\ locked'[q] = {}
    BY <1>i, <1>b DEF TypeOK
  <2>2. member' \in [Orgs -> Roles] BY <1>i, <1>a DEF TypeOK
  <2>3. live' \subseteq Keys /\ late' \subseteq Keys BY <1>i, <1>a DEF TypeOK
  <2> QED BY <1>i, <1>a, <1>d, <2>1, <2>2, <2>3, EndTxClears DEF TypeOK
<1>2. RowLocks' BY <1>i, <1>a, <1>b DEF RowLocks
<1>3. ReadComplete' BY <1>i, <1>a, <1>b DEF ReadComplete
<1>4. DecisionStands' BY <1>i, <1>a, <1>b DEF DecisionStands, Unretained
<1>5. OnlyLateKeysStranded'
  <2> SUFFICES ASSUME NEW k \in (live' \cap Derived) \ late'
               PROVE  Covered(k, scopes[k])'
    BY DEF OnlyLateKeysStranded
  <2>k. k \in Keys /\ k \in (live \cap Derived) \ late /\ k \notin doomed[p] /\ KeyOrg[k] \in Orgs
    BY <1>i, <1>a, ReductionAssumption DEF TypeOK, Derived
  <2>1. CASE KeyOrg[k] \in orgs[p]
    <3>1. k \in locked[p] BY <1>i, <1>a, <1>d, <2>k, <2>1 DEF ReadComplete
    <3>2. AuthorityRetained(scopes[k], Authority(role[p])) BY <1>d, <2>k, <3>1 DEF Unretained
    <3>3. member'[KeyOrg[k]] = role[p] /\ scopes' = scopes BY <1>a, <2>k, <2>1
    <3> QED BY <3>2, <3>3 DEF Covered, Authority
  <2>2. CASE KeyOrg[k] \notin orgs[p]
    <3>1. Covered(k, scopes[k]) BY <1>i, <2>k DEF OnlyLateKeysStranded
    <3>2. member'[KeyOrg[k]] = member[KeyOrg[k]] /\ scopes' = scopes BY <1>a, <2>k, <2>2
    <3> QED BY <3>1, <3>2 DEF Covered, Authority
  <2> QED BY <2>1, <2>2
<1> QED BY <1>t, <1>2, <1>3, <1>4, <1>5 DEF IInv

\* A key written on a sound check, before any open reduction has read the
\* keys or while that reduction has still to lock it, is covered; any other is
\* late.
LEMMA WritePreserves ==
    ASSUME IInv, NEW w \in Writers, NEW a \in asked[w], CreateAPIKey(w, a) \/ Update(w, a)
    PROVE  IInv'
<1>i. TypeOK /\ RowLocks /\ ReadComplete /\ DecisionStands /\ OnlyLateKeysStranded
  BY DEF IInv
<1>a. /\ UNCHANGED <<member, pc, orgs, role, want, locked, doomed>>
      /\ WriteKey(w, a) /\ live' = live \cup {a.key}
  BY DEF CreateAPIKey, Update, WriteKey, memberVars, redVars
<1>k. a.key \in Derived /\ a.key \in Keys /\ a.have \in KeyScopes
  BY <1>i DEF TypeOK, Derived
<1>b. \A p \in Reducers : a.key \notin locked[p]
  <2>1. CASE CreateAPIKey(w, a) BY <1>i, <2>1 DEF CreateAPIKey, RowLocks
  <2>2. CASE Update(w, a) BY <2>2 DEF Update, KeyLocked
  <2> QED BY <2>1, <2>2
<1>c. /\ scopes'[a.key] = a.have
      /\ \A k \in Keys \ {a.key} : scopes'[k] = scopes[k] /\ (k \in late' <=> k \in late)
      /\ a.key \notin late' => ~Unseen(a.key, a.have)
  BY <1>i, <1>a, <1>k DEF TypeOK, WriteKey
<1>t. TypeOK'
  <2>1. scopes' \in [Keys -> KeyScopes] /\ late' \subseteq Keys /\ live' \subseteq Keys
    BY <1>i, <1>a, <1>k DEF TypeOK, WriteKey
  <2>2. asked' \in [Writers -> SUBSET [key : Derived, have : KeyScopes]]
    BY <1>i, <1>a DEF TypeOK, WriteKey
  <2> QED BY <1>i, <1>a, <2>1, <2>2 DEF TypeOK
<1>2. RowLocks' BY <1>i, <1>a DEF RowLocks
<1>3. ReadComplete'
  <2> SUFFICES ASSUME NEW p \in Reducers, pc'[p] \in {"lock", "delete"},
                      NEW k \in (live' \cap Derived) \ late', KeyOrg[k] \in orgs'[p]
               PROVE  k \in want'[p] \cup locked'[p]
    BY DEF ReadComplete
  <2>1. CASE k = a.key BY <1>a, <1>c, <2>1 DEF Unseen
  <2>2. CASE k # a.key BY <1>i, <1>a, <1>c, <2>2 DEF ReadComplete, Derived
  <2> QED BY <2>1, <2>2
<1>4. DecisionStands'
  <2>1. \A p \in Reducers : Unretained(p)' = Unretained(p)
    BY <1>i, <1>a, <1>b, <1>c DEF TypeOK, Unretained
  <2> QED BY <1>i, <1>a, <2>1 DEF DecisionStands
<1>5. OnlyLateKeysStranded'
  <2> SUFFICES ASSUME NEW k \in (live' \cap Derived) \ late'
               PROVE  Covered(k, scopes[k])'
    BY DEF OnlyLateKeysStranded
  <2>1. CASE k = a.key
    <3>1. Covered(a.key, a.have) BY <1>c, <2>1 DEF Unseen
    <3> QED BY <1>a, <1>c, <2>1, <3>1 DEF Covered, Authority
  <2>2. CASE k # a.key
    <3>1. Covered(k, scopes[k]) BY <1>i, <1>a, <1>c, <2>2 DEF OnlyLateKeysStranded, Derived
    <3>2. scopes'[k] = scopes[k] BY <1>c, <2>2 DEF Derived
    <3> QED BY <1>a, <3>1, <3>2 DEF Covered, Authority
  <2> QED BY <2>1, <2>2
<1> QED BY <1>t, <1>2, <1>3, <1>4, <1>5 DEF IInv

\* A new membership, a check, an abandoned write and a revoked key.
LEMMA HostPreserves ==
    ASSUME IInv,
           \/ \E o \in Orgs, r \in Roles : AddMember(o, r)
           \/ \E k \in Keys : RevokeAPIKey(k)
           \/ \E w \in Writers : GiveUp(w)
           \/ \E w \in Writers, k \in Derived, have \in KeyScopes : CheckKeyWrite(w, k, have)
    PROVE  IInv'
<1>i. TypeOK /\ RowLocks /\ ReadComplete /\ DecisionStands /\ OnlyLateKeysStranded
  BY DEF IInv
<1>1. ASSUME NEW o \in Orgs, NEW r \in Roles, AddMember(o, r) PROVE IInv'
  <2>a. /\ UNCHANGED <<live, scopes, late, pc, orgs, role, want, locked, doomed, asked>>
        /\ member[o] = NoMember /\ member' = [member EXCEPT ![o] = r]
    BY <1>1 DEF AddMember, keyVars, redVars
  <2>t. TypeOK' BY <1>i, <2>a DEF TypeOK
  <2>2. RowLocks' BY <1>i, <2>a DEF RowLocks
  <2>3. ReadComplete' BY <1>i, <2>a DEF ReadComplete
  <2>4. DecisionStands' BY <1>i, <2>a DEF DecisionStands, Unretained
  <2>5. OnlyLateKeysStranded'
    <3> SUFFICES ASSUME NEW k \in (live \cap Derived) \ late
                 PROVE  Covered(k, scopes[k])'
      BY <2>a DEF OnlyLateKeysStranded
    <3>1. Covered(k, scopes[k]) /\ KeyOrg[k] \in Orgs
      BY <1>i, ReductionAssumption DEF OnlyLateKeysStranded, Derived
    <3>2. CASE KeyOrg[k] = o
      <4>1. Authority(member[o]) = {} BY <2>a, ReductionAssumption DEF Authority
      <4>2. AuthorityRetained(scopes[k], {}) BY <3>1, <3>2, <4>1 DEF Covered
      <4>3. AuthorityRetained(scopes[k], Authority(member'[KeyOrg[k]])) BY <4>2, EmptyAuthority
      <4> QED BY <2>a, <4>3 DEF Covered, Authority
    <3>3. CASE KeyOrg[k] # o
      <4>1. member'[KeyOrg[k]] = member[KeyOrg[k]] BY <1>i, <2>a, <3>1, <3>3 DEF TypeOK
      <4> QED BY <2>a, <3>1, <4>1 DEF Covered, Authority
    <3> QED BY <3>2, <3>3
  <2> QED BY <2>t, <2>2, <2>3, <2>4, <2>5 DEF IInv
<1>2. ASSUME NEW k \in Keys, RevokeAPIKey(k) PROVE IInv'
  <2>a. /\ UNCHANGED <<member, scopes, pc, orgs, role, locked, doomed, asked>>
        /\ live' = live \ {k} /\ late' = late \ {k}
        /\ want' = [p \in Reducers |-> want[p] \ {k}]
        /\ \A p \in Reducers : k \notin locked[p]
    BY <1>2 DEF RevokeAPIKey, KeyLocked, memberVars
  <2>t. TypeOK' BY <1>i, <2>a DEF TypeOK
  <2>2. RowLocks' BY <1>i, <2>a DEF RowLocks
  <2>3. ReadComplete' BY <1>i, <2>a DEF ReadComplete
  <2>4. DecisionStands' BY <1>i, <2>a DEF DecisionStands, Unretained
  <2>5. OnlyLateKeysStranded' BY <1>i, <2>a DEF OnlyLateKeysStranded, Covered, Authority
  <2> QED BY <2>t, <2>2, <2>3, <2>4, <2>5 DEF IInv
<1>3. ASSUME NEW w \in Writers,
             GiveUp(w) \/ \E k \in Derived, have \in KeyScopes : CheckKeyWrite(w, k, have)
      PROVE  IInv'
  <2>a. UNCHANGED <<member, live, scopes, late, pc, orgs, role, want, locked, doomed>>
    BY <1>3 DEF GiveUp, CheckKeyWrite, memberVars, keyVars, redVars
  <2>t. TypeOK'
    <3>1. asked' \in [Writers -> SUBSET [key : Derived, have : KeyScopes]]
      BY <1>i, <1>3 DEF TypeOK, GiveUp, CheckKeyWrite
    <3> QED BY <1>i, <2>a, <3>1 DEF TypeOK
  <2> QED BY <1>i, <2>a, <2>t
      DEF IInv, RowLocks, ReadComplete, DecisionStands, Unretained, OnlyLateKeysStranded,
          Covered, Authority
<1> QED BY <1>1, <1>2, <1>3

\* Every step preserves the invariant.
LEMMA StepPreserves == IInv /\ [Next]_vars => IInv'
<1> SUFFICES ASSUME IInv, [Next]_vars PROVE IInv'
  OBVIOUS
<1>1. CASE UNCHANGED vars
  BY <1>1 DEF IInv, TypeOK, RowLocks, ReadComplete, DecisionStands, Unretained,
              OnlyLateKeysStranded, Covered, Authority, vars
<1>2. ASSUME NEW p \in Reducers, ReducerNext(p) PROVE IInv'
  <2>1. CASE \E O \in SUBSET Orgs, r \in Roles : Reduce(p, O, r)
    BY <2>1, OpenPreserves
  <2>2. ASSUME NEW o \in Orgs,
               RemoveMember(p, o) \/ \E r \in Roles : UpdateMemberRoleTemplate(p, o, r)
        PROVE  IInv'
    <3>1. {o} \in SUBSET Orgs /\ NoMember \in Roles BY DEF Roles
    <3> QED BY <2>1, <2>2, <3>1 DEF RemoveMember, UpdateMemberRoleTemplate
  <2>3. ASSUME NEW scope \in SUBSET Orgs, RemoveAllMembershipsForUser(p, scope) PROVE IInv'
    <3>1. {o \in scope : member[o] # NoMember} \in SUBSET Orgs /\ NoMember \in Roles
      BY DEF Roles
    <3> QED BY <2>1, <2>3, <3>1 DEF RemoveAllMembershipsForUser
  <2> QED BY <1>2, <2>2, <2>3, OpenPreserves, CommitPreserves, RollbackPreserves DEF ReducerNext
<1>3. ASSUME NEW w \in Writers, WriterNext(w) PROVE IInv'
  BY <1>3, WritePreserves, HostPreserves DEF WriterNext
<1> QED BY <1>1, <1>2, <1>3, HostPreserves DEF Next

\* IInv holds in every reachable state.
THEOREM Invariance == Spec => []IInv
  BY InitEstablishes, StepPreserves, PTL DEF Spec

\* Every variable of the reduction model keeps its type.
THEOREM TypeCorrect == Spec => []TypeOK
<1>1. IInv => TypeOK BY DEF IInv
<1> QED BY <1>1, Invariance, PTL

\* Reducer strands no key but those written behind its key read or on an
\* overtaken check.
THEOREM StrandingIsBounded == Spec => []OnlyLateKeysStranded
<1>1. IInv => OnlyLateKeysStranded BY DEF IInv
<1> QED BY <1>1, Invariance, PTL

\* sweepDerivedKeys deletes exactly what the surviving role does not cover.
THEOREM ExactSweep == Spec => SweepIsExact
<1>1. ASSUME IInv, NEW p \in Reducers, Commit(p), NEW k \in locked[p]
      PROVE  k \in live' <=> Covered(k, scopes[k])'
  <2>i. TypeOK /\ RowLocks /\ DecisionStands BY <1>1 DEF IInv
  <2>1. k \in Keys /\ k \in live /\ KeyOrg[k] \in orgs[p] /\ KeyOrg[k] \in Orgs
    BY <2>i, ReductionAssumption DEF TypeOK, RowLocks
  <2>2. member'[KeyOrg[k]] = role[p] /\ scopes' = scopes /\ live' = live \ doomed[p]
    BY <1>1, <2>1 DEF Commit
  <2>3. doomed[p] = Unretained(p) BY <1>1, <2>i DEF Commit, DecisionStands
  <2>4. k \in live' <=> AuthorityRetained(scopes[k], Authority(role[p]))
    BY <2>1, <2>2, <2>3 DEF Unretained
  <2> QED BY <2>2, <2>4 DEF Covered, Authority
<1>2. IInv /\ [Next]_vars =>
        [\A p \in Reducers : Commit(p) =>
            \A k \in locked[p] : k \in live' <=> Covered(k, scopes[k])']_vars
  BY <1>1
<1> QED BY <1>2, Invariance, PTL DEF Spec, SweepIsExact

\* A service key is never among the keys a reduction deletes.
THEOREM ServiceKeysKept == Spec => ServiceKeysSurvive
<1>1. ASSUME IInv, NEW p \in Reducers, Commit(p)
      PROVE  live \cap Service \subseteq live'
  <2>1. locked[p] \subseteq Derived /\ doomed[p] \subseteq locked[p] /\ live' = live \ doomed[p]
    BY <1>1 DEF IInv, RowLocks, DecisionStands, Unretained, Commit
  <2> QED BY <2>1 DEF Derived
<1>2. IInv /\ [Next]_vars =>
        [\A p \in Reducers : Commit(p) => live \cap Service \subseteq live']_vars
  BY <1>1
<1> QED BY <1>2, Invariance, PTL DEF Spec, ServiceKeysSurvive

-------------------------------------------------------------------------------
(* A reduction and the rows it holds.                                      *)

\* Open reductions have disjoint organizations, and a key one of them wants or
\* holds is a key of one of its own.
LEMMA WantedKeysAreFree ==
    ASSUME IInv, NEW p \in Reducers, NEW k \in want[p]
    PROVE  ~KeyLocked(k)
<1>i. TypeOK /\ RowLocks /\ DecisionStands BY DEF IInv
<1>1. SUFFICES ASSUME NEW q \in Reducers, k \in locked[q] PROVE FALSE
  BY DEF KeyLocked
<1>2. CASE q = p BY <1>i, <1>1, <1>2 DEF RowLocks
<1>3. CASE q # p
  <2>1. KeyOrg[k] \in orgs[p] BY <1>i DEF RowLocks
  <2>2. KeyOrg[k] \in orgs[q] BY <1>i, <1>1 DEF RowLocks
  <2> QED BY <1>i, <1>3, <2>1, <2>2 DEF RowLocks
<1> QED BY <1>2, <1>3

\* A sweep's keys are free, and what it dooms is there to be deleted.
THEOREM SweepsAreUnobstructed == Spec => []SweepNeverBlocks
<1>1. ASSUME IInv PROVE SweepNeverBlocks
  <2>1. \A p \in Reducers : \A k \in want[p] : ~KeyLocked(k)
    BY <1>1, WantedKeysAreFree
  <2>2. ASSUME NEW p \in Reducers, pc[p] = "delete" PROVE doomed[p] \subseteq live
    BY <1>1, <2>2 DEF IInv, DecisionStands, RowLocks, Unretained
  <2> QED BY <2>1, <2>2 DEF SweepNeverBlocks
<1> QED BY <1>1, Invariance, PTL

\* The rows p holds, as the step leaves them.
Stable(p) ==
    /\ \A o \in orgs[p] : member'[o] = member[o]
    /\ \A k \in locked[p] : k \in live' /\ scopes'[k] = scopes[k]

\* Another reduction's COMMIT writes its own memberships and deletes its own
\* keys, which are none of p's.
LEMMA CommitSparesOthers ==
    ASSUME IInv, NEW p \in Reducers, NEW q \in Reducers, q # p, Commit(q)
    PROVE  Stable(p)
<1>i. TypeOK /\ RowLocks /\ DecisionStands BY DEF IInv
<1>1. doomed[q] \subseteq locked[q]
  BY <1>i DEF Commit, DecisionStands, Unretained
<1>2. orgs[p] \cap orgs[q] = {} /\ locked[p] \cap locked[q] = {} /\ locked[p] \subseteq live
  BY <1>i DEF RowLocks
<1>3. orgs[p] \subseteq Orgs BY <1>i DEF TypeOK
<1> QED BY <1>1, <1>2, <1>3 DEF Commit, Stable

\* A key write takes a key nobody has locked.
LEMMA WriteSparesLocked ==
    ASSUME IInv, NEW p \in Reducers, NEW w \in Writers, NEW a \in asked[w],
           CreateAPIKey(w, a) \/ Update(w, a)
    PROVE  Stable(p)
<1>i. TypeOK /\ RowLocks BY DEF IInv
<1>1. a.key \notin locked[p]
  <2>1. CASE CreateAPIKey(w, a) BY <1>i, <2>1 DEF CreateAPIKey, RowLocks
  <2>2. CASE Update(w, a) BY <2>2 DEF Update, KeyLocked
  <2> QED BY <2>1, <2>2
<1>2. locked[p] \subseteq live /\ locked[p] \subseteq Keys
  BY <1>i DEF RowLocks, TypeOK
<1>3. /\ member' = member /\ live \subseteq live'
      /\ scopes' = [scopes EXCEPT ![a.key] = a.have]
  BY DEF CreateAPIKey, Update, WriteKey, memberVars
<1>4. \A k \in locked[p] : scopes'[k] = scopes[k]
  BY <1>i, <1>1, <1>2, <1>3 DEF TypeOK
<1> QED BY <1>2, <1>3, <1>4 DEF Stable

\* A new membership is of an organization nobody has reduced, a revoked key one
\* that nobody has locked, and the rest changes no row.
LEMMA HostSparesHeld ==
    ASSUME IInv, NEW p \in Reducers,
           \/ \E o \in Orgs, r \in Roles : AddMember(o, r)
           \/ \E k \in Keys : RevokeAPIKey(k)
           \/ \E w \in Writers : GiveUp(w)
           \/ \E w \in Writers, k \in Derived, have \in KeyScopes : CheckKeyWrite(w, k, have)
    PROVE  Stable(p)
<1>i. TypeOK /\ RowLocks BY DEF IInv
<1>l. locked[p] \subseteq live /\ orgs[p] \subseteq Orgs BY <1>i DEF RowLocks, TypeOK
<1>1. ASSUME NEW o \in Orgs, NEW r \in Roles, AddMember(o, r) PROVE Stable(p)
  <2>1. o \notin orgs[p] BY <1>1 DEF AddMember, MemberLocked
  <2>2. \A u \in orgs[p] : member'[u] = member[u] BY <1>i, <1>l, <1>1, <2>1 DEF AddMember, TypeOK
  <2>3. live' = live /\ scopes' = scopes BY <1>1 DEF AddMember, keyVars
  <2> QED BY <1>l, <2>2, <2>3 DEF Stable
<1>2. ASSUME NEW k \in Keys, RevokeAPIKey(k) PROVE Stable(p)
  BY <1>l, <1>2 DEF RevokeAPIKey, KeyLocked, memberVars, Stable
<1>3. ASSUME UNCHANGED <<member, live, scopes>> PROVE Stable(p)
  BY <1>l, <1>3 DEF Stable
<1> QED BY <1>1, <1>2, <1>3 DEF GiveUp, CheckKeyWrite, memberVars, keyVars

\* What a reduction has written or locked stays as it is until it ends.
THEOREM ReductionsHoldTheirRows == Spec => HeldRowsAreStable
<1>1. ASSUME IInv, Next, NEW p \in Reducers, pc'[p] # "idle" PROVE Stable(p)
  <2>i. TypeOK /\ RowLocks BY <1>1 DEF IInv
  <2>l. locked[p] \subseteq live BY <2>i DEF RowLocks
  <2>u. ASSUME UNCHANGED <<member, live, scopes>> PROVE Stable(p)
    BY <2>l, <2>u DEF Stable
  <2>1. ASSUME NEW q \in Reducers, ReducerNext(q) PROVE Stable(p)
    <3>1. CASE Commit(q)
      <4>1. q # p BY <1>1, <2>i, <3>1 DEF Commit, EndTx, TypeOK
      <4> QED BY <1>1, <3>1, <4>1, CommitSparesOthers
    <3>2. CASE ~Commit(q)
      BY <2>1, <2>u, <3>2
      DEF ReducerNext, RemoveMember, UpdateMemberRoleTemplate, RemoveAllMembershipsForUser,
          Reduce, ReadKeys, Decide, LockKey, Rollback, memberVars, keyVars
    <3> QED BY <3>1, <3>2
  <2>2. ASSUME NEW w \in Writers, WriterNext(w) PROVE Stable(p)
    BY <1>1, <2>2, WriteSparesLocked, HostSparesHeld DEF WriterNext
  <2> QED BY <1>1, <2>1, <2>2, HostSparesHeld DEF Next
<1>2. IInv /\ [Next]_vars =>
        [\A p \in Reducers : pc'[p] # "idle" =>
            /\ \A o \in orgs[p] : member'[o] = member[o]
            /\ \A k \in locked[p] : k \in live' /\ scopes'[k] = scopes[k]]_vars
  BY <1>1 DEF Stable
<1> QED BY <1>2, Invariance, PTL DEF Spec, HeldRowsAreStable

-------------------------------------------------------------------------------
(* The scope grammar.                                                      *)

\* Coverage is transitive when the table of pairs is flat: a key covered by a
\* role is covered by every role that covers that one.
THEOREM CoverageIsTransitive ==
    ASSUME PairsAreFlat, NEW low, NEW mid, NEW high,
           AuthorityRetained(low, mid), AuthorityRetained(mid, high)
    PROVE  AuthorityRetained(low, high)
  BY DEF PairsAreFlat, AuthorityRetained, HasScope, ScopeAdmin

\* A role the caller may assign grants nothing the caller does not hold, so no
\* chain of assignments does: RoleScopesPermittedBy is no way up.
THEOREM DelegationNeverEscalates ==
    ASSUME PairsAreFlat, NEW caller, NEW assigned, NEW required,
           RoleScopesPermittedBy(caller, assigned), HasScope(assigned, required)
    PROVE  HasScope(caller, required)
  BY DEF PairsAreFlat, RoleScopesPermittedBy, HasScope, ScopeAdmin
===============================================================================
