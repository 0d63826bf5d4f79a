-------------------------- MODULE AuthorityReduction --------------------------
(***************************************************************************)
(* identity/store/authority_reduction.go: taking authority from one         *)
(* principal and invalidating the API keys derived from it, in one          *)
(* transaction, while the host mints, re-scopes and revokes keys.           *)
(*                                                                         *)
(* All state here is about one principal: its membership in each            *)
(* organization and the API keys of those organizations, its own and the    *)
(* service keys that belong to nobody.  Role templates keep their scopes.   *)
(***************************************************************************)
EXTENDS Scopes, FiniteSets

CONSTANTS
    Orgs,           \* organizations
    Templates,      \* role template ids
    Grants,         \* [Templates -> sets of scopes]
    KeyScopes,      \* the scope sets a key may be frozen with
    Keys,           \* api_keys ids
    KeyOrg,         \* [Keys -> Orgs]: a key never moves
    Service,        \* keys with a NULL user_id
    Reducers,       \* Reducer calls that may run at the same time
    Writers,        \* key handlers of the host that may run at the same time
    NoTemplate,     \* a membership with a NULL role_template_id
    NoMember        \* no membership row

Roles == Templates \cup {NoTemplate, NoMember}

ASSUME ReductionAssumption ==
    /\ KeyOrg \in [Keys -> Orgs]
    /\ Service \subseteq Keys
    /\ Templates \subseteq DOMAIN Grants
    /\ NoTemplate \notin Templates /\ NoMember \notin Templates
    /\ NoTemplate # NoMember

VARIABLES
    member,     \* organization -> the principal's committed role there
    live,       \* keys with a committed api_keys row
    scopes,     \* key -> the scopes frozen in its row
    pc,         \* reducer -> idle | reduced | lock | delete
    orgs,       \* reducer -> organizations its transaction has reduced
    role,       \* reducer -> the role it wrote there
    want,       \* reducer -> keys its FOR UPDATE read has still to lock
    locked,     \* reducer -> keys it holds FOR UPDATE
    doomed,     \* reducer -> keys it has decided to delete
    asked,      \* writer -> the key write it has checked: {} or {[key, have]}
    late        \* keys written when no reduction could see them any more

memberVars == <<member>>
keyVars    == <<live, scopes, late>>
redVars    == <<pc, orgs, role, want, locked, doomed>>
vars == <<member, live, scopes, late, pc, orgs, role, want, locked, doomed, asked>>

\* The scopes of a role: COALESCE(rt.scopes, '[]') over a LEFT JOIN.
Authority(r) == IF r \in Templates THEN Grants[r] ELSE {}

Derived == Keys \ Service

Covered(k, have) == AuthorityRetained(have, Authority(member[KeyOrg[k]]))

Init ==
    /\ member \in [Orgs -> Roles]
    /\ live \in SUBSET Keys
    /\ scopes \in [Keys -> KeyScopes]
    /\ \A k \in live \cap Derived : Covered(k, scopes[k])
    /\ late = {}
    /\ pc = [p \in Reducers |-> "idle"]
    /\ orgs = [p \in Reducers |-> {}]
    /\ role = [p \in Reducers |-> NoMember]
    /\ want = [p \in Reducers |-> {}]
    /\ locked = [p \in Reducers |-> {}]
    /\ doomed = [p \in Reducers |-> {}]
    /\ asked = [w \in Writers |-> {}]

\* Membership rows an open reduction has written; key rows locked by one.
MemberLocked(o) == \E p \in Reducers : o \in orgs[p]
KeyLocked(k) == \E p \in Reducers : k \in locked[p]

-------------------------------------------------------------------------------
(* Reducer.run.                                                            *)

\* The reduction itself: the affected rows and what they become.  Rows of
\* another open reduction are waited for.
Reduce(p, O, r) ==
    /\ pc[p] = "idle"
    /\ O # {}
    /\ \A o \in O : member[o] # NoMember /\ ~MemberLocked(o)
    /\ pc' = [pc EXCEPT ![p] = "reduced"]
    /\ orgs' = [orgs EXCEPT ![p] = O]
    /\ role' = [role EXCEPT ![p] = r]
    /\ UNCHANGED <<memberVars, keyVars, want, locked, doomed, asked>>

RemoveMember(p, o) == Reduce(p, {o}, NoMember)

\* By id or, resolved in the same transaction, by name.
UpdateMemberRoleTemplate(p, o, r) == r # NoMember /\ Reduce(p, {o}, r)

\* With no membership in scope nothing is reduced and nothing swept.
RemoveAllMembershipsForUser(p, scope) ==
    Reduce(p, {o \in scope : member[o] # NoMember}, NoMember)

\* sweepDerivedKeys: the rows its FOR UPDATE read starts from...
OwnKeys(p) == {k \in live : KeyOrg[k] \in orgs[p] /\ k \notin Service}

ReadKeys(p) ==
    /\ pc[p] = "reduced"
    /\ pc' = [pc EXCEPT ![p] = "lock"]
    /\ want' = [want EXCEPT ![p] = OwnKeys(p)]
    /\ UNCHANGED <<memberVars, keyVars, orgs, role, locked, doomed, asked>>

\* ...each locked when it is free, and read as it then is...
LockKey(p, k) ==
    /\ pc[p] = "lock"
    /\ k \in want[p]
    /\ ~KeyLocked(k)
    /\ want' = [want EXCEPT ![p] = @ \ {k}]
    /\ locked' = [locked EXCEPT ![p] = @ \cup {k}]
    /\ UNCHANGED <<memberVars, keyVars, pc, orgs, role, doomed, asked>>

\* ...and deleted when the surviving role does not cover it.
Unretained(p) == {k \in locked[p] : ~AuthorityRetained(scopes[k], Authority(role[p]))}

DecideBeforeLocking(p) ==
    /\ pc[p] = "lock"
    /\ pc' = [pc EXCEPT ![p] = "delete"]
    /\ doomed' = [doomed EXCEPT ![p] = Unretained(p)]
    /\ want' = [want EXCEPT ![p] = {}]
    /\ UNCHANGED <<memberVars, keyVars, orgs, role, locked, asked>>
Decide(p) ==
    /\ pc[p] = "lock" /\ want[p] = {}
    /\ pc' = [pc EXCEPT ![p] = "delete"]
    /\ doomed' = [doomed EXCEPT ![p] = Unretained(p)]
    /\ UNCHANGED <<memberVars, keyVars, orgs, role, want, locked, asked>>

\* The transaction ends; a row deleted in it disappears for every waiter.
EndTxKeepingLocks(p, gone) ==
    /\ pc' = [pc EXCEPT ![p] = "idle"]
    /\ orgs' = [orgs EXCEPT ![p] = {}]
    /\ role' = [role EXCEPT ![p] = NoMember]
    /\ want' = [q \in Reducers |-> IF q = p THEN {} ELSE want[q] \ gone]
    /\ doomed' = [doomed EXCEPT ![p] = {}]
    /\ UNCHANGED locked
EndTx(p, gone) ==
    /\ pc' = [pc EXCEPT ![p] = "idle"]
    /\ orgs' = [orgs EXCEPT ![p] = {}]
    /\ role' = [role EXCEPT ![p] = NoMember]
    /\ want' = [q \in Reducers |-> IF q = p THEN {} ELSE want[q] \ gone]
    /\ locked' = [locked EXCEPT ![p] = {}]
    /\ doomed' = [doomed EXCEPT ![p] = {}]

\* DELETE (every doomed row must match), AppCredentials, COMMIT.
Commit(p) ==
    /\ pc[p] = "delete"
    /\ doomed[p] \subseteq live
    /\ member' = [o \in Orgs |-> IF o \in orgs[p] THEN role[p] ELSE member[o]]
    /\ live' = live \ doomed[p]
    /\ late' = late \ doomed[p]
    /\ EndTx(p, doomed[p])
    /\ UNCHANGED <<scopes, asked>>

\* Any error, AppCredentials' own included, or a crash: all of it rolls back.
Rollback(p) ==
    /\ pc[p] # "idle"
    /\ EndTx(p, {})
    /\ UNCHANGED <<memberVars, keyVars, asked>>

-------------------------------------------------------------------------------
(* The host and the repository methods it calls.                           *)

AddMember(o, r) ==
    /\ member[o] = NoMember
    /\ r # NoMember
    /\ ~MemberLocked(o)
    /\ member' = [member EXCEPT ![o] = r]
    /\ UNCHANGED <<keyVars, redVars, asked>>

\* A handler checks that the principal holds what the key is to carry...
CheckKeyWrite(w, k, have) ==
    /\ asked[w] = {}
    /\ Covered(k, have)
    /\ asked' = [asked EXCEPT ![w] = {[key |-> k, have |-> have]}]
    /\ UNCHANGED <<memberVars, keyVars, redVars>>

\* Nothing that reduced this key's organization will look at it again: a
\* reduction that has begun its read has not selected it, or the role it was
\* checked against is gone.
Unseen(k, have) ==
    \/ ~Covered(k, have)
    \/ \E p \in Reducers :
           pc[p] \in {"lock", "delete"} /\ KeyOrg[k] \in orgs[p] /\ k \notin want[p]

WriteKey(w, a) ==
    /\ a \in asked[w]
    /\ scopes' = [scopes EXCEPT ![a.key] = a.have]
    /\ late' = IF Unseen(a.key, a.have) THEN late \cup {a.key} ELSE late \ {a.key}
    /\ asked' = [asked EXCEPT ![w] = {}]
    /\ UNCHANGED <<memberVars, redVars>>

\* ...and inserts it: the INSERT meets no lock of a reduction...
CreateAPIKey(w, a) ==
    /\ a.key \notin live
    /\ a.key \notin Service
    /\ live' = live \cup {a.key}
    /\ WriteKey(w, a)

\* ...or rewrites its scopes: the UPDATE waits for a reduction's lock.
UpdateNoWait(w, a) ==
    /\ a.key \in live
    /\ WriteKey(w, a)
    /\ UNCHANGED live
Update(w, a) ==
    /\ a.key \in live
    /\ ~KeyLocked(a.key)
    /\ WriteKey(w, a)
    /\ UNCHANGED live

\* The row went meanwhile (ErrNotFound), or the handler fails.
GiveUp(w) ==
    /\ asked[w] # {}
    /\ asked' = [asked EXCEPT ![w] = {}]
    /\ UNCHANGED <<memberVars, keyVars, redVars>>

RevokeAPIKey(k) ==
    /\ k \in live
    /\ ~KeyLocked(k)
    /\ live' = live \ {k}
    /\ late' = late \ {k}
    /\ want' = [p \in Reducers |-> want[p] \ {k}]
    /\ UNCHANGED <<memberVars, scopes, pc, orgs, role, locked, doomed, asked>>

-------------------------------------------------------------------------------
ReducerNext(p) ==
    \/ \E o \in Orgs :
           RemoveMember(p, o) \/ \E r \in Roles : UpdateMemberRoleTemplate(p, o, r)
    \/ \E scope \in SUBSET Orgs : RemoveAllMembershipsForUser(p, scope)
    \/ ReadKeys(p) \/ Decide(p) \/ Commit(p) \/ Rollback(p)
    \/ \E k \in Keys : LockKey(p, k)

WriterNext(w) ==
    \/ \E k \in Derived, have \in KeyScopes : CheckKeyWrite(w, k, have)
    \/ \E a \in asked[w] : CreateAPIKey(w, a) \/ Update(w, a)
    \/ GiveUp(w)

Next ==
    \/ \E p \in Reducers : ReducerNext(p)
    \/ \E w \in Writers : WriterNext(w)
    \/ \E o \in Orgs, r \in Roles : AddMember(o, r)
    \/ \E k \in Keys : RevokeAPIKey(k)

Spec == Init /\ [][Next]_vars

-------------------------------------------------------------------------------
(* Properties.                                                             *)

\* Every variable has its type, and a reduction that has ended holds no lock.
TypeOK ==
    /\ member \in [Orgs -> Roles]
    /\ live \subseteq Keys
    /\ scopes \in [Keys -> KeyScopes]
    /\ late \subseteq Keys
    /\ pc \in [Reducers -> {"idle", "reduced", "lock", "delete"}]
    /\ orgs \in [Reducers -> SUBSET Orgs]
    /\ role \in [Reducers -> Roles]
    /\ want \in [Reducers -> SUBSET Keys]
    /\ locked \in [Reducers -> SUBSET Keys]
    /\ doomed \in [Reducers -> SUBSET Keys]
    /\ asked \in [Writers -> SUBSET [key : Derived, have : KeyScopes]]
    /\ \A p \in Reducers :
        /\ pc[p] = "idle" => orgs[p] = {}
        /\ pc[p] \in {"idle", "reduced"} => want[p] = {} /\ locked[p] = {}

\* "The state the issue describes, membership gone and credentials alive, is
\* unreachable" (Reducer): no key carries more than its owner's role grants.
NoStrandedKey == \A k \in live \cap Derived : Covered(k, scopes[k])

\* The exact extent to which Reducer keeps that promise: the only keys that
\* outlive their authority are those the host wrote after a reduction had read
\* the keys, or on a check a reduction had overtaken.
OnlyLateKeysStranded == \A k \in (live \cap Derived) \ late : Covered(k, scopes[k])

\* sweepDerivedKeys decides on rows that cannot change before its DELETE: of
\* the keys it locked, it deletes those the surviving role does not cover and
\* no other, whatever was re-scoped meanwhile.
SweepIsExact ==
    [][\A p \in Reducers : Commit(p) =>
        \A k \in locked[p] : k \in live' <=> Covered(k, scopes[k])']_vars

\* A reduction never deletes an organization's service key.
ServiceKeysSurvive ==
    [][\A p \in Reducers : Commit(p) => live \cap Service \subseteq live']_vars
-------------------------------------------------------------------------------
(* The inductive invariant.                                                *)

\* An open reduction owns its membership rows and the keys it has locked,
\* which are derived keys of those organizations and still there.
RowLocks ==
    \A p \in Reducers :
        /\ want[p] \cup locked[p] \subseteq live \cap Derived
        /\ want[p] \cap locked[p] = {}
        /\ \A k \in want[p] \cup locked[p] : KeyOrg[k] \in orgs[p]
        /\ \A q \in Reducers \ {p} :
               orgs[p] \cap orgs[q] = {} /\ locked[p] \cap locked[q] = {}

\* Once a reduction has read the keys, those it does not know of are late.
ReadComplete ==
    \A p \in Reducers :
        pc[p] \in {"lock", "delete"} =>
            \A k \in (live \cap Derived) \ late :
                KeyOrg[k] \in orgs[p] => k \in want[p] \cup locked[p]

\* What it decided is still what it would decide.
DecisionStands ==
    \A p \in Reducers :
        pc[p] = "delete" => want[p] = {} /\ doomed[p] = Unretained(p)

IInv ==
    /\ TypeOK
    /\ RowLocks
    /\ ReadComplete
    /\ DecisionStands
    /\ OnlyLateKeysStranded

-------------------------------------------------------------------------------
(* Waiting.                                                                *)

\* Once its memberships are written, a reduction waits for no other: the keys
\* it still wants are free, and the rows it is about to delete all match, so
\* "selected %d derived api keys but deleted %d" (sweepDerivedKeys) is never
\* returned.
SweepNeverBlocks ==
    \A p \in Reducers :
        /\ \A k \in want[p] : ~KeyLocked(k)
        /\ pc[p] = "delete" => doomed[p] \subseteq live

\* The rows an open reduction has written or locked are its own until it ends:
\* no step of anyone else changes the membership, the key's scopes or the key.
HeldRowsAreStable ==
    [][\A p \in Reducers : pc'[p] # "idle" =>
        /\ \A o \in orgs[p] : member'[o] = member[o]
        /\ \A k \in locked[p] : k \in live' /\ scopes'[k] = scopes[k]]_vars

===============================================================================
