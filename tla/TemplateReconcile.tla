--------------------------- MODULE TemplateReconcile ---------------------------
(***************************************************************************)
(* identity/store/template_reconcile.go and template_write.go: changing or  *)
(* deleting a role template after sweeping, page by page and each page in   *)
(* a transaction of its own, the API keys its members could no longer hold. *)
(*                                                                         *)
(* Meanwhile the host adds members, revokes keys, checks and later writes   *)
(* keys, and runs reductions (authority_reduction.go): transactions that    *)
(* move one member to another template or out, and delete the keys the move *)
(* strands.  AuthorityReduction has them in full, with fixed templates.     *)
(***************************************************************************)
EXTENDS Scopes, Naturals, FiniteSets

CONSTANTS
    Principals,     \* (organization, user) pairs, numbered in keyset order
    Templates,      \* role template ids
    System,         \* templates with is_system = true
    Grants,         \* [Templates -> scopes]: what they grant at first
    ScopeSets,      \* the scope sets a template or a key may be written with
    Keys,           \* api_keys ids
    Owner,          \* [Keys -> Principals] (service keys match no member)
    Writers,        \* TemplateWriter callers
    Reducers,       \* Reducer calls that may run at the same time
    Handlers,       \* key handlers of the host that may run at the same time
    BatchSize,      \* ReconcileOptions.BatchSize
    MaxBatches,     \* ReconcileOptions.MaxBatches (0 there: more than there are)
    NoTemplate,     \* a membership with a NULL role_template_id
    NoMember,       \* no membership row
    NoKey           \* no api_keys row

ASSUME ReconcileAssumption ==
    /\ Principals \subseteq Nat \ {0}
    /\ System \subseteq Templates
    /\ Grants \in [Templates -> ScopeSets]
    /\ {} \in ScopeSets
    /\ Owner \in [Keys -> Principals]
    /\ BatchSize \in Nat \ {0}
    /\ MaxBatches \in Nat \ {0}
    /\ NoTemplate \notin Templates /\ NoMember \notin Templates
    /\ NoTemplate # NoMember
    /\ NoKey \notin ScopeSets
    /\ Writers \cap Reducers = {}

VARIABLES
    role,       \* principal -> its template, NoTemplate or NoMember
    exists,     \* templates with a row
    grants,     \* template -> its scopes
    scopes,     \* key -> the scopes frozen in its row, or NoKey
    late,       \* keys written or moved where a sweep had already been
    pc,         \* writer -> idle | batch | read | lock | mutate | stopped,
                \* reducer -> idle | reduced | read | lock
    want,       \* writer or reducer -> keys its FOR UPDATE has still to lock
    locked,     \* writer or reducer -> keys it holds FOR UPDATE
    tpl,        \* writer -> the template it writes
    prop,       \* writer -> the proposed scopes ({} for a deletion)
    kind,       \* writer -> update | delete
    cursor,     \* writer -> last principal of the last committed page, or 0
    batches,    \* writer -> batches this call has committed
    page,       \* writer -> the planned page
    moved,      \* writer -> principals whose role changed since its read
    who,        \* reducer -> the principal whose row it has written, or 0
    to,         \* reducer -> the role it wrote there
    auth,       \* reducer -> the scopes it read for that role
    overtaken,  \* reducers whose template was rewritten after that read
    asked       \* handler -> the key write it has checked: {} or {[key, have]}

memberVars == <<role, exists, grants>>
keyVars    == <<scopes, late>>
callVars   == <<tpl, prop, kind>>
batchVars  == <<page, want, locked, moved>>
runVars    == <<pc, cursor, batches>>
hostVars   == <<who, to, auth, overtaken, asked>>
vars == <<memberVars, keyVars, callVars, batchVars, runVars, hostVars>>

Txs == Writers \cup Reducers
Roles == Templates \cup {NoTemplate, NoMember}
Stages == {"idle", "batch", "reduced", "read", "lock", "mutate", "stopped"}

\* The keys that have a row; the rows a DELETE leaves.
live == {k \in Keys : scopes[k] # NoKey}
Without(gone) == [k \in Keys |-> IF k \in gone THEN NoKey ELSE scopes[k]]

\* COALESCE(rt.scopes, '[]') over a LEFT JOIN.
Authority(r) == IF r \in exists THEN grants[r] ELSE {}

Covered(k, have) == AuthorityRetained(have, Authority(role[Owner[k]]))

Init ==
    /\ role \in [Principals -> Roles]
    /\ exists = Templates
    /\ grants = Grants
    /\ scopes \in [Keys -> ScopeSets \cup {NoKey}]
    /\ \A k \in live : Covered(k, scopes[k])
    /\ late = {}
    /\ pc = [t \in Txs |-> "idle"]
    /\ want = [t \in Txs |-> {}]
    /\ locked = [t \in Txs |-> {}]
    /\ tpl = [w \in Writers |-> NoTemplate]
    /\ prop = [w \in Writers |-> {}]
    /\ kind = [w \in Writers |-> "update"]
    /\ cursor = [w \in Writers |-> 0]
    /\ batches = [w \in Writers |-> 0]
    /\ page = [w \in Writers |-> {}]
    /\ moved = [w \in Writers |-> {}]
    /\ who = [p \in Reducers |-> 0]
    /\ to = [p \in Reducers |-> NoMember]
    /\ auth = [p \in Reducers |-> {}]
    /\ overtaken = {}
    /\ asked = [h \in Handlers |-> {}]

\* Key rows under FOR UPDATE; membership rows an open reduction has written.
KeyLocked(k) == \E t \in Txs : k \in locked[t]
MemberLocked(q) == \E p \in Reducers : who[p] = q

\* The call is over; a transaction in flight is rolled back.
Return(w) ==
    /\ pc' = [pc EXCEPT ![w] = "idle"]
    /\ tpl' = [tpl EXCEPT ![w] = NoTemplate]
    /\ prop' = [prop EXCEPT ![w] = {}]
    /\ kind' = [kind EXCEPT ![w] = "update"]
    /\ cursor' = [cursor EXCEPT ![w] = 0]
    /\ batches' = [batches EXCEPT ![w] = 0]
    /\ page' = [page EXCEPT ![w] = {}]
    /\ want' = [want EXCEPT ![w] = {}]
    /\ locked' = [locked EXCEPT ![w] = {}]

\* Memberships of these principals change.
Moved(Q) == [w \in Writers |-> IF pc[w] = "lock" THEN moved[w] \cup Q ELSE moved[w]]

-------------------------------------------------------------------------------
(* TemplateWriter.write: the pre-flight, and the calls that return.        *)

\* GetRoleTemplate finds it and it is no system template.  Another call is
\* refused here and changes nothing.
WritableAny(t) == t \in exists
Writable(t) == t \in exists \ System

\* UpdateRoleTemplate or DeleteRoleTemplate, from the beginning.
Write(w, t, k, S) ==
    /\ pc[w] = "idle"
    /\ Writable(t)
    /\ k = "delete" => S = {}
    /\ pc' = [pc EXCEPT ![w] = "batch"]
    /\ tpl' = [tpl EXCEPT ![w] = t]
    /\ kind' = [kind EXCEPT ![w] = k]
    /\ prop' = [prop EXCEPT ![w] = S]
    /\ cursor' = [cursor EXCEPT ![w] = 0]
    /\ batches' = [batches EXCEPT ![w] = 0]
    /\ UNCHANGED <<memberVars, keyVars, batchVars, hostVars>>

\* The same call again with After set to the Cursor of the last result.
Resume(w) ==
    /\ pc[w] = "stopped"
    /\ Writable(tpl[w])
    /\ pc' = [pc EXCEPT ![w] = "batch"]
    /\ batches' = [batches EXCEPT ![w] = 0]
    /\ UNCHANGED <<memberVars, keyVars, callVars, batchVars, cursor, hostVars>>

\* The caller gives up, or the template is gone.
Abandon(w) ==
    /\ pc[w] = "stopped"
    /\ Return(w)
    /\ UNCHANGED <<memberVars, keyVars, moved, hostVars>>

\* ErrReconciliationIncomplete: MaxBatches or ctx, checked between batches.
StopAtMaxBatches(w) ==
    /\ pc[w] = "batch"
    /\ batches[w] = MaxBatches
    /\ pc' = [pc EXCEPT ![w] = "stopped"]
    /\ UNCHANGED <<memberVars, keyVars, callVars, batchVars, cursor, batches, hostVars>>

Cancelled(w) ==
    /\ pc[w] = "batch"
    /\ batches[w] < MaxBatches
    /\ pc' = [pc EXCEPT ![w] = "stopped"]
    /\ UNCHANGED <<memberVars, keyVars, callVars, batchVars, cursor, batches, hostVars>>

-------------------------------------------------------------------------------
(* ReconcileRoleTemplate: one batch, one transaction.                      *)

\* P is what ORDER BY organization_id, user_id LIMIT n returns of S.
IsPage(P, S, n) ==
    /\ Cardinality(P) <= n
    /\ Cardinality(P) < n => P = S
    /\ \A q \in P : \A r \in S \ P : q < r

\* planBatch: the members after the cursor.
AfterCursor(w) == {q \in Principals : role[q] = tpl[w] /\ q > cursor[w]}

MayPlanUncapped(w) == pc[w] = "batch"
MayPlan(w) == pc[w] = "batch" /\ batches[w] < MaxBatches

\* An empty page commits at once and ends the sweep.
PlanBatch(w) ==
    /\ MayPlan(w)
    /\ \E P \in SUBSET AfterCursor(w) :
        /\ IsPage(P, AfterCursor(w), BatchSize)
        /\ page' = [page EXCEPT ![w] = P]
        /\ pc' = [pc EXCEPT ![w] = IF P = {} THEN "mutate" ELSE "read"]
        /\ batches' = [batches EXCEPT ![w] = IF P = {} THEN @ + 1 ELSE @]
    /\ UNCHANGED <<memberVars, keyVars, callVars, want, locked, moved, cursor, hostVars>>

\* sweepBatchKeys: the statement's snapshot joins the page with the members
\* that hold the template NOW...
BatchKeysAsPlanned(w) == {k \in live : Owner[k] \in page[w]}
BatchKeys(w) == {k \in live : Owner[k] \in page[w] /\ role[Owner[k]] = tpl[w]}

ReadKeys(w) ==
    /\ pc[w] = "read"
    /\ pc' = [pc EXCEPT ![w] = "lock"]
    /\ want' = [want EXCEPT ![w] = BatchKeys(w)]
    /\ moved' = [moved EXCEPT ![w] = {}]
    /\ UNCHANGED <<memberVars, keyVars, callVars, page, locked, cursor, batches, hostVars>>

\* ...and FOR UPDATE locks each key row when it is free: a batch's (OF ak) and
\* a reduction's alike.
LockKeyNoWait(t, k) ==
    /\ pc[t] = "lock"
    /\ k \in want[t]
    /\ want' = [want EXCEPT ![t] = @ \ {k}]
    /\ locked' = [locked EXCEPT ![t] = @ \cup {k}]
    /\ UNCHANGED <<memberVars, keyVars, callVars, page, moved, runVars, hostVars>>
LockKey(t, k) ==
    /\ pc[t] = "lock"
    /\ k \in want[t]
    /\ ~KeyLocked(k)
    /\ want' = [want EXCEPT ![t] = @ \ {k}]
    /\ locked' = [locked EXCEPT ![t] = @ \cup {k}]
    /\ UNCHANGED <<memberVars, keyVars, callVars, page, moved, runVars, hostVars>>

Unretained(w) == {k \in locked[w] : ~AuthorityRetained(scopes[k], prop[w])}

\* The cursor after a page: its last principal.
NextCursorStale(w, q) == q = cursor[w]
NextCursor(w, q) == q \in page[w] /\ \A r \in page[w] : r <= q

\* A page that is not full is the last one.
LastPageAlways(w) == Cardinality(page[w]) <= BatchSize
LastPage(w) == Cardinality(page[w]) < BatchSize

\* The loop over the locked rows, DELETE, COMMIT; then the next batch or, after
\* a short page, the end of the sweep.
CommitBatch(w) ==
    LET gone == Unretained(w) IN
    /\ pc[w] = "lock"
    /\ want[w] = {}
    /\ scopes' = Without(gone)
    /\ late' = late \ gone
    /\ want' = [t \in Txs |-> want[t] \ gone]
    /\ locked' = [locked EXCEPT ![w] = {}]
    /\ page' = [page EXCEPT ![w] = {}]
    /\ moved' = [moved EXCEPT ![w] = {}]
    /\ \E q \in Principals \cup {0} :
           NextCursor(w, q) /\ cursor' = [cursor EXCEPT ![w] = q]
    /\ batches' = [batches EXCEPT ![w] = @ + 1]
    /\ pc' = [pc EXCEPT ![w] = IF LastPage(w) THEN "mutate" ELSE "batch"]
    /\ UNCHANGED <<memberVars, callVars, hostVars>>

\* An error inside a batch: the call is over, with no cursor to resume from.
BatchFails(w) ==
    /\ pc[w] \in {"batch", "read", "lock"}
    /\ Return(w)
    /\ moved' = [moved EXCEPT ![w] = {}]
    /\ UNCHANGED <<memberVars, keyVars, hostVars>>

\* The process dies.
Crash(w) ==
    /\ pc[w] \notin {"idle", "stopped"}
    /\ Return(w)
    /\ moved' = [moved EXCEPT ![w] = {}]
    /\ UNCHANGED <<memberVars, keyVars, hostVars>>

-------------------------------------------------------------------------------
(* execRoleTemplateMutation, once the sweep is done.                       *)

MutateUpdate(w) ==
    /\ pc[w] = "mutate" /\ kind[w] = "update"
    /\ Writable(tpl[w])
    /\ grants' = [grants EXCEPT ![tpl[w]] = prop[w]]
    /\ overtaken' = overtaken
           \cup {p \in Reducers : pc[p] \in {"read", "lock"} /\ to[p] = tpl[w]}
    /\ Return(w)
    /\ UNCHANGED <<role, exists, keyVars, moved, who, to, auth, asked>>

\* ON DELETE SET NULL rewrites the memberships in the same statement.  It waits
\* for the rows open reductions have written, and for the key-share lock they
\* hold on the template they moved a member to.
MutateDelete(w) ==
    LET members == {q \in Principals : role[q] = tpl[w]} IN
    /\ pc[w] = "mutate" /\ kind[w] = "delete"
    /\ \A q \in members : ~MemberLocked(q)
    /\ \A p \in Reducers : to[p] # tpl[w]
    /\ Writable(tpl[w])
    /\ exists' = exists \ {tpl[w]}
    /\ grants' = [grants EXCEPT ![tpl[w]] = {}]
    /\ role' = [q \in Principals |-> IF q \in members THEN NoTemplate ELSE role[q]]
    /\ moved' = Moved(members)
    /\ Return(w)
    /\ UNCHANGED <<keyVars, hostVars>>

\* No row matched (ErrNotFound), or the statement failed.
MutateFails(w) ==
    /\ pc[w] = "mutate"
    /\ Return(w)
    /\ UNCHANGED <<memberVars, keyVars, moved, hostVars>>

-------------------------------------------------------------------------------
(* What comes where a sweep has been.                                      *)

\* The principals this run has still to read.
Ahead(w, q) ==
    \/ pc[w] \in {"batch", "stopped"} /\ q > cursor[w]
    \/ pc[w] = "read" /\ q \in page[w]
    \/ pc[w] \in {"read", "lock"} /\ ~LastPage(w) /\ \A r \in page[w] : r < q

\* A sweep of template t has been where this key now is, and would have
\* deleted it.
Missed(k, t, have) ==
    \E w \in Writers :
        /\ pc[w] # "idle" /\ tpl[w] = t
        /\ ~Ahead(w, Owner[k])
        /\ k \notin want[w] \cup locked[w]
        /\ ~AuthorityRetained(have, prop[w])

\* A reduction of the key's owner has read the keys without this one, and
\* would have deleted it.
Overlooked(k, have) ==
    \E p \in Reducers :
        /\ pc[p] = "lock" /\ who[p] = Owner[k]
        /\ k \notin want[p] \cup locked[p]
        /\ ~AuthorityRetained(have, auth[p])

-------------------------------------------------------------------------------
(* Reducer.run for one membership; RemoveAllMembershipsForUser does the     *)
(* same to several at once.                                                *)

\* The UPDATE or DELETE of the membership, uncommitted: RemoveMember (NoMember)
\* or UpdateMemberRoleTemplate.  The foreign key wants the template's row.
Reduce(p, q, r) ==
    /\ pc[p] = "idle"
    /\ role[q] # NoMember /\ ~MemberLocked(q)
    /\ r \in exists \cup {NoTemplate, NoMember}
    /\ pc' = [pc EXCEPT ![p] = "reduced"]
    /\ who' = [who EXCEPT ![p] = q]
    /\ to' = [to EXCEPT ![p] = r]
    /\ UNCHANGED <<memberVars, keyVars, callVars, batchVars, cursor, batches>>
    /\ UNCHANGED <<auth, overtaken, asked>>

\* retainedScopes: a read that locks nothing; the template may change after it.
RetainedScopes(p) ==
    /\ pc[p] = "reduced"
    /\ pc' = [pc EXCEPT ![p] = "read"]
    /\ auth' = [auth EXCEPT ![p] = Authority(to[p])]
    /\ UNCHANGED <<memberVars, keyVars, callVars, batchVars, cursor, batches>>
    /\ UNCHANGED <<who, to, overtaken, asked>>

\* sweepDerivedKeys: the snapshot of its FOR UPDATE read; LockKey does the rest.
OwnKeys(p) == {k \in live : Owner[k] = who[p]}

ReadOwnKeys(p) ==
    /\ pc[p] = "read"
    /\ pc' = [pc EXCEPT ![p] = "lock"]
    /\ want' = [want EXCEPT ![p] = OwnKeys(p)]
    /\ UNCHANGED <<memberVars, keyVars, callVars, page, locked, moved, cursor, batches, hostVars>>

EndReduction(p, gone) ==
    /\ pc' = [pc EXCEPT ![p] = "idle"]
    /\ want' = [t \in Txs |-> IF t = p THEN {} ELSE want[t] \ gone]
    /\ locked' = [locked EXCEPT ![p] = {}]
    /\ who' = [who EXCEPT ![p] = 0]
    /\ to' = [to EXCEPT ![p] = NoMember]
    /\ auth' = [auth EXCEPT ![p] = {}]
    /\ overtaken' = overtaken \ {p}

\* A key that stays with a member who moved is late if the reduction did not
\* see it and it was late before; if a sweep of the new template has passed its
\* new place; or if that template was rewritten after retainedScopes read it.
LateAfterMove(p, k) ==
    \/ k \in late \ locked[p]
    \/ Missed(k, to[p], scopes[k])
    \/ p \in overtaken /\ ~AuthorityRetained(scopes[k], Authority(to[p]))

\* The loop over the locked rows, DELETE, AppCredentials, COMMIT.  Nothing can
\* change the rows it has locked, so where it stands among them is not kept.
Doomed(p) == {k \in locked[p] : ~AuthorityRetained(scopes[k], auth[p])}

CommitReduction(p) ==
    /\ pc[p] = "lock" /\ want[p] = {}
    /\ role' = [role EXCEPT ![who[p]] = to[p]]
    /\ moved' = Moved({who[p]})
    /\ scopes' = Without(Doomed(p))
    /\ late' = {k \in live \ Doomed(p) :
                    IF Owner[k] = who[p] THEN LateAfterMove(p, k) ELSE k \in late}
    /\ EndReduction(p, Doomed(p))
    /\ UNCHANGED <<exists, grants, callVars, page, cursor, batches, asked>>

\* Any error, a deadlock the database breaks, or a crash.
Rollback(p) ==
    /\ pc[p] # "idle"
    /\ EndReduction(p, {})
    /\ UNCHANGED <<memberVars, keyVars, callVars, page, moved, cursor, batches, asked>>

-------------------------------------------------------------------------------
(* The rest of the host.                                                   *)

\* A handler checks that the owner holds what the key is to carry...
CheckKeyWrite(h, k, have) ==
    /\ asked[h] = {}
    /\ Covered(k, have)
    /\ asked' = [asked EXCEPT ![h] = {[key |-> k, have |-> have]}]
    /\ UNCHANGED <<memberVars, keyVars, callVars, batchVars, runVars, who, to, auth, overtaken>>

\* ...and writes it in a statement of its own, whatever has happened since.
LateWrite(k, have) ==
    \/ ~Covered(k, have)
    \/ Missed(k, role[Owner[k]], have)
    \/ Overlooked(k, have)

WriteKey(h, a) ==
    /\ a \in asked[h]
    /\ scopes' = [scopes EXCEPT ![a.key] = a.have]
    /\ late' = IF LateWrite(a.key, a.have) THEN late \cup {a.key} ELSE late \ {a.key}
    /\ asked' = [asked EXCEPT ![h] = {}]
    /\ UNCHANGED <<memberVars, callVars, batchVars, runVars, who, to, auth, overtaken>>

CreateAPIKey(h, a) ==
    /\ a.key \notin live
    /\ WriteKey(h, a)

Update(h, a) ==
    /\ a.key \in live
    /\ ~KeyLocked(a.key)
    /\ WriteKey(h, a)

\* The row went meanwhile (ErrNotFound), or the handler fails.
GiveUp(h) ==
    /\ asked[h] # {}
    /\ asked' = [asked EXCEPT ![h] = {}]
    /\ UNCHANGED <<memberVars, keyVars, callVars, batchVars, runVars, who, to, auth, overtaken>>

RevokeAPIKey(k) ==
    /\ k \in live
    /\ ~KeyLocked(k)
    /\ scopes' = Without({k})
    /\ late' = late \ {k}
    /\ want' = [t \in Txs |-> want[t] \ {k}]
    /\ UNCHANGED <<memberVars, callVars, page, locked, moved, runVars, hostVars>>

AddMember(q, r) ==
    /\ role[q] = NoMember
    /\ r \in exists \cup {NoTemplate}
    /\ role' = [role EXCEPT ![q] = r]
    /\ moved' = Moved({q})
    /\ UNCHANGED <<exists, grants, keyVars, callVars, page, want, locked, runVars, hostVars>>

-------------------------------------------------------------------------------
WriterStep(w) ==
    \/ Resume(w) \/ StopAtMaxBatches(w)
    \/ PlanBatch(w) \/ ReadKeys(w) \/ CommitBatch(w)
    \/ \E k \in Keys : LockKey(w, k)
    \/ MutateUpdate(w) \/ MutateDelete(w) \/ MutateFails(w)

WriterFault(w) == Abandon(w) \/ Cancelled(w) \/ BatchFails(w) \/ Crash(w)

ReducerStep(p) ==
    \/ RetainedScopes(p) \/ ReadOwnKeys(p) \/ CommitReduction(p) \/ Rollback(p)
    \/ \E k \in Keys : LockKey(p, k)

HandlerNext(h) ==
    \/ \E k \in Keys, have \in ScopeSets : CheckKeyWrite(h, k, have)
    \/ \E a \in asked[h] : CreateAPIKey(h, a) \/ Update(h, a)
    \/ GiveUp(h)

HostNext ==
    \/ \E p \in Reducers, q \in Principals, r \in Roles : Reduce(p, q, r)
    \/ \E p \in Reducers : ReducerStep(p)
    \/ \E h \in Handlers : HandlerNext(h)
    \/ \E k \in Keys : RevokeAPIKey(k)
    \/ \E q \in Principals, r \in Roles : AddMember(q, r)

Next ==
    \/ \E w \in Writers, t \in Templates, S \in ScopeSets, k \in {"update", "delete"} :
           Write(w, t, k, S)
    \/ \E w \in Writers : WriterStep(w) \/ WriterFault(w)
    \/ HostNext

Spec == Init /\ [][Next]_vars

\* A writer goes on: it resumes what was stopped, its context now and then
\* outlives a batch, and a row it waits for is given to it in the end (waiters
\* queue).  A reduction ends, one way or the other.
FairSpec ==
    /\ Spec
    /\ \A w \in Writers :
           /\ WF_vars(WriterStep(w)) /\ SF_vars(PlanBatch(w))
           /\ SF_vars(\E k \in Keys : LockKey(w, k))
    /\ \A p \in Reducers : WF_vars(ReducerStep(p))

-------------------------------------------------------------------------------
(* Properties.                                                             *)

\* Every variable has its type, and no call runs more batches than it may.
TypeOK ==
    /\ role \in [Principals -> Roles]
    /\ exists \subseteq Templates
    /\ grants \in [Templates -> ScopeSets]
    /\ scopes \in [Keys -> ScopeSets \cup {NoKey}]
    /\ late \subseteq live
    /\ pc \in [Txs -> Stages]
    /\ want \in [Txs -> SUBSET Keys]
    /\ locked \in [Txs -> SUBSET Keys]
    /\ tpl \in [Writers -> Templates \cup {NoTemplate}]
    /\ prop \in [Writers -> ScopeSets]
    /\ kind \in [Writers -> {"update", "delete"}]
    /\ cursor \in [Writers -> Principals \cup {0}]
    /\ batches \in [Writers -> 0 .. MaxBatches]
    /\ page \in [Writers -> SUBSET Principals]
    /\ moved \in [Writers -> SUBSET Principals]
    /\ who \in [Reducers -> Principals \cup {0}]
    /\ to \in [Reducers -> Roles]
    /\ auth \in [Reducers -> ScopeSets]
    /\ overtaken \subseteq Reducers
    /\ asked \in [Handlers -> SUBSET [key : Keys, have : ScopeSets]]

\* A template is written only after every key it would strand is gone: no key
\* carries more than its owner's template grants, across pages, stops,
\* resumptions, concurrent writers and open reductions.  The keys it excepts are
\* the gap the package comment accepts: a key written on a check that was
\* overtaken or where a sweep had already been (of the template, or of a
\* reduction of its owner), a key whose owner moved to where a sweep had been,
\* and one that a reduction kept because of scopes its template lost before the
\* reduction committed.
OnlyLateKeysStranded == \A k \in live \ late : Covered(k, scopes[k])

\* A sweep deletes only keys that the proposed scopes do not cover, of
\* principals that hold the template or left it after the batch read them
\* (batchKeysQuery's re-verification).
SweepSparesOthers ==
    [][\A w \in Writers : CommitBatch(w) =>
        \A k \in live \ live' :
            /\ ~AuthorityRetained(scopes[k], prop[w])
            /\ role[Owner[k]] = tpl[w] \/ Owner[k] \in moved[w]]_vars

\* Neither sweepBatchKeys nor sweepDerivedKeys selects rows and then deletes
\* fewer ("selected %d ... api keys but deleted %d"): what a transaction has
\* locked is there until it commits, whoever else sweeps, moves or revokes.
LockedRowsStay == \A t \in Txs : locked[t] \subseteq live

\* "excluded from the lock and from the sweep rather than judged against a
\* template it no longer holds" (ReconcileRoleTemplate).
ReassignedIsSpared ==
    [][\A w \in Writers : CommitBatch(w) =>
        \A k \in live \ live' : role[Owner[k]] = tpl[w]]_vars

\* No key is destroyed for an edit that the database refuses: a system
\* template's members keep theirs (write's pre-flight).
SystemTemplatesKeepKeys ==
    [][\A w \in Writers : CommitBatch(w) =>
        \A k \in live \ live' :
            role[Owner[k]] \in System => Owner[k] \in moved[w]]_vars

\* A writer that resumes from the cursor until it is done does get done,
\* however the membership changes under it.
SweepEnds == \A w \in Writers : pc[w] # "idle" ~> pc[w] = "idle"

-------------------------------------------------------------------------------
(* The inductive invariant.                                                *)

\* What a running call has: a template it may write, a page and locks only
\* inside a batch.
CallShape(w) ==
    /\ pc[w] # "idle" => tpl[w] \in Templates \ System
    /\ pc[w] # "idle" /\ kind[w] = "delete" => prop[w] = {}
    /\ pc[w] \in {"read", "lock"} => page[w] # {} /\ batches[w] < MaxBatches
    /\ pc[w] # "lock" => want[w] = {} /\ locked[w] = {}

\* A key selected or locked is there; a locked one is nobody else's.
RowLocks(t) ==
    /\ want[t] \cup locked[t] \subseteq live
    /\ \A v \in Txs \ {t} : locked[t] \cap locked[v] = {}

\* A batch's keys are of principals of its page that held the template when
\* they were read.
PageKeys(w) ==
    \A k \in want[w] \cup locked[w] :
        Owner[k] \in page[w] /\ (role[Owner[k]] = tpl[w] \/ Owner[k] \in moved[w])

\* Where a run has been, every key that is not late would survive its proposal.
SweptBehind(w) ==
    pc[w] # "idle" =>
        \A k \in live \ late :
            role[Owner[k]] = tpl[w] /\ ~Ahead(w, Owner[k]) /\ k \notin want[w] \cup locked[w]
                => AuthorityRetained(scopes[k], prop[w])

\* An open reduction has a membership row to itself and locks only the keys of
\* its principal.
ReductionShape(p) ==
    /\ pc[p] \in {"idle", "reduced", "read", "lock"}
    /\ pc[p] # "idle" =>
           who[p] \in Principals /\ \A o \in Reducers \ {p} : who[o] # who[p]
    /\ pc[p] # "lock" => want[p] = {} /\ locked[p] = {}
    /\ \A k \in want[p] \cup locked[p] : Owner[k] = who[p]

\* What it read is what its role grants, unless that was rewritten since.
ReductionAuthority(p) ==
    pc[p] \in {"read", "lock"} /\ p \notin overtaken => auth[p] = Authority(to[p])

\* Once it has read the keys, one that it does not know of and that is not late
\* would survive its judgement.
ReductionRead(p) ==
    pc[p] = "lock" =>
        \A k \in live \ late :
            Owner[k] = who[p] /\ k \notin want[p] \cup locked[p]
                => AuthorityRetained(scopes[k], auth[p])

IInv ==
    /\ TypeOK
    /\ OnlyLateKeysStranded
    /\ \A t \in Txs : RowLocks(t)
    /\ \A w \in Writers : CallShape(w) /\ PageKeys(w) /\ SweptBehind(w)
    /\ \A p \in Reducers : ReductionShape(p) /\ ReductionAuthority(p) /\ ReductionRead(p)

-------------------------------------------------------------------------------
(* Progress of a sweep.                                                    *)

\* A planned page is within the LIMIT and wholly after the committed cursor.
PagesAreAhead ==
    \A w \in Writers :
        /\ Cardinality(page[w]) <= BatchSize
        /\ \A q \in page[w] : q > cursor[w]

\* Over all the batches of a call, and over the calls that resume it, the
\* cursor never goes back, every committed batch moves it on, and a batch
\* deletes keys only of the principals it moves over: nobody is swept twice,
\* and there are no more batches with a page than there are principals.
SweepGoesForward ==
    [][\A w \in Writers : pc[w] # "idle" /\ pc'[w] # "idle" =>
        /\ cursor'[w] >= cursor[w]
        /\ CommitBatch(w) =>
            /\ cursor'[w] > cursor[w]
            /\ \A k \in live \ live' : cursor[w] < Owner[k] /\ Owner[k] <= cursor'[w]]_vars
===============================================================================
