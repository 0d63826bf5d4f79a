---------------------------- MODULE DefaultOrgCache ---------------------------
(***************************************************************************)
(* The default organization as one OrganizationRepository caches it.        *)
(* Requests read it while writers of this process change the row and then   *)
(* invalidate the cache; other replicas change it without telling. A reader *)
(* that missed holds no lock while it asks the database.                    *)
(***************************************************************************)
EXTENDS Naturals

CONSTANTS Readers, Writers,
          MaxVersion       \* bound on the writes

VARIABLES
    defaultOrg,   \* [ver, there]: the row's version, and whether an organization
                  \* is named "default" at all
    cache,        \* defaultOrgCache: the version held, or 0
    fresh,        \* within defaultOrgCacheTTL of defaultOrgAt
    gen,          \* defaultOrgGen
    reader,       \* [Readers -> [step, gen, got, there, since]]
    writer,       \* [Writers -> 0, or the version committed and not yet invalidated]
    announced     \* the newest version whose local write has returned without an error

cacheVars == <<defaultOrg, cache, fresh, gen, reader, writer, announced>>

NoRead == [step |-> "idle", gen |-> 0, got |-> 0, there |-> FALSE, since |-> 0]

CacheInit ==
    /\ defaultOrg = [ver |-> 1, there |-> TRUE]
    /\ cache = 0 /\ fresh = FALSE /\ gen = 0
    /\ reader = [r \in Readers |-> NoRead]
    /\ writer = [w \in Writers |-> 0]
    /\ announced = 1
-----------------------------------------------------------------------------
(* GetDefaultOrganization: a hit, or a miss that notes the generation. *)
Hit(r) ==
    /\ reader[r].step = "idle" /\ cache # 0 /\ fresh
    /\ reader' = [reader EXCEPT ![r] = [step |-> "done", gen |-> gen, got |-> cache,
                                        there |-> TRUE, since |-> announced]]
    /\ UNCHANGED <<defaultOrg, cache, fresh, gen, writer, announced>>

Miss(r) ==
    /\ reader[r].step = "idle" /\ ~(cache # 0 /\ fresh)
    /\ reader' = [reader EXCEPT ![r] = [NoRead EXCEPT !.step = "query", !.gen = gen,
                                                      !.since = announced]]
    /\ UNCHANGED <<defaultOrg, cache, fresh, gen, writer, announced>>

Query(r) ==
    /\ reader[r].step = "query"
    /\ reader' = [reader EXCEPT ![r].step = IF defaultOrg.there THEN "refill" ELSE "done",
                                ![r].got = defaultOrg.ver, ![r].there = defaultOrg.there]
    /\ UNCHANGED <<defaultOrg, cache, fresh, gen, writer, announced>>

\* The refill counts only if nothing was invalidated since the miss.
RefillAlways(r) ==     \* mutant
    /\ reader[r].step = "refill"
    /\ cache' = reader[r].got /\ fresh' = TRUE
    /\ reader' = [reader EXCEPT ![r].step = "done"]
    /\ UNCHANGED <<defaultOrg, gen, writer, announced>>

Refill(r) ==
    /\ reader[r].step = "refill"
    /\ IF gen = reader[r].gen THEN cache' = reader[r].got /\ fresh' = TRUE
                              ELSE UNCHANGED <<cache, fresh>>
    /\ reader' = [reader EXCEPT ![r].step = "done"]
    /\ UNCHANGED <<defaultOrg, gen, writer, announced>>

Return(r) ==
    /\ reader[r].step = "done"
    /\ reader' = [reader EXCEPT ![r] = NoRead]
    /\ UNCHANGED <<defaultOrg, cache, fresh, gen, writer, announced>>

Lapse ==
    /\ fresh
    /\ fresh' = FALSE
    /\ UNCHANGED <<defaultOrg, cache, gen, reader, writer, announced>>
-----------------------------------------------------------------------------
(* Create, Update, Rename and Delete: the statement commits, then the cache  *)
(* is invalidated, then the call returns.                                    *)
WriteRow == \E there \in BOOLEAN : defaultOrg' = [ver |-> defaultOrg.ver + 1, there |-> there]

LocalWrite(w) ==
    /\ writer[w] = 0 /\ defaultOrg.ver < MaxVersion
    /\ WriteRow
    /\ writer' = [writer EXCEPT ![w] = defaultOrg.ver + 1]
    /\ UNCHANGED <<cache, fresh, gen, reader, announced>>

InvalidateDefaultOrgCache(w) ==
    /\ writer[w] # 0
    /\ cache' = 0 /\ gen' = gen + 1
    /\ announced' = IF writer[w] > announced THEN writer[w] ELSE announced
    /\ writer' = [writer EXCEPT ![w] = 0]
    /\ UNCHANGED <<defaultOrg, fresh, reader>>

\* A write of this process that commits and yet returns an error (a lost reply, a
\* deadline): the call is over before it reaches the invalidation.
FailedWrite(w) ==
    /\ writer[w] = 0 /\ defaultOrg.ver < MaxVersion
    /\ WriteRow
    /\ UNCHANGED <<cache, fresh, gen, reader, writer, announced>>

\* Another replica's write.
RemoteWrite ==
    /\ defaultOrg.ver < MaxVersion
    /\ WriteRow
    /\ UNCHANGED <<cache, fresh, gen, reader, writer, announced>>

CacheNext ==
    \/ \E r \in Readers : Hit(r) \/ Miss(r) \/ Query(r) \/ Refill(r) \/ Return(r)
    \/ \E w \in Writers : LocalWrite(w) \/ InvalidateDefaultOrgCache(w) \/ FailedWrite(w)
    \/ RemoteWrite \/ Lapse

CacheSpec == CacheInit /\ [][CacheNext]_cacheVars
-----------------------------------------------------------------------------
(* A read that began after a write of this process returned without an error *)
(* gives that write's organization or a later one, whatever reads were in    *)
(* flight when the cache was cleared and whatever writes failed or came from *)
(* other replicas. Nothing is claimed of a write that returned an error: the *)
(* comment of Update says that the cache is invalidated either way, the code *)
(* returns before it does.                                                   *)
ReadYourWrites ==
    \A r \in Readers : reader[r].step = "done" => reader[r].got >= reader[r].since
===============================================================================
