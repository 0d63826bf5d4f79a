------------------------------ MODULE OAuthState ------------------------------
(***************************************************************************)
(* identity/auth/oauthstate: Manager (oauthstate.go) over MemoryStore       *)
(* (memory.go).  Goroutines issue states, redeem them at callbacks and      *)
(* reserve identifiers; time passes between any two steps; the mutex makes  *)
(* the body of PutIfAbsent, Take, Close and the sweep one step each, but    *)
(* PutIfAbsent reads the time before it has the mutex.                      *)
(***************************************************************************)
EXTENDS Naturals, FiniteSets

CONSTANTS
    States,     \* what newState can return
    Markers,    \* keys given to Reserve (a namespace of their own)
    Purposes,
    TTLs,       \* the ttl arguments callers use
    Callers,    \* goroutines
    MaxEntries, \* NewMemoryStore's maxEntries, for each namespace
    MaxTime,    \* bound on the clock
    NoTicket, NoPurpose,
    NoKey       \* the register of a goroutine between calls

ASSUME StoreAssumption ==
    /\ States \cap Markers = {}
    /\ TTLs \subseteq Nat \ {0}
    /\ MaxEntries \in Nat \ {0}
    /\ MaxTime \in Nat
    /\ NoTicket \notin [purpose : Purposes, until : Nat]
    /\ NoPurpose \notin Purposes
    /\ NoKey \notin States \cup Markers

VARIABLES
    clock,
    exp,        \* key -> memoryEntry.expiresAt, or 0 for no entry
    ticket,     \* state -> the envelope stored under it
    minted,     \* states newState has returned
    closed,     \* Close has stopped the janitor
    pc,         \* goroutine -> idle | enter | put | take | check
    key,        \* goroutine -> the key of its call
    purpose,    \* goroutine -> the purpose of its call
    ttl,        \* goroutine -> the ttl of its call
    until,      \* goroutine -> envelope.ExpiresAt, as Issue computed it
    now,        \* goroutine -> the time PutIfAbsent has read
    redeemed,   \* state -> the purpose its payload was returned for
    denied      \* marker -> expiry of the last reservation granted

storeVars == <<exp, ticket>>
callVars  == <<pc, key, purpose, ttl, until, now>>
doneVars  == <<redeemed, denied>>
vars == <<clock, storeVars, minted, closed, callVars, doneVars>>

AllKeys == States \cup Markers

\* The keys of MemoryStore.entries; the entries after a deletion.
held == {k \in AllKeys : exp[k] # 0}
Without(gone) == [k \in AllKeys |-> IF k \in gone THEN 0 ELSE exp[k]]

Init ==
    /\ clock = 0
    /\ exp = [k \in AllKeys |-> 0]
    /\ ticket = [s \in States |-> NoTicket]
    /\ minted = {}
    /\ closed = FALSE
    /\ pc = [c \in Callers |-> "idle"]
    /\ key = [c \in Callers |-> NoKey]
    /\ purpose = [c \in Callers |-> NoPurpose]
    /\ ttl = [c \in Callers |-> 0]
    /\ until = [c \in Callers |-> 0]
    /\ now = [c \in Callers |-> 0]
    /\ redeemed = [s \in States |-> NoPurpose]
    /\ denied = [m \in Markers |-> 0]

Goto(c, stage) == pc' = [pc EXCEPT ![c] = stage]

\* The call is over and its registers are gone.
Return(c) ==
    /\ Goto(c, "idle")
    /\ key' = [key EXCEPT ![c] = NoKey]
    /\ purpose' = [purpose EXCEPT ![c] = NoPurpose]
    /\ ttl' = [ttl EXCEPT ![c] = 0]
    /\ until' = [until EXCEPT ![c] = 0]
    /\ now' = [now EXCEPT ![c] = 0]

Tick ==
    /\ clock < MaxTime
    /\ clock' = clock + 1
    /\ UNCHANGED <<storeVars, minted, closed, callVars, doneVars>>

-------------------------------------------------------------------------------
(* Manager: the calls.                                                     *)

\* newState, and the envelope with its own expiry.
Issue(c, s, p, t) ==
    /\ pc[c] = "idle"
    /\ s \notin minted
    /\ minted' = minted \cup {s}
    /\ Goto(c, "enter")
    /\ key' = [key EXCEPT ![c] = s]
    /\ purpose' = [purpose EXCEPT ![c] = p]
    /\ ttl' = [ttl EXCEPT ![c] = t]
    /\ until' = [until EXCEPT ![c] = clock + t]
    /\ UNCHANGED <<clock, storeVars, closed, now, doneVars>>

Reserve(c, m, t) ==
    /\ pc[c] = "idle"
    /\ Goto(c, "enter")
    /\ key' = [key EXCEPT ![c] = m]
    /\ ttl' = [ttl EXCEPT ![c] = t]
    /\ UNCHANGED <<clock, storeVars, minted, closed, purpose, until, now, doneVars>>

\* The callback presents any string, for its own purpose.
Consume(c, p, s) ==
    /\ pc[c] = "idle"
    /\ Goto(c, "take")
    /\ key' = [key EXCEPT ![c] = s]
    /\ purpose' = [purpose EXCEPT ![c] = p]
    /\ UNCHANGED <<clock, storeVars, minted, closed, ttl, until, now, doneVars>>

-------------------------------------------------------------------------------
(* MemoryStore.                                                            *)

\* now := time.Now(), before the lock.
EnterPutAhead(c) ==
    /\ pc[c] = "enter"
    /\ Goto(c, "put")
    /\ now' = [now EXCEPT ![c] = clock + ttl[c]]
    /\ UNCHANGED <<clock, storeVars, minted, closed, key, purpose, ttl, until, doneVars>>
EnterPut(c) ==
    /\ pc[c] = "enter"
    /\ Goto(c, "put")
    /\ now' = [now EXCEPT ![c] = clock]
    /\ UNCHANGED <<clock, storeVars, minted, closed, key, purpose, ttl, until, doneVars>>

Live(k, time) == k \in held /\ time < exp[k]

\* purgeExpiredLocked.
Expired(time) == {k \in held : time > exp[k]}

\* PutIfAbsent, under the lock: ErrAlreadyExists.
PutExists(c) ==
    /\ pc[c] = "put"
    /\ Live(key[c], now[c])
    /\ Return(c)
    /\ UNCHANGED <<clock, storeVars, minted, closed, doneVars>>

\* makeRoomLocked for a marker: nothing is evicted.
HasRoomUpTo(M) == Cardinality(M) <= MaxEntries
HasRoom(M) == Cardinality(M) < MaxEntries

PutMarker(c) ==
    LET m == key[c]
        gone == Expired(now[c])
    IN
    /\ pc[c] = "put" /\ m \in Markers
    /\ ~Live(m, now[c])
    /\ HasRoom((held \ gone) \cap Markers)
    /\ exp' = [Without(gone) EXCEPT ![m] = now[c] + ttl[c]]
    /\ denied' = [denied EXCEPT ![m] = now[c] + ttl[c]]
    /\ Return(c)
    /\ UNCHANGED <<clock, ticket, minted, closed, redeemed>>

\* ErrCapacityExhausted, after the purge.
PutFull(c) ==
    LET gone == Expired(now[c]) IN
    /\ pc[c] = "put" /\ key[c] \in Markers
    /\ ~Live(key[c], now[c])
    /\ ~HasRoom((held \ gone) \cap Markers)
    /\ exp' = Without(gone)
    /\ Return(c)
    /\ UNCHANGED <<clock, ticket, minted, closed, doneVars>>

\* The victims V of evictNearestExpiryStateLocked, called until the other
\* states leave room for one more.
EvictedAnyKey(V, kept) ==
    LET S == kept IN
    /\ V \subseteq S
    /\ Cardinality(S) < MaxEntries => V = {}
    /\ Cardinality(S) >= MaxEntries => Cardinality(S \ V) = MaxEntries - 1
    /\ \A v \in V : \A u \in S \ V : exp[v] <= exp[u]
Evicted(V, kept) ==
    LET S == kept \cap States IN
    /\ V \subseteq S
    /\ Cardinality(S) < MaxEntries => V = {}
    /\ Cardinality(S) >= MaxEntries => Cardinality(S \ V) = MaxEntries - 1
    /\ \A v \in V : \A u \in S \ V : exp[v] <= exp[u]

PutState(c) ==
    LET s == key[c]
        gone == Expired(now[c])
    IN
    /\ pc[c] = "put" /\ s \in States
    /\ ~Live(s, now[c])
    /\ \E V \in SUBSET (held \ gone) :
           /\ Evicted(V, held \ gone)
           /\ exp' = [Without(gone \cup V) EXCEPT ![s] = now[c] + ttl[c]]
    /\ ticket' = [ticket EXCEPT ![s] = [purpose |-> purpose[c], until |-> until[c]]]
    /\ Return(c)
    /\ UNCHANGED <<clock, minted, closed, doneVars>>

\* Take: removed on every hit, returned if not expired.
Take(c) ==
    /\ pc[c] = "take"
    /\ exp' = Without({key[c]})
    /\ \/ /\ key[c] \in held /\ clock <= exp[key[c]]
          /\ Goto(c, "check")
          /\ UNCHANGED <<key, purpose, ttl, until, now>>
       \/ /\ ~(key[c] \in held /\ clock <= exp[key[c]])
          /\ Return(c)
    /\ UNCHANGED <<clock, ticket, minted, closed, doneVars>>

\* Consume's own checks: expiry (again), then purpose.
Accepted(c) ==
    /\ clock <= ticket[key[c]].until
    /\ ticket[key[c]].purpose = purpose[c]

Check(c) ==
    /\ pc[c] = "check"
    /\ redeemed' = IF Accepted(c) THEN [redeemed EXCEPT ![key[c]] = purpose[c]] ELSE redeemed
    /\ Return(c)
    /\ UNCHANGED <<clock, storeVars, minted, closed, denied>>

\* The janitor's sweep, until Close.
Sweep ==
    /\ ~closed
    /\ exp' = Without(Expired(clock))
    /\ UNCHANGED <<clock, ticket, minted, closed, callVars, doneVars>>

\* Every entry is dropped; the store can still be used.
Close ==
    /\ closed' = TRUE
    /\ exp' = [k \in AllKeys |-> 0]
    /\ denied' = [m \in Markers |-> 0]
    /\ UNCHANGED <<clock, ticket, minted, callVars, redeemed>>

-------------------------------------------------------------------------------
Step(c) ==
    \/ EnterPut(c) \/ PutExists(c) \/ PutMarker(c) \/ PutFull(c) \/ PutState(c)
    \/ Take(c) \/ Check(c)

Call(c) ==
    \/ \E s \in States, p \in Purposes, t \in TTLs : Issue(c, s, p, t)
    \/ \E m \in Markers, t \in TTLs : Reserve(c, m, t)
    \/ \E s \in States, p \in Purposes : Consume(c, p, s)

Next ==
    \/ Tick \/ Sweep \/ Close
    \/ \E c \in Callers : Call(c) \/ Step(c)

Spec == Init /\ [][Next]_vars

-------------------------------------------------------------------------------
(* Properties.                                                             *)

\* Every variable has its type, and no call reads a time that is yet to come.
TypeOK ==
    /\ clock \in 0 .. MaxTime
    /\ exp \in [AllKeys -> Nat]
    /\ ticket \in [States -> [purpose : Purposes, until : Nat] \cup {NoTicket}]
    /\ minted \subseteq States
    /\ closed \in BOOLEAN
    /\ pc \in [Callers -> {"idle", "enter", "put", "take", "check"}]
    /\ key \in [Callers -> AllKeys \cup {NoKey}]
    /\ purpose \in [Callers -> Purposes \cup {NoPurpose}]
    /\ ttl \in [Callers -> TTLs \cup {0}]
    /\ until \in [Callers -> Nat]
    /\ now \in [Callers -> Nat]
    /\ \A c \in Callers : now[c] <= clock
    /\ redeemed \in [States -> Purposes \cup {NoPurpose}]
    /\ denied \in [Markers -> Nat]

\* Single use, purpose binding, expiry and replay denial together: Manager and
\* MemoryStore implement OneTimeTokens, whatever callbacks race, whatever is
\* evicted, and however long a call waits between reading the time and having
\* the lock.  A state taken for the wrong purpose is gone.
Outstanding == (held \cap States) \cup {key[c] : c \in {d \in Callers : pc[d] = "check"}}
Tokens == INSTANCE OneTimeTokens WITH outstanding <- Outstanding
TokensRefined == Tokens!Spec

\* Each namespace stays within its own budget (MemoryStore's comment).
CapacityBound ==
    /\ Cardinality(held \cap States) <= MaxEntries
    /\ Cardinality(held \cap Markers) <= MaxEntries

\* A flood of logins costs a live login only when the store is full of logins
\* that expire no sooner (evictNearestExpiryStateLocked), although the purge
\* before it may use an old time.
ShedsOnlyWhenFull ==
    [][\A c \in Callers : PutState(c) =>
        \A s \in (held \ held') \cap States :
            clock <= exp[s] =>
                Cardinality({u \in held \cap States : exp[s] <= exp[u]}) = MaxEntries]_vars

-------------------------------------------------------------------------------
(* The inductive invariant.                                                *)

\* A state being stored is nobody else's and has never been stored.
Storing(c) ==
    pc[c] \in {"enter", "put"} /\ key[c] \in States =>
        /\ key[c] \in minted
        /\ ticket[key[c]] = NoTicket
        /\ \A d \in Callers \ {c} :
               pc[d] \in {"enter", "put"} => key[d] # key[c]

\* A state whose entry has been taken is out of the store and of everyone
\* else's hands.
Checking(c) ==
    pc[c] = "check" =>
        /\ key[c] \in States
        /\ key[c] \notin held
        /\ ticket[key[c]] # NoTicket
        /\ \A d \in Callers \ {c} : pc[d] = "check" => key[d] # key[c]

\* What is in the store was minted and stored.
StoredStates ==
    /\ \A s \in held \cap States : ticket[s] # NoTicket
    /\ \A s \in States : ticket[s] # NoTicket => s \in minted

\* A marker that still denies is in the store.
MarkersHeld == \A m \in Markers : clock < denied[m] => m \in held /\ exp[m] = denied[m]

\* The registers a call has set.
Registers(c) ==
    /\ pc[c] \in {"enter", "put"} => ttl[c] \in TTLs
    /\ pc[c] \in {"enter", "put"} /\ key[c] \in States => purpose[c] \in Purposes
    /\ pc[c] = "take" => key[c] \in States

IInv ==
    /\ TypeOK
    /\ IsFiniteSet(held)
    /\ CapacityBound
    /\ StoredStates
    /\ MarkersHeld
    /\ \A c \in Callers : Storing(c) /\ Checking(c) /\ Registers(c)
===============================================================================
