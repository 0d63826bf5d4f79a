----------------------------- MODULE TokenDenylist ----------------------------
(***************************************************************************)
(* store.TokenRepository: the denylist of revoked session tokens, which     *)
(* prunes its own rows. Every replica reads a clock of its own, the         *)
(* database has another. One token is followed, and the requests that       *)
(* present it; other tokens appear as the revocations that trigger a prune. *)
(***************************************************************************)
EXTENDS Integers

CONSTANTS Replicas,          \* processes that revoke and prune
          Offset,            \* [Replicas -> Int]: their clocks against the database's
          Verifier,          \* the replica that serves the requests
          MaxNow,            \* bound on time
          MaxPause,          \* how long a request takes at most
          Expiry,            \* when the token expires
          revocationRetentionGrace, revocationPruneInterval

\* The grace covers how far apart two clocks are, and a request's duration.
ASSUME DenylistAssumption ==
    /\ Offset \in [Replicas -> Int] /\ Verifier \in Replicas
    /\ Expiry \in Int /\ MaxPause \in Nat /\ revocationRetentionGrace \in Nat
    /\ \A r \in Replicas : Offset[r] - Offset[Verifier] + MaxPause =< revocationRetentionGrace

VARIABLES
    now,          \* the database's time
    tokenID,      \* where the token carries its id: "both", "one", "none"
    denied,       \* its row in revoked_tokens is there
    nextPrune,    \* [Replicas -> time of the next self-prune]
    check,        \* the request that presents the token
    revoked,      \* RevokeToken has returned for it
    cleaned,      \* CleanupExpiredRevocations removed its row
    userGone      \* the user it was issued to has been deleted

denylistVars == <<now, tokenID, denied, nextPrune, check, revoked, cleaned, userGone>>

Clock(r)  == now + Offset[r]
Unchecked == [step |-> "none", barred |-> FALSE, age |-> 0]
Answered  == {"none", "accepted", "refused"}

DenylistInit ==
    /\ now = 0
    /\ tokenID \in {"both", "one", "none"}
    /\ denied = FALSE /\ revoked = FALSE /\ cleaned = FALSE /\ userGone = FALSE
    /\ nextPrune = [r \in Replicas |-> 0]
    /\ check = Unchecked
-----------------------------------------------------------------------------
\* The id, from whichever of its two places is filled.
TokenID == tokenID # "none"

(* A request validates the token and then asks the denylist. *)
Validate ==
    /\ check.step \in Answered
    /\ check' = [Unchecked EXCEPT
                   !.step = IF Clock(Verifier) < Expiry THEN "lookup" ELSE "refused",
                   !.barred = revoked]
    /\ UNCHANGED <<now, tokenID, denied, nextPrune, revoked, cleaned, userGone>>

\* An empty id and a failed query count as revoked.
IsTokenRevoked ==
    /\ check.step = "lookup"
    /\ \E fails \in BOOLEAN :
         check' = [check EXCEPT !.step = IF ~TokenID \/ denied \/ fails
                                         THEN "refused" ELSE "accepted"]
    /\ UNCHANGED <<now, tokenID, denied, nextPrune, revoked, cleaned, userGone>>

claimPruneSlot(r) == Clock(r) >= nextPrune[r]

(* The self-prune that rides on every revocation. It deletes a batch of the *)
(* rows expired for longer than the grace, oldest first, so that this row's *)
(* turn may not have come; it may also fail.                                *)
pruneWithoutGrace(r, row) ==     \* mutant
    IF ~claimPruneSlot(r) THEN denied' = row /\ UNCHANGED nextPrune
    ELSE /\ nextPrune' = [nextPrune EXCEPT ![r] = Clock(r) + revocationPruneInterval]
         /\ denied' \in IF row /\ Expiry < Clock(r) THEN BOOLEAN ELSE {row}

maybePruneExpiredRevocations(r, row) ==
    IF ~claimPruneSlot(r) THEN denied' = row /\ UNCHANGED nextPrune
    ELSE /\ nextPrune' = [nextPrune EXCEPT ![r] = Clock(r) + revocationPruneInterval]
         /\ denied' \in IF row /\ Expiry < Clock(r) - revocationRetentionGrace
                        THEN BOOLEAN ELSE {row}

\* The row is there whatever becomes of the prune; nothing looks in between
\* that another replica's prune would not show as well.
RevokeToken(r) ==
    /\ TokenID                                  \* ErrEmptyTokenID
    /\ ~userGone                                \* else the foreign key refuses the INSERT
    /\ maybePruneExpiredRevocations(r, TRUE)
    /\ revoked' = TRUE
    /\ UNCHANGED <<now, tokenID, cleaned, check, userGone>>

RevokeAnother(r) ==
    /\ maybePruneExpiredRevocations(r, denied)
    /\ UNCHANGED <<now, tokenID, revoked, cleaned, check, userGone>>

\* The host's own sweep: the database's clock and no grace.
CleanupExpiredRevocations ==
    /\ denied /\ Expiry < now
    /\ denied' = FALSE /\ cleaned' = TRUE
    /\ UNCHANGED <<now, tokenID, nextPrune, revoked, check, userGone>>

(* UserRepository.DeleteUser of the token's user: revoked_tokens.user_id is  *)
(* ON DELETE CASCADE, so the row goes with the user, expired or not.         *)
DeleteUserCascades ==
    /\ ~userGone
    /\ userGone' = TRUE /\ denied' = FALSE
    /\ UNCHANGED <<now, tokenID, nextPrune, revoked, cleaned, check>>

Tick ==
    /\ now < MaxNow
    /\ check.step \notin Answered => check.age < MaxPause
    /\ now' = now + 1
    /\ check' = [check EXCEPT !.age = IF check.step \in Answered THEN 0 ELSE @ + 1]
    /\ UNCHANGED <<tokenID, denied, nextPrune, revoked, cleaned, userGone>>

DenylistNext ==
    \/ Validate \/ IsTokenRevoked
    \/ \E r \in Replicas : RevokeToken(r) \/ RevokeAnother(r)
    \/ CleanupExpiredRevocations \/ DeleteUserCascades \/ Tick

DenylistSpec == DenylistInit /\ [][DenylistNext]_denylistVars
-----------------------------------------------------------------------------
(* A token whose revocation had returned when the request began is refused,  *)
(* whatever the clocks of the replica that prunes and of the one that        *)
(* verifies: the self-prune's grace covers their difference. Two things let  *)
(* it back in, and neither is the prune: the host's                          *)
(* CleanupExpiredRevocations, which knows no grace, and the deletion of the  *)
(* user it was issued to, whose cascade takes the row of a token that has    *)
(* not expired (IsTokenRevoked does not ask whether the user exists).        *)
RevokedStaysOut ==
    check.step = "accepted" /\ check.barred => cleaned \/ userGone
===============================================================================
