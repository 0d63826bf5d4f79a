----------------------------- MODULE AccessProofs -----------------------------
(***************************************************************************)
(* Theorems about the organization scopes, the denylist, the token manager   *)
(* and signing in.                                                          *)
(***************************************************************************)
EXTENDS OrgScope, TokenDenylist, TokenManager, SignIn, FiniteSetTheorems, TLAPS
-----------------------------------------------------------------------------
(* PermitsOrganization, which decides about one owner in memory, and the     *)
(* text SQL renders agree on every scope and every owner, the missing one    *)
(* included; and a scope that MatchesNothing selects no row and no user.     *)
THEOREM PredicatesAgree ==
    ASSUME NEW s \in Scopes
    PROVE  /\ \A o \in Orgs \cup {NoOrg} : SQL(s, o) <=> PermitsOrganization(s, o)
           /\ MatchesNothing(s) =>
                /\ \A o \in Orgs \cup {NoOrg} : ~SQL(s, o)
                /\ \A homes \in SUBSET Orgs : ~MembershipSQL(s, homes)
<1>t. s.all \in BOOLEAN /\ s.unowned \in BOOLEAN /\ s.orgIDs \in SUBSET Orgs BY DEF Scopes
<1>1. ASSUME NEW o \in Orgs \cup {NoOrg} PROVE SQL(s, o) <=> PermitsOrganization(s, o)
  <2>1. CASE s.all BY <2>1 DEF SQL, PermitsOrganization
  <2>2. CASE ~s.all /\ s.orgIDs = {} BY <2>2 DEF SQL, PermitsOrganization
  <2>3. CASE ~s.all /\ s.orgIDs # {}
    BY <1>t, <2>3, ScopeAssumption DEF SQL, PermitsOrganization
  <2> QED BY <2>1, <2>2, <2>3
<1>2. MatchesNothing(s) =>
        /\ \A o \in Orgs \cup {NoOrg} : ~PermitsOrganization(s, o)
        /\ \A homes \in SUBSET Orgs : ~MembershipSQL(s, homes)
  BY DEF MatchesNothing, PermitsOrganization, MembershipSQL
<1> QED BY <1>1, <1>2

(* No way to build a scope short of OrgScopeAllOrganizations reaches every   *)
(* organization: the zero scope matches nothing, and adding the unowned rows *)
(* adds no organization's.                                                   *)
THEOREM NothingIsNotEverything ==
    /\ MatchesNothing(ZeroScope)
    /\ \A ids \in SUBSET (Orgs \cup {NoOrg}), o \in Orgs :
         SQL(WithUnowned(OrgScopeOrganizations(ids)), o) => o \in ids
<1>1. MatchesNothing(ZeroScope) BY DEF MatchesNothing, ZeroScope, OrgScopeOrganizations
<1>2. ASSUME NEW ids \in SUBSET (Orgs \cup {NoOrg}), NEW o \in Orgs,
             SQL(WithUnowned(OrgScopeOrganizations(ids)), o)
      PROVE  o \in ids
  <2>1. PICK s : s = WithUnowned(OrgScopeOrganizations(ids)) OBVIOUS
  <2>2. s = [orgIDs |-> ids \ {NoOrg}, all |-> FALSE, unowned |-> TRUE]
    BY <2>1 DEF WithUnowned, OrgScopeOrganizations
  <2>3. s \in Scopes BY <2>2 DEF Scopes
  <2>4. PermitsOrganization(s, o) BY <1>2, <2>1, <2>3, PredicatesAgree
  <2> QED BY <2>2, <2>4, ScopeAssumption DEF PermitsOrganization
<1> QED BY <1>1, <1>2
-----------------------------------------------------------------------------
(* The denylist. A row that was pruned was past its grace on some replica's  *)
(* clock; a request being looked up validated at most its age ago.           *)
DenylistType ==
    /\ now \in Int /\ denied \in BOOLEAN /\ revoked \in BOOLEAN /\ cleaned \in BOOLEAN
    /\ userGone \in BOOLEAN
    /\ check \in [step : {"none", "lookup", "accepted", "refused"}, barred : BOOLEAN, age : Nat]

PrunedAfterGrace ==
    revoked /\ ~denied /\ ~cleaned /\ ~userGone =>
        \E r \in Replicas : Expiry < Clock(r) - revocationRetentionGrace

LookupIsYoung ==
    /\ check.barred => revoked
    /\ check.step = "lookup" =>
         /\ check.age =< MaxPause
         /\ Clock(Verifier) - check.age < Expiry

DenylistInv == DenylistType /\ PrunedAfterGrace /\ LookupIsYoung /\ RevokedStaysOut

LEMMA DenylistStart == DenylistInit => DenylistInv
<1> SUFFICES ASSUME DenylistInit PROVE DenylistInv
  OBVIOUS
<1>1. now = 0 /\ denied = FALSE /\ revoked = FALSE /\ cleaned = FALSE
      /\ userGone = FALSE /\ check = Unchecked
  BY DEF DenylistInit
<1>2. /\ Unchecked.step = "none" /\ Unchecked.barred = FALSE
      /\ Unchecked \in [step : {"none", "lookup", "accepted", "refused"}, barred : BOOLEAN, age : Nat]
  BY DEF Unchecked
<1>3. DenylistType
  <2>1. now \in Int BY <1>1
  <2> QED BY <1>1, <1>2, <2>1, Zenon DEF DenylistType
<1>4. PrunedAfterGrace BY <1>1, Zenon DEF PrunedAfterGrace
<1>5. LookupIsYoung /\ RevokedStaysOut BY <1>1, <1>2 DEF LookupIsYoung, RevokedStaysOut
<1> QED BY <1>3, <1>4, <1>5 DEF DenylistInv

\* A revocation's prune removes the row only past the grace.
LEMMA PruneStep ==
    ASSUME NEW r \in Replicas, NEW row \in BOOLEAN, maybePruneExpiredRevocations(r, row)
    PROVE  /\ denied' \in BOOLEAN
           /\ denied' # row => row /\ Expiry < Clock(r) - revocationRetentionGrace
<1>1. CASE row /\ Expiry < Clock(r) - revocationRetentionGrace
  BY <1>1 DEF maybePruneExpiredRevocations
<1>2. CASE ~(row /\ Expiry < Clock(r) - revocationRetentionGrace)
  <2>1. denied' = row BY <1>2 DEF maybePruneExpiredRevocations
  <2> QED BY <2>1
<1> QED BY <1>1, <1>2

LEMMA RevokeSteps ==
    ASSUME DenylistInv, NEW r \in Replicas, RevokeToken(r) \/ RevokeAnother(r)
    PROVE  DenylistInv'
<1>i. DenylistType /\ PrunedAfterGrace /\ LookupIsYoung /\ RevokedStaysOut BY DEF DenylistInv
<1>u. /\ now' = now /\ cleaned' = cleaned /\ check' = check /\ userGone' = userGone
      /\ revoked' \in BOOLEAN /\ (revoked => revoked')
  BY <1>i DEF RevokeToken, RevokeAnother, DenylistType
<1>c. Clock(r)' = Clock(r) /\ Clock(Verifier)' = Clock(Verifier)
      /\ \A q \in Replicas : Clock(q)' = Clock(q)
  BY <1>u, DenylistAssumption DEF Clock
<1>1. denied' \in BOOLEAN /\ PrunedAfterGrace'
  <2>1. CASE RevokeToken(r)
    <3>1. maybePruneExpiredRevocations(r, TRUE) BY <2>1 DEF RevokeToken
    <3>2. denied' \in BOOLEAN /\ (denied' # TRUE => Expiry < Clock(r) - revocationRetentionGrace)
      BY <3>1, PruneStep
    <3> QED BY <1>c, <3>2 DEF PrunedAfterGrace
  <2>2. CASE RevokeAnother(r)
    <3>1. maybePruneExpiredRevocations(r, denied) /\ revoked' = revoked BY <2>2 DEF RevokeAnother
    <3>2. denied \in BOOLEAN BY <1>i DEF DenylistType
    <3>3. denied' \in BOOLEAN /\ (denied' # denied => Expiry < Clock(r) - revocationRetentionGrace)
      BY <3>1, <3>2, PruneStep
    <3>4. CASE denied' = denied BY <1>i, <1>u, <1>c, <3>1, <3>2, <3>4 DEF PrunedAfterGrace
    <3>5. CASE denied' # denied BY <1>c, <3>3, <3>5 DEF PrunedAfterGrace
    <3> QED BY <3>3, <3>4, <3>5
  <2> QED BY <2>1, <2>2
<1>2. DenylistType' BY <1>i, <1>u, <1>1 DEF DenylistType
<1>3. LookupIsYoung' /\ RevokedStaysOut'
  BY <1>i, <1>u, <1>c DEF LookupIsYoung, RevokedStaysOut
<1> QED BY <1>1, <1>2, <1>3 DEF DenylistInv

\* The request: validated by one clock, judged by the row.
LEMMA RequestSteps ==
    ASSUME DenylistInv, Validate \/ IsTokenRevoked
    PROVE  DenylistInv'
<1>i. DenylistType /\ PrunedAfterGrace /\ LookupIsYoung /\ RevokedStaysOut BY DEF DenylistInv
<1>u. now' = now /\ denied' = denied /\ revoked' = revoked /\ cleaned' = cleaned /\ userGone' = userGone
  BY DEF Validate, IsTokenRevoked
<1>c. \A q \in Replicas : Clock(q)' = Clock(q) BY <1>u DEF Clock
<1>p. PrunedAfterGrace' BY <1>i, <1>u, <1>c DEF PrunedAfterGrace
<1>z. Clock(Verifier) \in Int /\ Verifier \in Replicas
  BY <1>i, DenylistAssumption DEF Clock, DenylistType
<1>1. CASE Validate
  <2>1. PICK x : x = [Unchecked EXCEPT
                        !.step = IF Clock(Verifier) < Expiry THEN "lookup" ELSE "refused",
                        !.barred = revoked]
    OBVIOUS
  <2>2. /\ x \in [step : {"none", "lookup", "accepted", "refused"}, barred : BOOLEAN, age : Nat]
        /\ x.age = 0 /\ x.barred = revoked /\ x.step # "accepted"
        /\ x.step = "lookup" => Clock(Verifier) < Expiry
    BY <1>i, <2>1 DEF Unchecked, DenylistType
  <2>3. check' = x BY <1>1, <2>1 DEF Validate
  <2>4. DenylistType' BY <1>i, <1>u, <2>2, <2>3 DEF DenylistType
  <2>5. LookupIsYoung'
    <3>1. check'.barred => revoked' BY <1>u, <2>2, <2>3
    <3>2. ASSUME check'.step = "lookup"
          PROVE  check'.age =< MaxPause /\ Clock(Verifier)' - check'.age < Expiry
      BY <1>c, <1>z, <2>2, <2>3, <3>2, DenylistAssumption
    <3> QED BY <3>1, <3>2 DEF LookupIsYoung
  <2>6. RevokedStaysOut' BY <2>2, <2>3 DEF RevokedStaysOut
  <2> QED BY <1>p, <2>4, <2>5, <2>6 DEF DenylistInv
<1>2. CASE IsTokenRevoked
  <2>1. PICK fails \in BOOLEAN :
          check' = [check EXCEPT !.step = IF ~TokenID \/ denied \/ fails THEN "refused" ELSE "accepted"]
    BY <1>2 DEF IsTokenRevoked
  <2>2. /\ check' \in [step : {"none", "lookup", "accepted", "refused"}, barred : BOOLEAN, age : Nat]
        /\ check'.barred = check.barred /\ check'.step # "lookup"
        /\ check'.step = "accepted" => ~denied
    BY <1>i, <2>1 DEF DenylistType
  <2>3. DenylistType' BY <1>i, <1>u, <2>2 DEF DenylistType
  <2>4. LookupIsYoung' BY <1>i, <1>u, <2>2 DEF LookupIsYoung
  <2>5. RevokedStaysOut'
    <3> SUFFICES ASSUME ~denied, check.barred, ~cleaned, ~userGone PROVE FALSE
      BY <1>i, <1>u, <2>2 DEF RevokedStaysOut, DenylistType
    <3>1. PICK r \in Replicas : Expiry < Clock(r) - revocationRetentionGrace
      BY <1>i DEF LookupIsYoung, PrunedAfterGrace
    <3>2. check.age =< MaxPause /\ Clock(Verifier) - check.age < Expiry
      BY <1>i, <1>2 DEF IsTokenRevoked, LookupIsYoung
    <3>3. Offset[r] - Offset[Verifier] + MaxPause =< revocationRetentionGrace BY DenylistAssumption
    <3>4. /\ now \in Int /\ check.age \in Nat /\ Offset[r] \in Int /\ Offset[Verifier] \in Int
          /\ Expiry \in Int /\ MaxPause \in Nat /\ revocationRetentionGrace \in Nat
      BY <1>i, DenylistAssumption DEF DenylistType
    <3> QED BY <3>1, <3>2, <3>3, <3>4 DEF Clock
  <2> QED BY <1>p, <2>3, <2>4, <2>5 DEF DenylistInv
<1> QED BY <1>1, <1>2

LEMMA OtherDenylistSteps ==
    ASSUME DenylistInv, CleanupExpiredRevocations \/ DeleteUserCascades \/ Tick
    PROVE  DenylistInv'
<1>i. DenylistType /\ PrunedAfterGrace /\ LookupIsYoung /\ RevokedStaysOut BY DEF DenylistInv
<1>1. CASE CleanupExpiredRevocations
  <2>1. /\ now' = now /\ denied' = FALSE /\ revoked' = revoked /\ cleaned' = TRUE /\ check' = check
        /\ userGone' = userGone
    BY <1>1 DEF CleanupExpiredRevocations
  <2>2. DenylistType' /\ PrunedAfterGrace' /\ RevokedStaysOut'
    BY <1>i, <2>1 DEF DenylistType, PrunedAfterGrace, RevokedStaysOut
  <2>3. LookupIsYoung' BY <1>i, <2>1 DEF LookupIsYoung, Clock
  <2> QED BY <2>2, <2>3 DEF DenylistInv
<1>2. CASE Tick
  <2>1. now' = now + 1 /\ denied' = denied /\ revoked' = revoked /\ cleaned' = cleaned /\ userGone' = userGone
    BY <1>2 DEF Tick
  <2>2. /\ check' = [check EXCEPT !.age = IF check.step \in Answered THEN 0 ELSE check.age + 1]
        /\ check.step = "lookup" => check.age < MaxPause /\ check.step \notin Answered
    BY <1>2 DEF Tick, Answered
  <2>3. /\ check' \in [step : {"none", "lookup", "accepted", "refused"}, barred : BOOLEAN, age : Nat]
        /\ check'.step = check.step /\ check'.barred = check.barred
        /\ check.step = "lookup" => check'.age = check.age + 1
    BY <1>i, <2>2 DEF DenylistType
  <2>4. DenylistType' BY <1>i, <2>1, <2>3 DEF DenylistType
  <2>5. RevokedStaysOut' BY <1>i, <2>1, <2>3 DEF RevokedStaysOut
  <2>6. PrunedAfterGrace'
    <3> SUFFICES ASSUME revoked, ~denied, ~cleaned, ~userGone
                 PROVE  \E r \in Replicas : Expiry < (Clock(r))' - revocationRetentionGrace
      BY <2>1 DEF PrunedAfterGrace
    <3>1. PICK r \in Replicas : Expiry < Clock(r) - revocationRetentionGrace
      BY <1>i DEF PrunedAfterGrace
    <3>2. (Clock(r))' = Clock(r) + 1 /\ Clock(r) \in Int
      BY <1>i, <2>1, DenylistAssumption DEF Clock, DenylistType
    <3> QED BY <3>1, <3>2, DenylistAssumption
  <2>7. LookupIsYoung'
    <3>1. check'.barred => revoked' BY <1>i, <2>1, <2>3 DEF LookupIsYoung
    <3>2. ASSUME check'.step = "lookup"
          PROVE  check'.age =< MaxPause /\ (Clock(Verifier))' - check'.age < Expiry
      <4>1. check.age < MaxPause /\ Clock(Verifier) - check.age < Expiry /\ check'.age = check.age + 1
        BY <1>i, <2>2, <2>3, <3>2 DEF LookupIsYoung
      <4>2. /\ (Clock(Verifier))' = Clock(Verifier) + 1 /\ Clock(Verifier) \in Int
            /\ check.age \in Nat /\ MaxPause \in Nat /\ Expiry \in Int
        BY <1>i, <2>1, DenylistAssumption DEF Clock, DenylistType
      <4> QED BY <4>1, <4>2
    <3> QED BY <3>1, <3>2 DEF LookupIsYoung
  <2> QED BY <2>4, <2>5, <2>6, <2>7 DEF DenylistInv
<1>3. CASE DeleteUserCascades
  <2>1. /\ now' = now /\ denied' = FALSE /\ revoked' = revoked /\ cleaned' = cleaned
        /\ check' = check /\ userGone' = TRUE
    BY <1>3 DEF DeleteUserCascades
  <2>2. DenylistType' /\ PrunedAfterGrace' /\ RevokedStaysOut'
    BY <1>i, <2>1 DEF DenylistType, PrunedAfterGrace, RevokedStaysOut
  <2>3. LookupIsYoung' BY <1>i, <2>1 DEF LookupIsYoung, Clock
  <2> QED BY <2>2, <2>3 DEF DenylistInv
<1> QED BY <1>1, <1>2, <1>3

(* For any clocks and any expiry: if the grace of the self-prune is at least *)
(* the lead of a pruning replica over the verifying one plus the duration of *)
(* a request, IsTokenRevoked never lets a token in whose revocation had      *)
(* returned, unless the host's own CleanupExpiredRevocations or the deletion  *)
(* of the token's user took its row.                                         *)
THEOREM GraceIsEnough == DenylistSpec => []RevokedStaysOut
<1>1. DenylistInv /\ [DenylistNext]_denylistVars => DenylistInv'
  <2> SUFFICES ASSUME DenylistInv, [DenylistNext]_denylistVars PROVE DenylistInv'
    OBVIOUS
  <2>1. CASE DenylistNext
    BY <2>1, RevokeSteps, RequestSteps, OtherDenylistSteps DEF DenylistNext
  <2>2. CASE UNCHANGED denylistVars
    BY <2>2 DEF denylistVars, DenylistInv, DenylistType, PrunedAfterGrace, LookupIsYoung,
                RevokedStaysOut, Clock
  <2> QED BY <2>1, <2>2
<1>2. DenylistInv => RevokedStaysOut BY DEF DenylistInv
<1> QED BY <1>1, <1>2, DenylistStart, PTL DEF DenylistSpec
-----------------------------------------------------------------------------
(* Signing in. What a sign-in knows between its statements about the row it  *)
(* read, as long as no administrator touched that row.                       *)
Progresses ==
    [step : {"new", "away", "done", "refused"} \cup Statements,
     store : {"none", "manager", "host"}, sub : Subs \cup {NoSub},
     party : {"none", "us", "them", "malformed", "unknown"}, email : Emails \cup {NoEmail},
     verified : BOOLEAN, seen : Accounts \cup {NoAccount}]

Rows == [state : {"unused", "live", "deleted"}, email : Emails \cup {NoEmail}, sub : Subs \cup {NoSub}]

SignInType ==
    /\ sign \in [Logins -> Progresses]
    /\ acct \in [Accounts -> Rows]
    /\ code \in [Logins \cup {NoLogin} -> Subs \cup {NoSub}]

Identified(p) ==
    /\ sign[p].sub # NoSub => sign[p].sub = code[p] /\ sign[p].party = "us"
    /\ sign[p].step \in Statements => sign[p].sub # NoSub
    /\ sign[p].step \in {"link", "winner", "insert", "inserted"} => sign[p].verified
    /\ sign[p].step \in {"update", "link", "winner"} => sign[p].seen \in Accounts

RowKnown(p) ==
    LET a == sign[p].seen
    IN  a \notin edited =>
          /\ sign[p].step = "update" => acct[a].state = "live" /\ acct[a].sub = sign[p].sub
          /\ sign[p].step = "link" => acct[a].state = "live"
          /\ sign[p].step = "winner" => acct[a].sub # NoSub

SignInInv == SignInType /\ \A p \in Logins : Identified(p) /\ RowKnown(p)

\* A sign-in that is over, or not begun, knows nothing.
LEMMA EndStates ==
    /\ NotYet \in Progresses /\ NotYet.step = "new" /\ NotYet.sub = NoSub
    /\ LET x == [NotYet EXCEPT !.step = "refused"]
       IN  x \in Progresses /\ x.step = "refused" /\ x.sub = NoSub
    /\ \A a \in Accounts :
         LET x == [NotYet EXCEPT !.step = "done", !.seen = a]
         IN  x \in Progresses /\ x.step = "done" /\ x.sub = NoSub /\ x.seen = a
BY DEF NotYet, Progresses

LEMMA SignInStart == SignInInit => SignInInv
<1> SUFFICES ASSUME SignInInit PROVE SignInInv
  OBVIOUS
<1>1. sign = [p \in Logins |-> NotYet] /\ code = [l \in Logins \cup {NoLogin} |-> NoSub]
  BY DEF SignInInit
<1>2. acct \in [Accounts -> Rows]
  <2>1. Unused \in Rows BY DEF Unused, Rows
  <2>2. \A e \in Emails, x \in Subs \cup {NoSub} : Row(e, x) \in Rows BY DEF Row, Rows
  <2>3. acct \in [Accounts -> {Unused} \cup {Row(e, x) : e \in Emails, x \in Subs \cup {NoSub}}]
    BY DEF SignInInit
  <2> QED BY <2>1, <2>2, <2>3
<1>3. \A p \in Logins : Identified(p) /\ RowKnown(p)
  BY <1>1, EndStates DEF Identified, RowKnown, Statements
<1> QED BY <1>1, <1>2, <1>3, EndStates DEF SignInInv, SignInType

\* A response that is accepted was issued to this client.
LEMMA AcceptedIsOurs ==
    ASSUME NEW session, NEW l, NEW r \in Accepted(session, l)
    PROVE  session # NoLogin /\ l = session /\ IssuedTo(r) = "us"
<1>1. /\ r \in Responses /\ session # NoLogin /\ l = session
      /\ "us" \in r.aud /\ checkAuthorizedPartyClaims(r)
  BY DEF Accepted, ExchangeAndVerify
<1>2. CASE r.azp # "absent" BY <1>1, <1>2 DEF checkAuthorizedPartyClaims, IssuedTo
<1>3. CASE r.azp = "absent"
  <2>1. r.aud \in SUBSET {"us", "them"} BY <1>1 DEF Responses
  <2>2. Cardinality(r.aud) =< 1 BY <1>1, <1>3 DEF checkAuthorizedPartyClaims
  <2>3. Cardinality({"us"} \cup {"them"}) = 2
    <3>1. IsFiniteSet({"us"}) /\ Cardinality({"us"}) = 1 BY FS_Singleton
    <3>2. Cardinality({"us"} \cup {"them"}) = Cardinality({"us"}) + 1 BY <3>1, FS_AddElement
    <3> QED BY <3>1, <3>2
  <2>4. "them" \notin r.aud
    <3> SUFFICES ASSUME "them" \in r.aud PROVE FALSE
      OBVIOUS
    <3>1. r.aud = {"us"} \cup {"them"} BY <1>1, <2>1
    <3> QED BY <2>2, <2>3, <3>1
  <2>5. r.aud = {"us"} BY <1>1, <2>1, <2>4
  <2> QED BY <1>1, <1>3, <2>5 DEF IssuedTo
<1> QED BY <1>1, <1>2, <1>3

(* What a statement of login p may do to the accounts: it writes its own     *)
(* subject, over a row nobody edited only if that had none or the same.      *)
WritesOwn(p) ==
    \A a \in Accounts : acct'[a] # acct[a] =>
        /\ acct'[a].state = "live" /\ acct'[a].sub = sign[p].sub
        /\ a \notin edited =>
             /\ acct[a].state = "live" => acct[a].sub \in {NoSub, sign[p].sub}
             /\ (acct[a].state = "live" /\ acct[a].sub = sign[p].sub) \/ sign[p].verified

LEMMA MoveStep ==
    ASSUME SignInInv, NEW p \in Logins, NEW x \in Progresses,
           sign' = [sign EXCEPT ![p] = x], acct' \in [Accounts -> Rows],
           code' = code, edited' = edited,
           Identified(p)', RowKnown(p)', acct' = acct \/ (sign[p].sub # NoSub /\ WritesOwn(p))
    PROVE  SignInInv'
<1>1. /\ sign' \in [Logins -> Progresses]
      /\ \A q \in Logins \ {p} : sign'[q] = sign[q]
  BY DEF SignInInv, SignInType
<1>2. ASSUME NEW q \in Logins \ {p} PROVE Identified(q)' /\ RowKnown(q)'
  <2>1. Identified(q) /\ RowKnown(q) /\ sign'[q] = sign[q] BY <1>1 DEF SignInInv
  <2>2. Identified(q)' BY <2>1 DEF Identified
  <2>3. CASE acct' = acct BY <2>1, <2>2, <2>3 DEF RowKnown
  <2>4. CASE sign[p].sub # NoSub /\ WritesOwn(p)
    <3> SUFFICES ASSUME sign[q].seen \notin edited
                 PROVE  LET a == sign[q].seen
                        IN /\ sign[q].step = "update" => acct'[a].state = "live" /\ acct'[a].sub = sign[q].sub
                           /\ sign[q].step = "link" => acct'[a].state = "live"
                           /\ sign[q].step = "winner" => acct'[a].sub # NoSub
      BY <2>1, <2>2 DEF RowKnown
    <3>1. CASE acct'[sign[q].seen] = acct[sign[q].seen] BY <2>1, <3>1 DEF RowKnown
    <3>2. CASE sign[q].seen \in Accounts /\ acct'[sign[q].seen] # acct[sign[q].seen]
      BY <2>1, <2>4, <3>2 DEF RowKnown, WritesOwn, Identified, Statements
    <3>3. sign[q].step \in {"update", "link", "winner"} => sign[q].seen \in Accounts
      BY <2>1 DEF Identified
    <3> QED BY <3>1, <3>2, <3>3
  <2> QED BY <2>2, <2>3, <2>4
<1>3. code' \in [Logins \cup {NoLogin} -> Subs \cup {NoSub}] BY DEF SignInInv, SignInType
<1> QED BY <1>1, <1>2, <1>3 DEF SignInInv, SignInType

\* The ends of a sign-in.
LEMMA EndStep ==
    ASSUME SignInInv, NEW p \in Logins, Refuse(p) \/ \E a \in Accounts : Done(p, a),
           acct' \in [Accounts -> Rows], code' = code, edited' = edited,
           acct' = acct \/ (sign[p].sub # NoSub /\ WritesOwn(p))
    PROVE  SignInInv'
<1>1. PICK x \in Progresses : /\ sign' = [sign EXCEPT ![p] = x]
                              /\ x.step \in {"refused", "done"} /\ x.sub = NoSub
  BY EndStates DEF Refuse, Done, Go
<1>2. sign'[p] = x BY <1>1 DEF SignInInv, SignInType
<1>3. Identified(p)' /\ RowKnown(p)'
  BY <1>1, <1>2 DEF Identified, RowKnown, Statements
<1> QED BY <1>1, <1>3, MoveStep

\* The next statement: only the step and the row seen change.
LEMMA NextStatement ==
    ASSUME SignInInv, NEW p \in Logins, NEW step \in Statements, NEW a \in Accounts \cup {NoAccount},
           sign' = [sign EXCEPT ![p] = [sign[p] EXCEPT !.step = step, !.seen = a]],
           sign[p].step \in Statements,
           step \in {"link", "winner", "insert", "inserted"} => sign[p].verified,
           step \in {"update", "link", "winner"} => a \in Accounts,
           a \notin edited =>
             /\ step = "update" => acct[a].state = "live" /\ acct[a].sub = sign[p].sub
             /\ step = "link" => acct[a].state = "live"
             /\ step = "winner" => acct[a].sub # NoSub,
           acct' = acct, code' = code, edited' = edited
    PROVE  SignInInv'
<1>t. sign \in [Logins -> Progresses] /\ sign[p] \in Progresses /\ acct \in [Accounts -> Rows]
  BY DEF SignInInv, SignInType
<1>1. PICK x : x = [sign[p] EXCEPT !.step = step, !.seen = a] OBVIOUS
<1>2. /\ x \in Progresses /\ x.step = step /\ x.seen = a /\ x.sub = sign[p].sub
      /\ x.party = sign[p].party /\ x.verified = sign[p].verified
  BY <1>t, <1>1 DEF Progresses
<1>3. sign' = [sign EXCEPT ![p] = x] /\ sign'[p] = x BY <1>t, <1>1
<1>4. Identified(p) BY DEF SignInInv
<1>5. Identified(p)' BY <1>2, <1>3, <1>4 DEF Identified
<1>6. RowKnown(p)' BY <1>2, <1>3 DEF RowKnown
<1> QED BY <1>t, <1>2, <1>3, <1>5, <1>6, MoveStep

\* UpdateUser, the guarded link and the insert write the row of the subject.
LEMMA RowWritten ==
    ASSUME SignInInv, NEW p \in Logins, sign[p].step \in Statements, NEW a \in Accounts,
           acct' = [acct EXCEPT ![a] = Row(sign[p].email, sign[p].sub)],
           a \notin edited =>
             /\ acct[a].state = "live" => acct[a].sub \in {NoSub, sign[p].sub}
             /\ (acct[a].state = "live" /\ acct[a].sub = sign[p].sub) \/ sign[p].verified
    PROVE  acct' \in [Accounts -> Rows] /\ sign[p].sub # NoSub /\ WritesOwn(p)
           /\ acct'[a].sub = sign[p].sub
<1>t. sign[p] \in Progresses /\ acct \in [Accounts -> Rows] BY DEF SignInInv, SignInType
<1>1. PICK x : x = Row(sign[p].email, sign[p].sub) OBVIOUS
<1>2. x \in Rows /\ x.state = "live" /\ x.sub = sign[p].sub
  BY <1>t, <1>1 DEF Row, Rows, Progresses
<1>3. acct' = [acct EXCEPT ![a] = x] BY <1>1
<1>4. acct' \in [Accounts -> Rows] /\ acct'[a] = x /\ \A b \in Accounts \ {a} : acct'[b] = acct[b]
  BY <1>t, <1>2, <1>3
<1>5. sign[p].sub # NoSub BY DEF SignInInv, Identified
<1> QED BY <1>2, <1>4, <1>5 DEF WritesOwn

(* One statement of a sign-in: it keeps the invariant, writes no more than   *)
(* WritesOwn allows, and ends well only in an account of its subject.        *)
LEMMA StatementStep ==
    ASSUME SignInInv, NEW p \in Logins, Statement(p)
    PROVE  /\ SignInInv'
           /\ acct' = acct \/ WritesOwn(p)
           /\ sign'[p].step = "done" /\ sign'[p].seen \notin edited =>
                acct'[sign'[p].seen].sub = sign[p].sub
<1> DEFINE Ends == sign'[p].step = "done" /\ sign'[p].seen \notin edited =>
                     acct'[sign'[p].seen].sub = sign[p].sub
<1> SUFFICES SignInInv' /\ (acct' = acct \/ WritesOwn(p)) /\ Ends
  OBVIOUS
<1>i. Identified(p) /\ RowKnown(p) BY DEF SignInInv
<1>t. /\ sign \in [Logins -> Progresses] /\ sign[p] \in Progresses
      /\ acct \in [Accounts -> Rows]
  BY DEF SignInInv, SignInType
<1>u. code' = code /\ edited' = edited /\ sign[p].step \in Statements
  BY DEF Statement, GetUserByOIDCSub, SyncProfile, GetUserByEmail, linkOIDCIdentity, ReadWinner,
         InsertUser, ReadInserted, StatementFails, At, Statements
<1>r. Refuse(p) => sign'[p].step = "refused" /\ Ends
  BY <1>t, EndStates DEF Refuse, Go
<1>d. ASSUME NEW a \in Accounts, Done(p, a) PROVE sign'[p].seen = a
  BY <1>t, <1>d, EndStates DEF Done, Go
<1>refuse. ASSUME Refuse(p), acct' = acct PROVE SignInInv' /\ Ends
  BY <1>refuse, <1>r, <1>t, <1>u, EndStep
<1>done. ASSUME NEW a \in Accounts, Done(p, a), acct' = acct, a \notin edited => acct[a].sub = sign[p].sub
         PROVE  SignInInv' /\ Ends
  BY <1>done, <1>d, <1>t, <1>u, EndStep
<1>go. ASSUME NEW x \in Statements, NEW a \in Accounts \cup {NoAccount},
              sign' = [sign EXCEPT ![p] = [sign[p] EXCEPT !.step = x, !.seen = a]]
       PROVE  Ends
  BY <1>go, <1>t DEF Progresses, Statements
<1>stay. ASSUME NEW x \in Statements
         PROVE  [sign[p] EXCEPT !.step = x] = [sign[p] EXCEPT !.step = x, !.seen = sign[p].seen]
  BY <1>t DEF Progresses
<1>write. ASSUME NEW a \in Accounts, Done(p, a),
                 acct' = [acct EXCEPT ![a] = Row(sign[p].email, sign[p].sub)],
                 a \notin edited =>
                   /\ acct[a].state = "live" => acct[a].sub \in {NoSub, sign[p].sub}
                   /\ (acct[a].state = "live" /\ acct[a].sub = sign[p].sub) \/ sign[p].verified
          PROVE  SignInInv' /\ WritesOwn(p) /\ Ends
  <2>1. acct' \in [Accounts -> Rows] /\ sign[p].sub # NoSub /\ WritesOwn(p) /\ acct'[a].sub = sign[p].sub
    BY <1>write, <1>u, RowWritten
  <2>2. SignInInv' BY <1>write, <1>u, <2>1, EndStep
  <2>3. Ends BY <1>write, <1>d, <2>1
  <2> QED BY <2>1, <2>2, <2>3
<1> HIDE DEF Ends
<1>1. CASE GetUserByOIDCSub(p)
  <2>0. acct' = acct BY <1>1 DEF GetUserByOIDCSub
  <2>1. CASE BySub(sign[p].sub) = {}
    <3>1. sign' = [sign EXCEPT ![p] = [sign[p] EXCEPT !.step = "byEmail", !.seen = sign[p].seen]]
      BY <1>1, <1>stay, <2>1 DEF GetUserByOIDCSub, Go, Statements
    <3>2. sign[p].seen \in Accounts \cup {NoAccount} /\ "byEmail" \in Statements
      BY <1>t DEF Progresses, Statements
    <3>3. SignInInv' BY <1>u, <2>0, <3>1, <3>2, NextStatement
    <3> QED BY <1>go, <2>0, <3>1, <3>2, <3>3
  <2>2. CASE BySub(sign[p].sub) # {}
    <3>1. PICK a \in BySub(sign[p].sub) :
            \/ Done(p, a)
            \/ sign' = [sign EXCEPT ![p] = [sign[p] EXCEPT !.step = "update", !.seen = a]]
      BY <1>1, <2>2 DEF GetUserByOIDCSub, Go
    <3>2. a \in Accounts /\ acct[a].state = "live" /\ acct[a].sub = sign[p].sub
      BY DEF BySub, Live
    <3>3. CASE Done(p, a) BY <1>done, <2>0, <3>2, <3>3
    <3>4. CASE sign' = [sign EXCEPT ![p] = [sign[p] EXCEPT !.step = "update", !.seen = a]]
      <4>1. "update" \in Statements BY DEF Statements
      <4>2. SignInInv' BY <1>u, <2>0, <3>2, <3>4, <4>1, NextStatement
      <4> QED BY <1>go, <2>0, <3>2, <3>4, <4>1, <4>2
    <3> QED BY <3>1, <3>3, <3>4
  <2> QED BY <2>1, <2>2
<1>2. CASE SyncProfile(p)
  <2>0. sign[p].seen \in Accounts /\ sign[p].step = "update"
    BY <1>i, <1>2 DEF SyncProfile, At, Identified
  <2>1. \/ Refuse(p) /\ acct' = acct
        \/ /\ Done(p, sign[p].seen)
           /\ acct' = [acct EXCEPT ![sign[p].seen] = Row(sign[p].email, sign[p].sub)]
    BY <1>2 DEF SyncProfile
  <2>2. sign[p].seen \notin edited => acct[sign[p].seen].state = "live" /\ acct[sign[p].seen].sub = sign[p].sub
    BY <1>i, <2>0 DEF RowKnown
  <2> QED BY <1>refuse, <1>write, <2>0, <2>1, <2>2
<1>3. CASE GetUserByEmail(p)
  <2>0. acct' = acct BY <1>3 DEF GetUserByEmail
  <2>1. CASE Refuse(p) BY <1>refuse, <2>0, <2>1
  <2>2. CASE sign[p].verified /\ Go(p, [sign[p] EXCEPT !.step = "insert"])
    <3>1. sign' = [sign EXCEPT ![p] = [sign[p] EXCEPT !.step = "insert", !.seen = sign[p].seen]]
      BY <1>stay, <2>2 DEF Go, Statements
    <3>2. sign[p].seen \in Accounts \cup {NoAccount} /\ "insert" \in Statements
      BY <1>t DEF Progresses, Statements
    <3>3. SignInInv' BY <1>u, <2>0, <2>2, <3>1, <3>2, NextStatement
    <3> QED BY <1>go, <2>0, <3>1, <3>2, <3>3
  <2>3. CASE sign[p].verified /\ \E a \in ByEmail(sign[p].email) :
                 Go(p, [sign[p] EXCEPT !.step = "link", !.seen = a])
    <3>1. PICK a \in ByEmail(sign[p].email) :
            sign' = [sign EXCEPT ![p] = [sign[p] EXCEPT !.step = "link", !.seen = a]]
      BY <2>3 DEF Go
    <3>2. a \in Accounts /\ acct[a].state = "live" /\ "link" \in Statements
      BY DEF ByEmail, Live, Statements
    <3>3. SignInInv' BY <1>u, <2>0, <2>3, <3>1, <3>2, NextStatement
    <3> QED BY <1>go, <2>0, <3>1, <3>2, <3>3
  <2> QED BY <1>3, <2>1, <2>2, <2>3 DEF GetUserByEmail
<1>4. CASE linkOIDCIdentity(p)
  <2>0. /\ sign[p].seen \in Accounts /\ sign[p].step = "link" /\ sign[p].verified
        /\ sign[p].seen \notin edited => acct[sign[p].seen].state = "live"
    BY <1>i, <1>4 DEF linkOIDCIdentity, At, Identified, RowKnown
  <2>1. CASE ~(sign[p].seen \in Live /\ acct[sign[p].seen].sub = NoSub)
    <3>1. acct' = acct /\ sign' = [sign EXCEPT ![p] = [sign[p] EXCEPT !.step = "winner", !.seen = sign[p].seen]]
      BY <1>4, <1>stay, <2>1 DEF linkOIDCIdentity, Go, Statements
    <3>2. "winner" \in Statements BY DEF Statements
    <3>3. sign[p].seen \notin edited => acct[sign[p].seen].sub # NoSub BY <2>0, <2>1 DEF Live
    <3>4. SignInInv' BY <1>u, <2>0, <3>1, <3>2, <3>3, NextStatement
    <3> QED BY <1>go, <2>0, <3>1, <3>2, <3>4
  <2>2. CASE sign[p].seen \in Live /\ acct[sign[p].seen].sub = NoSub
    <3>1. \/ Refuse(p) /\ acct' = acct
          \/ /\ Done(p, sign[p].seen)
             /\ acct' = [acct EXCEPT ![sign[p].seen] = Row(sign[p].email, sign[p].sub)]
      BY <1>4, <2>2 DEF linkOIDCIdentity
    <3> QED BY <1>refuse, <1>write, <2>0, <2>2, <3>1
  <2> QED BY <2>1, <2>2
<1>5. CASE ReadWinner(p)
  <2>0. /\ sign[p].seen \in Accounts /\ acct' = acct
        /\ sign[p].seen \notin edited => acct[sign[p].seen].sub # NoSub
    BY <1>i, <1>5 DEF ReadWinner, At, Identified, RowKnown
  <2>1. Refuse(p) \/ (Done(p, sign[p].seen) /\ acct[sign[p].seen].sub \in {NoSub, sign[p].sub})
    BY <1>5 DEF ReadWinner
  <2> QED BY <1>refuse, <1>done, <2>0, <2>1
<1>6. CASE InsertUser(p)
  <2>0. sign[p].verified BY <1>i, <1>6 DEF InsertUser, At, Identified
  <2>1. CASE acct' = acct /\ Go(p, [sign[p] EXCEPT !.step = "inserted"])
    <3>1. sign' = [sign EXCEPT ![p] = [sign[p] EXCEPT !.step = "inserted", !.seen = sign[p].seen]]
      BY <1>stay, <2>1 DEF Go, Statements
    <3>2. sign[p].seen \in Accounts \cup {NoAccount} /\ "inserted" \in Statements
      BY <1>t DEF Progresses, Statements
    <3>3. SignInInv' BY <1>u, <2>0, <2>1, <3>1, <3>2, NextStatement
    <3> QED BY <1>go, <2>1, <3>1, <3>2, <3>3
  <2>2. ASSUME NEW a \in Accounts, acct[a] = Unused, Done(p, a),
               acct' = [acct EXCEPT ![a] = Row(sign[p].email, sign[p].sub)]
        PROVE  SignInInv' /\ (acct' = acct \/ WritesOwn(p)) /\ Ends
    <3>1. acct[a].state # "live" BY <2>2 DEF Unused
    <3> QED BY <1>write, <2>0, <2>2, <3>1
  <2> QED BY <1>6, <2>1, <2>2 DEF InsertUser
<1>7. CASE ReadInserted(p)
  <2>0. acct' = acct BY <1>7 DEF ReadInserted
  <2>1. ASSUME NEW a \in BySub(sign[p].sub), Done(p, a)
        PROVE  SignInInv' /\ Ends
    BY <1>done, <2>0, <2>1 DEF BySub, Live
  <2> QED BY <1>7, <1>refuse, <2>0, <2>1 DEF ReadInserted
<1>8. CASE StatementFails(p) BY <1>8, <1>refuse DEF StatementFails
<1> QED BY <1>1, <1>2, <1>3, <1>4, <1>5, <1>6, <1>7, <1>8 DEF Statement

\* Beginning a login, and its callback.
LEMMA LoginSteps ==
    ASSUME SignInInv, NEW p \in Logins, BeginAuthSession(p) \/ BeginAuth(p) \/ Callback(p)
    PROVE  SignInInv'
<1>i. Identified(p) BY DEF SignInInv
<1>t. /\ sign \in [Logins -> Progresses] /\ sign[p] \in Progresses /\ acct \in [Accounts -> Rows]
      /\ code \in [Logins \cup {NoLogin} -> Subs \cup {NoSub}]
  BY DEF SignInInv, SignInType
<1>1. ASSUME NEW store \in {"manager", "host"}, Leave(p, store) PROVE SignInInv'
  <2>1. PICK x : x = [sign[p] EXCEPT !.step = "away", !.store = store] OBVIOUS
  <2>2. /\ x \in Progresses /\ x.step = "away" /\ x.sub = sign[p].sub /\ x.party = sign[p].party
    BY <1>t, <2>1 DEF Progresses
  <2>3. /\ sign' = [sign EXCEPT ![p] = x] /\ sign'[p] = x
        /\ acct' = acct /\ code' = code /\ edited' = edited
    BY <1>1, <1>t, <2>1 DEF Leave, Go
  <2>4. Identified(p)' /\ RowKnown(p)'
    BY <1>i, <2>2, <2>3 DEF Identified, RowKnown, Statements
  <2> QED BY <1>t, <2>2, <2>3, <2>4, MoveStep
<1>2. CASE Callback(p)
  <2>0. acct' = acct /\ code' = code /\ edited' = edited BY <1>2 DEF Callback
  <2>1. CASE Refuse(p) BY <1>t, <2>0, <2>1, EndStep
  <2>2. CASE ~Refuse(p)
    <3>a. PICK l \in {x \in DOMAIN code : code[x] # NoSub}, session \in CompleteAuthSession(p) :
            \E party \in {IssuedTo(y) : y \in Accepted(session, l)}, z \in Identities :
               Go(p, [sign[p] EXCEPT !.step = "bySub", !.store = "none",
                                     !.sub = code[l], !.party = party,
                                     !.email = z.email, !.verified = z.verified])
      BY <1>2, <2>2, Zenon DEF Callback
    <3>b. PICK r \in Accepted(session, l), id \in Identities :
             Go(p, [sign[p] EXCEPT !.step = "bySub", !.store = "none",
                                   !.sub = code[l], !.party = IssuedTo(r),
                                   !.email = id.email, !.verified = id.verified])
      BY <3>a, Zenon
    <3>1. /\ code[l] # NoSub
          /\ sign' = [sign EXCEPT ![p] = [sign[p] EXCEPT !.step = "bySub", !.store = "none",
                         !.sub = code[l], !.party = IssuedTo(r),
                         !.email = id.email, !.verified = id.verified]]
      BY <3>a, <3>b, Zenon DEF Go
    <3>2. session # NoLogin /\ l = session /\ IssuedTo(r) = "us" BY <3>b, AcceptedIsOurs
    <3>3. l = p BY <3>a, <3>2 DEF CompleteAuthSession
    <3>4. id.email \in Emails \cup {NoEmail} /\ id.verified \in BOOLEAN
      <4>1. PICK c \in Claims : id \in ExtractUserInfo(c) BY DEF Identities
      <4>2. c.email \in Emails \cup {NoEmail} /\ c.upn \in Emails \cup {NoEmail} BY <4>1 DEF Claims
      <4>3. boolClaim(c.emailVerified) \in BOOLEAN BY DEF boolClaim
      <4>4. CASE c.sub /\ c.email # NoEmail
        <5>1. PICK v : v = boolClaim(c.emailVerified) OBVIOUS
        <5>2. id = [email |-> c.email, verified |-> v] BY <4>1, <4>4, <5>1, Zenon DEF ExtractUserInfo
        <5>3. id.email = c.email /\ id.verified = v BY <5>2
        <5> QED BY <4>2, <4>3, <5>1, <5>3
      <4>5. CASE c.sub /\ c.email = NoEmail
        <5>1. id \in {[email |-> e, verified |-> FALSE] : e \in {c.upn} \ {NoEmail}}
          BY <4>1, <4>5, Zenon DEF ExtractUserInfo
        <5>2. id.email = c.upn /\ id.verified = FALSE BY <5>1
        <5> QED BY <4>2, <5>2
      <4>6. c.sub BY <4>1 DEF ExtractUserInfo
      <4> QED BY <4>4, <4>5, <4>6
    <3>5. PICK x : x = [sign[p] EXCEPT !.step = "bySub", !.store = "none",
                           !.sub = code[p], !.party = "us",
                           !.email = id.email, !.verified = id.verified]
      OBVIOUS
    <3>6. x \in Progresses /\ x.step = "bySub" /\ x.sub = code[p] /\ x.party = "us"
      BY <1>t, <3>4, <3>5 DEF Progresses, Statements
    <3>7. sign' = [sign EXCEPT ![p] = x] /\ sign'[p] = x BY <1>t, <3>1, <3>2, <3>3, <3>5
    <3>8. Identified(p)' /\ RowKnown(p)'
      BY <2>0, <3>1, <3>3, <3>6, <3>7 DEF Identified, RowKnown
    <3> QED BY <1>t, <2>0, <3>6, <3>7, <3>8, MoveStep
  <2> QED BY <2>1, <2>2
<1> QED BY <1>1, <1>2 DEF BeginAuthSession, BeginAuth

\* What others do: the provider's user, and the administrator.
LEMMA OutsideSteps ==
    ASSUME SignInInv,
           \/ \E l \in Logins \cup {NoLogin}, x \in Subs : Authenticate(l, x)
           \/ \E a \in Accounts, e \in Emails : Invite(a, e)
           \/ \E a \in Accounts, e \in Emails, x \in Subs \cup {NoSub} : AdminUpdate(a, e, x)
           \/ \E a \in Accounts : AdminDelete(a)
    PROVE  SignInInv'
<1>t. SignInType BY DEF SignInInv
<1>1. ASSUME NEW l \in Logins \cup {NoLogin}, NEW x \in Subs, Authenticate(l, x) PROVE SignInInv'
  <2>1. /\ sign' = sign /\ acct' = acct /\ edited' = edited /\ code[l] = NoSub
        /\ code' = [code EXCEPT ![l] = x]
    BY <1>1 DEF Authenticate
  <2>2. SignInType' BY <1>t, <2>1 DEF SignInType
  <2>3. ASSUME NEW p \in Logins PROVE Identified(p)' /\ RowKnown(p)'
    <3>1. Identified(p) /\ RowKnown(p) BY DEF SignInInv
    <3>2. sign[p].sub # NoSub => code'[p] = code[p] BY <1>t, <2>1, <3>1 DEF Identified, SignInType
    <3> QED BY <2>1, <3>1, <3>2 DEF Identified, RowKnown
  <2> QED BY <2>2, <2>3 DEF SignInInv
<1>2. ASSUME NEW a \in Accounts, NEW row \in Rows, Edit(a, row) PROVE SignInInv'
  <2>1. /\ sign' = sign /\ code' = code /\ acct' = [acct EXCEPT ![a] = row]
        /\ edited \subseteq edited'
        /\ (\E p \in Logins : sign[p].step \in Statements) => a \in edited'
    BY <1>2 DEF Edit
  <2>2. SignInType' BY <1>t, <2>1 DEF SignInType
  <2>3. ASSUME NEW p \in Logins PROVE Identified(p)' /\ RowKnown(p)'
    <3>1. Identified(p) /\ RowKnown(p) BY DEF SignInInv
    <3>2. Identified(p)' BY <2>1, <3>1 DEF Identified
    <3>3. CASE sign[p].step \notin Statements BY <2>1, <3>2, <3>3 DEF RowKnown, Statements
    <3>4. CASE sign[p].step \in Statements
      <4>1. sign[p].seen \notin edited' => sign[p].seen \notin edited /\ sign[p].seen # a
        BY <2>1, <3>4
      <4>2. sign[p].seen # a => acct'[sign[p].seen] = acct[sign[p].seen]
            \/ sign[p].step \notin {"update", "link", "winner"}
        BY <1>t, <2>1, <3>1 DEF SignInType, Identified
      <4> QED BY <2>1, <3>1, <3>2, <4>1, <4>2 DEF RowKnown
    <3> QED BY <3>3, <3>4
  <2> QED BY <2>2, <2>3 DEF SignInInv
<1>3. /\ Deleted \in Rows
      /\ \A e \in Emails, x \in Subs \cup {NoSub} : Row(e, x) \in Rows
  BY DEF Deleted, Unused, Row, Rows
<1> QED BY <1>1, <1>2, <1>3 DEF Invite, AdminUpdate, AdminDelete

LEMMA SignInInvariance == SignInSpec => []SignInInv
<1>1. SignInInv /\ [SignInNext]_signInVars => SignInInv'
  <2> SUFFICES ASSUME SignInInv, [SignInNext]_signInVars PROVE SignInInv'
    OBVIOUS
  <2>1. CASE SignInNext BY <2>1, LoginSteps, StatementStep, OutsideSteps DEF SignInNext
  <2>2. CASE UNCHANGED signInVars
    BY <2>2 DEF signInVars, SignInInv, SignInType, Identified, RowKnown
  <2> QED BY <2>1, <2>2
<1> QED BY <1>1, SignInStart, PTL DEF SignInSpec

(* For any number of logins: ExchangeAndVerify's nonce and authorized-party  *)
(* checks bind every accepted callback to the login it answers and to this   *)
(* client, also with a provider that ignores PKCE.                           *)
THEOREM CallbacksAreBound == SignInSpec => []CallbackMatchesLogin
<1>1. SignInInv => CallbackMatchesLogin BY DEF SignInInv, Identified, CallbackMatchesLogin
<1> QED BY <1>1, SignInInvariance, PTL

(* For any number of logins and accounts, the statements of                  *)
(* GetOrCreateUserFromOIDC, in any interleaving, rebind no account, bind one *)
(* on a verified address only, and end in an account of their subject, edits *)
(* between their statements excepted.                                        *)
THEOREM SignInsRebindNothing == SignInSpec => OneSubjectPerAccount
<1>1. SignInInv =>
        [\A p \in Logins : Statement(p) =>
          /\ \A a \in Accounts \ edited : acct'[a] # acct[a] =>
                /\ acct'[a].sub = sign[p].sub
                /\ a \in Live => acct[a].sub \in {NoSub, sign[p].sub}
                /\ a \in BySub(sign[p].sub) \/ sign[p].verified
          /\ sign'[p].step = "done" /\ sign'[p].seen \notin edited =>
                acct'[sign'[p].seen].sub = sign[p].sub]_signInVars
  <2> SUFFICES ASSUME SignInInv, NEW p \in Logins, Statement(p)
               PROVE  /\ \A a \in Accounts \ edited : acct'[a] # acct[a] =>
                          /\ acct'[a].sub = sign[p].sub
                          /\ a \in Live => acct[a].sub \in {NoSub, sign[p].sub}
                          /\ a \in BySub(sign[p].sub) \/ sign[p].verified
                      /\ sign'[p].step = "done" /\ sign'[p].seen \notin edited =>
                          acct'[sign'[p].seen].sub = sign[p].sub
    OBVIOUS
  <2>1. /\ acct' = acct \/ WritesOwn(p)
        /\ sign'[p].step = "done" /\ sign'[p].seen \notin edited =>
             acct'[sign'[p].seen].sub = sign[p].sub
    BY StatementStep
  <2>2. WritesOwn(p) => \A a \in Accounts \ edited : acct'[a] # acct[a] =>
                          /\ acct'[a].sub = sign[p].sub
                          /\ a \in Live => acct[a].sub \in {NoSub, sign[p].sub}
                          /\ a \in BySub(sign[p].sub) \/ sign[p].verified
    BY DEF WritesOwn, Live, BySub
  <2> QED BY <2>1, <2>2
<1> QED BY <1>1, SignInInvariance, PTL DEF OneSubjectPerAccount
-----------------------------------------------------------------------------
(* The token manager. A secret that no step has excused is in one of the two *)
(* pointers, and a rotation that met no other finds them as it left them.    *)
Rotations == [step : {"idle", "previous", "current"}, cur : Nat, alone : BOOLEAN]
Reasons   == [step : {"none", "current", "previous", "accepted", "refused"},
              why : {"none", "claims", "secret"}]

ManagerType ==
    /\ current \in 0..secrets /\ previous \in Nat /\ secrets \in Nat
    /\ rot \in [Rotators -> Rotations]
    /\ request \in Reasons
    /\ token.secret \in 0..secrets

SecretsKept == \A x \in 1..secrets : x \notin excused => x = current \/ x = previous

Undisturbed(r) ==
    rot[r].step # "idle" /\ rot[r].alone =>
        /\ rot[r].cur = current
        /\ rot[r].step = "current" => previous = current
        /\ \A q \in Rotators \ {r} : rot[q].step = "idle"

Refusals ==
    /\ token # NoToken => token.secret # 0
    /\ request.step # "none" => token.secret # 0
    /\ request.step = "previous" /\ request.why = "secret" => token.secret # current
    /\ RotationKeepsTokens

ManagerInv ==
    /\ ManagerType /\ SecretsKept /\ Refusals
    /\ \A r \in Rotators : Undisturbed(r)

LEMMA ManagerStart == ManagerInit => ManagerInv
<1> SUFFICES ASSUME ManagerInit PROVE ManagerInv
  OBVIOUS
<1>1. /\ current \in {0, 1} /\ previous = 0 /\ secrets = current
      /\ rot = [r \in Rotators |-> Resting] /\ token = NoToken /\ request = NoRequest
  BY DEF ManagerInit
<1>2. Resting \in Rotations /\ Resting.step = "idle" BY DEF Resting, Rotations
<1>3. NoToken.secret = 0 BY DEF NoToken
<1>4. NoRequest \in Reasons /\ NoRequest.step = "none" BY DEF NoRequest, Reasons
<1>5. ManagerType BY <1>1, <1>2, <1>3, <1>4 DEF ManagerType
<1>6. SecretsKept BY <1>1 DEF SecretsKept
<1>7. Refusals BY <1>1, <1>4 DEF Refusals, RotationKeepsTokens
<1>8. \A r \in Rotators : Undisturbed(r) BY <1>1, <1>2 DEF Undisturbed
<1> QED BY <1>5, <1>6, <1>7, <1>8 DEF ManagerInv

\* Steps that touch no secret: the configuration, the token, the request.
LEMMA TokenSteps ==
    ASSUME ManagerInv,
           \/ \E I \in SUBSET Issuers : SetAllowedIssuers(I)
           \/ \E a \in {"any", "suite"} : SetAudience(a)
           \/ \E i \in Issuers : Generate(i)
           \/ Expire \/ Present \/ ValidateCurrent \/ ValidatePrevious
    PROVE  ManagerInv'
<1>i. ManagerType /\ SecretsKept /\ Refusals /\ \A r \in Rotators : Undisturbed(r)
  BY DEF ManagerInv
<1>u. /\ current' = current /\ previous' = previous /\ secrets' = secrets /\ rot' = rot
      /\ excused' = excused
  BY DEF SetAllowedIssuers, SetAudience, Generate, Expire, Present, ValidateCurrent, ValidatePrevious
<1>k. SecretsKept' /\ \A r \in Rotators : Undisturbed(r)'
  BY <1>i, <1>u DEF SecretsKept, Undisturbed
<1>1. token'.secret \in 0..secrets' /\ request' \in Reasons /\ Refusals'
  <2>1. CASE \/ \E I \in SUBSET Issuers : SetAllowedIssuers(I)
             \/ \E a \in {"any", "suite"} : SetAudience(a)
    BY <1>i, <1>u, <2>1
       DEF SetAllowedIssuers, SetAudience, ManagerType, Refusals, RotationKeepsTokens
  <2>2. ASSUME NEW i \in Issuers, Generate(i)
        PROVE  token'.secret \in 0..secrets' /\ request' \in Reasons /\ Refusals'
    <3>1. /\ token.secret = 0 /\ token'.secret = current /\ current # 0 /\ request' = request
      BY <2>2 DEF Generate, NoToken
    <3>2. request.step = "none" BY <1>i, <3>1 DEF Refusals
    <3> QED BY <1>i, <1>u, <3>1, <3>2 DEF ManagerType, Refusals, RotationKeepsTokens
  <2>3. CASE Expire
    <3>1. token' = [token EXCEPT !.expired = TRUE] /\ request' = request /\ token.secret # 0
      BY <2>3 DEF Expire
    <3>2. token'.secret = token.secret BY <3>1
    <3> QED BY <1>i, <1>u, <3>1, <3>2 DEF ManagerType, Refusals, RotationKeepsTokens
  <2>4. CASE Present
    <3>1. token' = token /\ request' = [step |-> "current", why |-> "none"]
      BY <2>4 DEF Present, NoRequest
    <3>2. token.secret # 0
      BY <1>i, <2>4 DEF Present, Refusals
    <3> QED BY <1>i, <1>u, <3>1, <3>2 DEF ManagerType, Reasons, Refusals, RotationKeepsTokens
  <2>5. CASE ValidateCurrent
    <3>1. /\ token' = token /\ request.step = "current"
          /\ request' \in Reasons /\ request'.step \in {"accepted", "previous"}
          /\ request'.why = "secret" => token.secret # current
      BY <2>5 DEF ValidateCurrent, Reasons
    <3> QED BY <1>i, <1>u, <3>1 DEF ManagerType, Refusals, RotationKeepsTokens
  <2>6. CASE ValidatePrevious
    <3>1. /\ token' = token /\ request.step = "previous"
          /\ request' \in Reasons /\ request'.step \in {"accepted", "refused"}
          /\ request'.why = "secret" => previous # token.secret /\ request.why = "secret"
      BY <1>i, <2>6 DEF ValidatePrevious, Reasons, ManagerType
    <3>2. request'.why = "secret" => token.secret \in excused
      BY <1>i, <3>1 DEF ManagerType, Refusals, SecretsKept
    <3> QED BY <1>i, <1>u, <3>1, <3>2 DEF ManagerType, Refusals, RotationKeepsTokens
  <2> QED BY <2>1, <2>2, <2>3, <2>4, <2>5, <2>6
<1>2. ManagerType' BY <1>i, <1>u, <1>1 DEF ManagerType
<1> QED BY <1>k, <1>1, <1>2 DEF ManagerInv

\* What a rotation or a clear leaves for tokens and requests.
LEMMA SecretStep ==
    ASSUME ManagerInv, secrets' \in Nat, secrets' >= secrets, current' = current \/ current' > secrets,
           current' \in 0..secrets', previous' \in Nat, excused \subseteq excused',
           rot' \in [Rotators -> Rotations], token' = token, request' = request
    PROVE  ManagerType' /\ Refusals'
<1>i. ManagerType /\ Refusals BY DEF ManagerInv
<1>1. token.secret \in 0..secrets' BY <1>i DEF ManagerType
<1>2. ManagerType' BY <1>i, <1>1 DEF ManagerType
<1>3. token.secret # current => token.secret # current' BY <1>i DEF ManagerType
<1>4. Refusals' BY <1>i, <1>3 DEF Refusals, RotationKeepsTokens
<1> QED BY <1>2, <1>4

LEMMA RotationSteps ==
    ASSUME ManagerInv, NEW r \in Rotators, RotateLoad(r) \/ RotatePrevious(r) \/ RotateCurrent(r)
    PROVE  ManagerInv'
<1>i. ManagerType /\ SecretsKept /\ Refusals /\ \A q \in Rotators : Undisturbed(q)
  BY DEF ManagerInv
<1>t. /\ rot \in [Rotators -> Rotations] /\ rot[r] \in Rotations
      /\ current \in 0..secrets /\ current \in Nat /\ previous \in Nat /\ secrets \in Nat
  BY <1>i DEF ManagerType
<1>f. token' = token /\ request' = request BY DEF RotateLoad, RotatePrevious, RotateCurrent
<1>1. CASE RotateLoad(r)
  <2>1. /\ current' = current /\ previous' = previous /\ secrets' = secrets /\ excused' = excused
        /\ rot' = [Overlapped EXCEPT ![r] = [step |-> "previous", cur |-> current,
                                             alone |-> Rotating = {}]]
    BY <1>1 DEF RotateLoad
  <2>2. PICK x : x = [step |-> "previous", cur |-> current, alone |-> Rotating = {}] OBVIOUS
  <2>3. x \in Rotations /\ x.cur = current /\ x.step = "previous" /\ x.alone = (Rotating = {})
    <3>1. PICK b \in BOOLEAN : b = (Rotating = {}) OBVIOUS
    <3> QED BY <1>t, <2>2, <3>1 DEF Rotations
  <2>4. ASSUME NEW q \in Rotators
        PROVE  /\ Overlapped[q] \in Rotations
               /\ Overlapped[q].step = rot[q].step
               /\ rot[q].step # "idle" => ~Overlapped[q].alone
    <3>1. CASE rot[q].step # "idle"
      <4>1. Overlapped[q] = [rot[q] EXCEPT !.alone = FALSE] BY <3>1 DEF Overlapped, Rotating
      <4>2. rot[q] \in Rotations BY <1>t
      <4> QED BY <4>1, <4>2 DEF Rotations
    <3>2. CASE rot[q].step = "idle"
      <4>1. Overlapped[q] = rot[q] BY <3>2 DEF Overlapped, Rotating
      <4> QED BY <1>t, <3>2, <4>1
    <3> QED BY <3>1, <3>2
  <2>5. /\ rot' \in [Rotators -> Rotations] /\ rot'[r] = x
        /\ \A q \in Rotators \ {r} : rot'[q] = Overlapped[q]
    <3>1. rot' = [Overlapped EXCEPT ![r] = x] BY <2>1, <2>2
    <3>2. Overlapped \in [Rotators -> Rotations]
      <4>1. DOMAIN Overlapped = Rotators /\ Overlapped = [q \in Rotators |-> Overlapped[q]]
        BY DEF Overlapped
      <4> QED BY <2>4, <4>1
    <3> QED BY <2>3, <3>1, <3>2
  <2>6. ManagerType' /\ Refusals' BY <1>t, <1>f, <2>1, <2>5, SecretStep
  <2>7. SecretsKept' BY <1>i, <2>1 DEF SecretsKept
  <2>8. ASSUME NEW q \in Rotators PROVE Undisturbed(q)'
    <3>1. CASE q = r
      <4>1. Rotating = {} => \A v \in Rotators : rot[v].step = "idle" BY DEF Rotating
      <4>2. \A v \in Rotators \ {r} : rot'[v].step = rot[v].step BY <2>4, <2>5
      <4> QED BY <2>1, <2>3, <2>5, <3>1, <4>1, <4>2 DEF Undisturbed
    <3>2. CASE q # r
      <4>1. rot'[q].step # "idle" => ~rot'[q].alone BY <2>4, <2>5, <3>2
      <4> QED BY <4>1 DEF Undisturbed
    <3> QED BY <3>1, <3>2
  <2> QED BY <2>6, <2>7, <2>8 DEF ManagerInv
<1>2. CASE RotatePrevious(r)
  <2>1. /\ rot[r].step = "previous" /\ previous' = rot[r].cur
        /\ current' = current /\ secrets' = secrets
        /\ rot' = [rot EXCEPT ![r].step = "current"]
        /\ excused' = excused \cup ((1..secrets) \ {x \in {current} : rot[r].alone})
    BY <1>2 DEF RotatePrevious, Retire
  <2>2. rot[r].alone => rot[r].cur = current /\ \A q \in Rotators \ {r} : rot[q].step = "idle"
    BY <1>i, <2>1 DEF Undisturbed
  <2>3. /\ rot' \in [Rotators -> Rotations] /\ \A q \in Rotators \ {r} : rot'[q] = rot[q]
        /\ rot'[r].cur = rot[r].cur /\ rot'[r].step = "current" /\ rot'[r].alone = rot[r].alone
    BY <1>t, <2>1 DEF Rotations
  <2>4. rot[r].cur \in Nat BY <1>t DEF Rotations
  <2>5. ManagerType' /\ Refusals' BY <1>t, <1>f, <2>1, <2>3, <2>4, SecretStep
  <2>6. SecretsKept' BY <2>1, <2>2 DEF SecretsKept
  <2>7. ASSUME NEW q \in Rotators PROVE Undisturbed(q)'
    <3>1. CASE q = r BY <2>1, <2>2, <2>3, <3>1 DEF Undisturbed
    <3>2. CASE q # r
      <4>1. rot[q].step # "idle" => ~rot[q].alone BY <1>i, <2>1, <3>2 DEF Undisturbed
      <4> QED BY <2>3, <3>2, <4>1 DEF Undisturbed
    <3> QED BY <3>1, <3>2
  <2> QED BY <2>5, <2>6, <2>7 DEF ManagerInv
<1>3. CASE RotateCurrent(r)
  <2>1. /\ rot[r].step = "current" /\ previous' = previous
        /\ secrets' = secrets + 1 /\ current' = secrets + 1
        /\ rot' = [rot EXCEPT ![r] = Resting]
        /\ excused' = excused \cup ((1..secrets) \ {x \in {current} : rot[r].alone})
    BY <1>3 DEF RotateCurrent, Retire
  <2>2. rot[r].alone => previous = current BY <1>i, <2>1 DEF Undisturbed
  <2>3. Resting \in Rotations /\ Resting.step = "idle" BY DEF Resting, Rotations
  <2>4. /\ rot' \in [Rotators -> Rotations] /\ rot'[r].step = "idle"
        /\ \A q \in Rotators \ {r} : rot'[q] = rot[q]
    BY <1>t, <2>1, <2>3
  <2>5. ManagerType' /\ Refusals' BY <1>t, <1>f, <2>1, <2>4, SecretStep
  <2>6. SecretsKept'
    <3> SUFFICES ASSUME NEW x \in 1..(secrets + 1), x \notin excused'
                 PROVE  x = secrets + 1 \/ x = previous
      BY <2>1 DEF SecretsKept
    <3>1. CASE x \in 1..secrets BY <2>1, <2>2, <3>1
    <3>2. CASE x = secrets + 1 BY <3>2
    <3> QED BY <1>t, <3>1, <3>2
  <2>7. ASSUME NEW q \in Rotators PROVE Undisturbed(q)'
    <3>1. CASE q = r BY <2>4, <3>1 DEF Undisturbed
    <3>2. CASE q # r
      <4>1. rot[q].step # "idle" => ~rot[q].alone BY <1>i, <2>1, <3>2 DEF Undisturbed
      <4> QED BY <2>4, <3>2, <4>1 DEF Undisturbed
    <3> QED BY <3>1, <3>2
  <2> QED BY <2>5, <2>6, <2>7 DEF ManagerInv
<1> QED BY <1>1, <1>2, <1>3

LEMMA ClearStep ==
    ASSUME ManagerInv, ClearPreviousSecret PROVE ManagerInv'
<1>i. ManagerType /\ SecretsKept /\ Refusals /\ \A q \in Rotators : Undisturbed(q)
  BY DEF ManagerInv
<1>1. /\ previous' = 0 /\ current' = current /\ secrets' = secrets
      /\ token' = token /\ request' = request /\ rot' = Overlapped
      /\ excused' = excused \cup ((1..secrets) \ {x \in {current} : Rotating = {}})
  BY DEF ClearPreviousSecret, Retire
<1>2. ASSUME NEW q \in Rotators
      PROVE  Overlapped[q] \in Rotations /\ (Overlapped[q].step # "idle" => ~Overlapped[q].alone)
  <2>t. rot[q] \in Rotations BY <1>i DEF ManagerType
  <2>1. CASE rot[q].step # "idle"
    <3>1. Overlapped[q] = [rot[q] EXCEPT !.alone = FALSE] BY <2>1 DEF Overlapped, Rotating
    <3> QED BY <2>t, <3>1 DEF Rotations
  <2>2. CASE rot[q].step = "idle"
    <3>1. Overlapped[q] = rot[q] BY <2>2 DEF Overlapped, Rotating
    <3> QED BY <2>t, <2>2, <3>1
  <2> QED BY <2>1, <2>2
<1>3. rot' \in [Rotators -> Rotations]
  <2>1. Overlapped = [q \in Rotators |-> Overlapped[q]] BY DEF Overlapped
  <2> QED BY <1>1, <1>2, <2>1
<1>4. ManagerType' /\ Refusals' BY <1>i, <1>1, <1>3, SecretStep DEF ManagerType
<1>5. SecretsKept' BY <1>1 DEF SecretsKept
<1>6. \A q \in Rotators : Undisturbed(q)' BY <1>1, <1>2 DEF Undisturbed
<1> QED BY <1>4, <1>5, <1>6 DEF ManagerInv

(* For any number of rotating goroutines and secrets, Validate refuses a     *)
(* token for its signature only when its secret was rotated away twice or    *)
(* cleared, or when RotateSecret overlapped with itself or with a clear.     *)
THEOREM RotationSignsNobodyOut == ManagerSpec => []RotationKeepsTokens
<1>1. ManagerInv /\ [ManagerNext]_managerVars => ManagerInv'
  <2> SUFFICES ASSUME ManagerInv, [ManagerNext]_managerVars PROVE ManagerInv'
    OBVIOUS
  <2>1. CASE ManagerNext BY <2>1, TokenSteps, RotationSteps, ClearStep DEF ManagerNext
  <2>2. CASE UNCHANGED managerVars
    BY <2>2 DEF managerVars, ManagerInv, ManagerType, SecretsKept, Refusals, RotationKeepsTokens,
                Undisturbed
  <2> QED BY <2>1, <2>2
<1>2. ManagerInv => RotationKeepsTokens BY DEF ManagerInv, Refusals
<1> QED BY <1>1, <1>2, ManagerStart, PTL DEF ManagerSpec
===============================================================================
