---------------------------- MODULE TenancyProofs -----------------------------
(***************************************************************************)
(* Theorems about tenancy: a request reaches only what its principal was    *)
(* entitled to, and deletes re-home nothing.                                *)
(***************************************************************************)
EXTENDS Tenancy, TLAPS

(* The tables. *)
KeyRecords == {Gone} \cup [user : Users \cup {NoUser}, org : Orgs]

Tables ==
    /\ users \in SUBSET Users /\ orgs \in SUBSET Orgs
    /\ role \in [Users -> [Orgs -> Roles]]
    /\ keyRow \in [Keys -> KeyRecords]
    /\ logOrg \in [Logs -> {Gone} \cup Owners]
    /\ chanOrg \in [Channels -> {Gone} \cup Owners]

\* The foreign keys of api_keys.
KeysOwned ==
    \A k \in Keys : keyRow[k] # Gone =>
        keyRow[k].user \in users \cup {NoUser} /\ keyRow[k].org \in orgs

(* The request. Whatever its scope selects is held: the scope was resolved   *)
(* from what the principal was entitled to at that moment.                   *)
Requests == [phase : {"idle", "admin", "members", "ready"}, user : Users \cup {NoUser},
             cred : {"session", "api_key"}, keyOrg : Owners, scope : Scopes]

ScopeHeld(s, H) ==
    /\ s.all => Owners \subseteq H
    /\ s.orgIDs \subseteq H
    /\ s.unowned => NoOrg \in H

RequestInv ==
    /\ req \in Requests /\ ScopeHeld(req.scope, held)
    /\ req.phase # "ready" => req.scope = ZeroScope
    /\ req.phase = "members" => req.user # NoUser
    /\ NoStrayAccess

TenancyInv == Tables /\ KeysOwned /\ RequestInv
-----------------------------------------------------------------------------
LEMMA Zero == ZeroScope \in Scopes /\ ~ZeroScope.all /\ ZeroScope.orgIDs = {} /\ ~ZeroScope.unowned
BY DEF ZeroScope, OrgScopeOrganizations, Scopes

LEMMA IdleRequest == Idle \in Requests /\ Idle.phase = "idle" /\ Idle.scope = ZeroScope
BY Zero DEF Idle, Requests, Owners

LEMMA TenancyStart == Init => TenancyInv
<1> SUFFICES ASSUME Init PROVE TenancyInv
  OBVIOUS
<1>1. Tables BY DEF Init, Tables, KeyRecords
<1>2. KeysOwned BY DEF Init, KeysOwned
<1>3. RequestInv
  <2>1. req = Idle /\ held = {} /\ strays = {} BY DEF Init
  <2> QED BY <2>1, IdleRequest, Zero DEF RequestInv, ScopeHeld, NoStrayAccess
<1> QED BY <1>1, <1>2, <1>3 DEF TenancyInv

\* A step that leaves the request alone takes nothing from what is held.
LEMMA AsideStep ==
    ASSUME RequestInv, Aside, KeepHeld PROVE RequestInv'
<1>1. req' = req /\ strays' = strays BY DEF Aside
<1>2. ScopeHeld(req.scope, held')
  <2>1. CASE req.phase # "ready"
    BY <1>1, <2>1, Zero DEF RequestInv, ScopeHeld
  <2>2. CASE req.phase = "ready"
    <3>1. held \subseteq held' BY <1>1, <2>2 DEF KeepHeld
    <3> QED BY <3>1 DEF RequestInv, ScopeHeld
  <2> QED BY <2>1, <2>2
<1> QED BY <1>1, <1>2 DEF RequestInv, NoStrayAccess

\* A repository call whose selected rows are all held. What goes along with
\* them may lie beyond held, but then it comes through an owner that is held.
LEMMA AnswerAlongStep ==
    ASSUME RequestInv, KeepHeld, NEW c, NEW rows, NEW along, NEW through,
           AnswerAlong(c, rows, along, through),
           c = "request" => \A w \in rows : w \cap held # {},
           c = "request" /\ along # {} => through \cap held # {}
    PROVE  RequestInv'
<1>1. CASE c = "request"
  <2>1. req' = Idle /\ strays' = Stray(rows, {}) \cup Stray(along, through)
    BY <1>1 DEF AnswerAlong
  <2>2. Stray(rows, {}) = {} BY <1>1 DEF Stray
  <2>3. \A s \in Stray(along, through) : s.through # {}
    <3>1. ASSUME NEW s \in Stray(along, through) PROVE s.through # {}
      <4>1. s.through = through \cap held /\ along # {} BY DEF Stray
      <4> QED BY <1>1, <4>1
    <3> QED BY <3>1
  <2>4. NoStrayAccess' BY <2>1, <2>2, <2>3 DEF NoStrayAccess
  <2> QED BY <2>1, <2>4, IdleRequest, Zero DEF RequestInv, ScopeHeld
<1>2. CASE c # "request"
  BY <1>2, AsideStep DEF AnswerAlong
<1> QED BY <1>1, <1>2

LEMMA AnswerStep ==
    ASSUME RequestInv, KeepHeld, NEW c, NEW rows, Answer(c, rows),
           c = "request" => \A w \in rows : w \cap held # {}
    PROVE  RequestInv'
BY AnswerAlongStep DEF Answer
-----------------------------------------------------------------------------
(* What a scope selects is held, table by table. *)
LEMMA SelectedIsHeld ==
    ASSUME RequestInv, NEW o \in Owners, SQL(req.scope, o)
    PROVE  o \in held
<1>1. req.scope \in Scopes /\ ScopeHeld(req.scope, held) BY DEF RequestInv, Requests
<1>2. CASE req.scope.all BY <1>1, <1>2 DEF ScopeHeld
<1>3. CASE ~req.scope.all /\ req.scope.orgIDs = {} BY <1>1, <1>3 DEF SQL, ScopeHeld
<1>4. CASE ~req.scope.all /\ req.scope.orgIDs # {} BY <1>1, <1>4 DEF SQL, ScopeHeld
<1> QED BY <1>2, <1>3, <1>4

LEMMA RowsHeld ==
    ASSUME TenancyInv
    PROVE  /\ \A u \in UserRows(req.scope) : UserOwners(u) \cap held # {}
           /\ \A m \in MemberRows(req.scope) : m[2] \in held
           /\ \A o \in OrgRows(req.scope) : o \in held
           /\ \A k \in KeyRows(req.scope) : KeyOrg(k) \in held
           /\ \A l \in LogsThere : SQL(req.scope, LogOrg(l)) => LogOrg(l) \in held
           /\ \A ch \in splice(req.scope) : ChanOrg(ch) \in held
<1>t. Tables /\ KeysOwned /\ RequestInv BY DEF TenancyInv
<1>1. ASSUME NEW u \in UserRows(req.scope) PROVE UserOwners(u) \cap held # {}
  <2>1. u \in Users /\ MembershipSQL(req.scope, Homes(u)) BY <1>t DEF UserRows, Tables
  <2>2. ScopeHeld(req.scope, held) BY <1>t DEF RequestInv
  <2>3. Homes(u) \subseteq Owners BY DEF Homes, Owners
  <2>4. CASE req.scope.all BY <2>2, <2>3, <2>4 DEF ScopeHeld, UserOwners, Owners
  <2>5. CASE req.scope.orgIDs \cap Homes(u) # {} BY <2>2, <2>5 DEF ScopeHeld, UserOwners
  <2>6. CASE req.scope.unowned /\ Homes(u) = {} BY <2>2, <2>6 DEF ScopeHeld, UserOwners
  <2> QED BY <2>1, <2>4, <2>5, <2>6 DEF MembershipSQL
<1>2. ASSUME NEW m \in MemberRows(req.scope) PROVE m[2] \in held
  <2>1. m \in Users \X Orgs /\ SQL(req.scope, m[2]) BY DEF MemberRows, InScope, Members, MemberOrg
  <2>2. m[2] \in Owners BY <2>1 DEF Owners
  <2> QED BY <1>t, <2>1, <2>2, SelectedIsHeld
<1>3. ASSUME NEW o \in OrgRows(req.scope) PROVE o \in held
  <2>1. o \in orgs /\ SQL(req.scope, o) BY DEF OrgRows, InScope, OrgItself
  <2>2. o \in Owners BY <1>t, <2>1 DEF Tables, Owners
  <2> QED BY <1>t, <2>1, <2>2, SelectedIsHeld
<1>4. ASSUME NEW k \in KeyRows(req.scope) PROVE KeyOrg(k) \in held
  <2>1. k \in KeysThere /\ SQL(req.scope, KeyOrg(k)) BY DEF KeyRows, InScope
  <2>2. KeyOrg(k) \in Owners BY <1>t, <2>1 DEF KeysThere, KeyOrg, KeysOwned, Tables, Owners
  <2> QED BY <1>t, <2>1, <2>2, SelectedIsHeld
<1>5. ASSUME NEW l \in LogsThere, SQL(req.scope, LogOrg(l)) PROVE LogOrg(l) \in held
  <2>1. LogOrg(l) \in Owners BY <1>t DEF LogsThere, LogOrg, Tables
  <2> QED BY <1>t, <1>5, <2>1, SelectedIsHeld
<1>6. ASSUME NEW ch \in splice(req.scope) PROVE ChanOrg(ch) \in held
  <2>1. ch \in ChansThere /\ SQL(req.scope, ChanOrg(ch)) BY DEF splice
  <2>2. ChanOrg(ch) \in Owners BY <1>t, <2>1 DEF ChansThere, ChanOrg, Tables
  <2> QED BY <1>t, <2>1, <2>2, SelectedIsHeld
<1> QED BY <1>1, <1>2, <1>3, <1>4, <1>5, <1>6

\* An organization acted in is held.
LEMMA ActingIsHeld ==
    ASSUME RequestInv, NEW selected \in Owners, NEW o \in ActingOrganization(req.scope, selected)
    PROVE  o \in held
BY DEF RequestInv, ScopeHeld, ActingOrganization, Permits
-----------------------------------------------------------------------------
(* Resolution: what is resolved was entitled at that moment, hence held. *)
LEMMA BeginStep ==
    ASSUME NEW q \in Requests, q.scope = ZeroScope, Begin(q)
    PROVE  req' \in Requests /\ req'.phase = "admin" /\ req'.scope = ZeroScope /\ strays' = {}
BY DEF Begin, Requests

LEMMA UnresolvedStep ==
    ASSUME RequestInv, KeepHeld, req' \in Requests, strays' \in {strays, {}},
           req'.scope = ZeroScope,
           req'.phase = "members" => req'.user # NoUser
    PROVE  RequestInv'
<1>1. ScopeHeld(req'.scope, held') BY Zero DEF ScopeHeld
<1> QED BY <1>1 DEF RequestInv, NoStrayAccess

LEMMA ResolvedScope ==
    ASSUME NEW s \in Scopes
    PROVE  Resolved(s) \in Requests /\ Resolved(s).phase = "ready" /\ Resolved(s).scope = s
BY DEF Resolved, Idle, Requests, Owners

LEMMA ResolvedStep ==
    ASSUME RequestInv, KeepHeld, req' \in Requests, strays' = strays, req'.phase = "ready",
           \/ req'.scope = OrgScopeAllOrganizations /\ Entitled(req, admins, role) = Owners
           \/ /\ ~req'.scope.all /\ ~req'.scope.unowned
              /\ req'.scope.orgIDs \subseteq Entitled(req, admins, role)
           \/ req'.scope = WithUnowned(req.scope)
    PROVE  RequestInv'
<1>1. held' = held \cup Entitled(req, admins, role) \cup {o \in {NoOrg} : req'.scope.unowned}
  BY DEF KeepHeld
<1>2. ScopeHeld(req'.scope, held')
  <2>2. CASE req'.scope = OrgScopeAllOrganizations /\ Entitled(req, admins, role) = Owners
    <3>1. OrgScopeAllOrganizations.orgIDs = {} /\ ~OrgScopeAllOrganizations.unowned
      BY DEF OrgScopeAllOrganizations, ZeroScope, OrgScopeOrganizations
    <3>2. Owners \subseteq held' BY <1>1, <2>2
    <3> QED BY <2>2, <3>1, <3>2 DEF ScopeHeld
  <2>3. CASE /\ ~req'.scope.all /\ ~req'.scope.unowned
             /\ req'.scope.orgIDs \subseteq Entitled(req, admins, role)
    BY <1>1, <2>3 DEF ScopeHeld
  <2>4. CASE req'.scope = WithUnowned(req.scope)
    <3>1. req.scope \in Scopes /\ ScopeHeld(req.scope, held) BY DEF RequestInv, Requests
    <3>2. req'.scope.all = req.scope.all /\ req'.scope.orgIDs = req.scope.orgIDs
          /\ req'.scope.unowned
      BY <2>4, <3>1 DEF WithUnowned, Scopes
    <3> QED BY <1>1, <3>1, <3>2 DEF ScopeHeld
  <2> QED BY <2>2, <2>3, <2>4
<1> QED BY <1>2 DEF RequestInv, NoStrayAccess

LEMMA BeginInv ==
    ASSUME RequestInv, KeepHeld, NEW q \in Requests, q.scope = ZeroScope, Begin(q)
    PROVE  RequestInv'
<1>1. req' \in Requests /\ req'.phase = "admin" /\ req'.scope = ZeroScope /\ strays' = {}
  BY BeginStep
<1> QED BY <1>1, UnresolvedStep

LEMMA AdminStep ==
    ASSUME RequestInv, KeepHeld, ResolveAdmin PROVE RequestInv'
<1>1. req \in Requests /\ req.phase = "admin" /\ req.scope = ZeroScope /\ strays' = strays
  BY DEF RequestInv, ResolveAdmin
<1>a. OrgScopeAllOrganizations \in Scopes
  BY DEF OrgScopeAllOrganizations, ZeroScope, OrgScopeOrganizations, Scopes
<1>2. CASE req' = Resolved(ZeroScope)
  <2>1. req' \in Requests /\ req'.phase = "ready" /\ req'.scope = ZeroScope
    BY <1>2, Zero, ResolvedScope
  <2> QED BY <1>1, <2>1, UnresolvedStep
<1>3. CASE req' = [req EXCEPT !.phase = "members"] /\ req.user # NoUser
  <2>1. req' \in Requests /\ req'.phase = "members" /\ req'.scope = ZeroScope /\ req'.user # NoUser
    BY <1>1, <1>3 DEF Requests
  <2> QED BY <1>1, <2>1, UnresolvedStep
<1>4. CASE /\ req' = Resolved(OrgScopeAllOrganizations)
           /\ req.user # NoUser /\ AdminCounts(req) /\ req.user \in admins
  <2>1. req' \in Requests /\ req'.phase = "ready" /\ req'.scope = OrgScopeAllOrganizations
    BY <1>4, <1>a, ResolvedScope
  <2>2. Entitled(req, admins, role) = Owners BY <1>4 DEF Entitled
  <2> QED BY <1>1, <2>1, <2>2, ResolvedStep
<1> QED
  <2>1. CASE req.user = NoUser BY <1>2, <2>1 DEF ResolveAdmin
  <2>2. CASE req.user # NoUser /\ ~AdminCounts(req) BY <1>3, <2>2 DEF ResolveAdmin
  <2>3. CASE req.user # NoUser /\ AdminCounts(req) BY <1>2, <1>3, <1>4, <2>3 DEF ResolveAdmin
  <2> QED BY <2>1, <2>2, <2>3

LEMMA MembershipStep ==
    ASSUME RequestInv, KeepHeld, ResolveMemberships PROVE RequestInv'
<1>1. req \in Requests /\ req.user \in Users \cup {NoUser} /\ req.user # NoUser /\ strays' = strays
  BY DEF RequestInv, ResolveMemberships, Requests
<1>2. PICK s \in {ZeroScope,
                  IF Bound(req) THEN OrgScopeOrganizations({req.keyOrg})
                                ELSE OrgScopeForUser(req.user)} :
           req' = Resolved(s)
  BY DEF ResolveMemberships
<1>3. s \in Scopes /\ ~s.all /\ ~s.unowned
  <2>1. CASE s = ZeroScope BY <2>1, Zero
  <2>2. CASE Bound(req) /\ s = OrgScopeOrganizations({req.keyOrg})
    BY <1>1, <2>2 DEF OrgScopeOrganizations, Scopes, Requests, Owners
  <2>3. CASE s = OrgScopeForUser(req.user)
    BY <1>1, <2>3 DEF OrgScopeOrganizations, OrgScopeForUser, Homes, Scopes
  <2> QED BY <1>2, <2>1, <2>2, <2>3
<1>4. req' \in Requests /\ req'.phase = "ready" /\ req'.scope = s
  BY <1>2, <1>3, ResolvedScope
<1>5. s.orgIDs \subseteq Entitled(req, admins, role)
  <2>0. s.orgIDs \subseteq Owners BY <1>3 DEF Scopes, Owners
  <2>z. CASE s = ZeroScope BY <2>z, Zero
  <2>1. CASE AdminCounts(req) /\ req.user \in admins
    BY <1>1, <2>0, <2>1 DEF Entitled
  <2>2. CASE s # ZeroScope /\ ~(AdminCounts(req) /\ req.user \in admins) /\ Bound(req)
    <3>1. s.orgIDs \subseteq {req.keyOrg} BY <1>2, <2>2 DEF OrgScopeOrganizations
    <3>2. Entitled(req, admins, role) = {req.keyOrg} BY <1>1, <2>2 DEF Entitled
    <3> QED BY <3>1, <3>2
  <2>3. CASE s # ZeroScope /\ ~(AdminCounts(req) /\ req.user \in admins) /\ ~Bound(req)
    <3>1. s = OrgScopeForUser(req.user) BY <1>2, <2>3
    <3>2. s.orgIDs \subseteq {o \in Orgs : role[req.user][o] = "manager"}
      BY <3>1 DEF OrgScopeForUser, OrgScopeOrganizations, Homes, GetUserMemberships
    <3>3. Entitled(req, admins, role) = {o \in Orgs : role[req.user][o] = "manager"}
      BY <1>1, <2>3 DEF Entitled
    <3> QED BY <3>2, <3>3
  <2> QED BY <2>z, <2>1, <2>2, <2>3
<1> QED BY <1>1, <1>3, <1>4, <1>5, ResolvedStep

LEMMA ResolutionSteps ==
    ASSUME TenancyInv, KeepHeld, Resolution PROVE RequestInv' /\ UNCHANGED db
<1>t. Tables /\ RequestInv BY DEF TenancyInv
<1>1. CASE BeginSession
  <2>1. PICK u \in users \cup {NoUser} : Begin([Idle EXCEPT !.user = u]) BY <1>1 DEF BeginSession
  <2>2. [Idle EXCEPT !.user = u] \in Requests /\ [Idle EXCEPT !.user = u].scope = ZeroScope
    BY <1>t, Zero DEF Tables, Idle, Requests, Owners
  <2> QED BY <1>t, <2>1, <2>2, BeginInv DEF Begin
<1>2. CASE BeginAPIKey
  <2>1. PICK k \in KeysThere :
             Begin([Idle EXCEPT !.user = keyRow[k].user, !.cred = "api_key", !.keyOrg = KeyOrg(k)])
    BY <1>2 DEF BeginAPIKey, GetAPIKeysByPrefix
  <2>2. keyRow[k].user \in Users \cup {NoUser} /\ KeyOrg(k) \in Owners
    BY <1>t DEF Tables, KeysThere, KeyRecords, KeyOrg, Owners
  <2>3. PICK q : q = [Idle EXCEPT !.user = keyRow[k].user, !.cred = "api_key", !.keyOrg = KeyOrg(k)]
    OBVIOUS
  <2>4. q \in Requests /\ q.scope = ZeroScope
    BY <2>2, <2>3, Zero DEF Idle, Requests
  <2> QED BY <1>t, <2>1, <2>3, <2>4, BeginInv DEF Begin
<1>3. CASE ResolveAdmin BY <1>t, <1>3, AdminStep DEF ResolveAdmin
<1>4. CASE ResolveMemberships BY <1>t, <1>4, MembershipStep DEF ResolveMemberships
<1>5. CASE Widen
  <2>1. req \in Requests /\ req.phase = "ready" /\ strays' = strays
        /\ req' = [req EXCEPT !.scope = WithUnowned(req.scope)]
    BY <1>t, <1>5 DEF RequestInv, Widen
  <2>2. WithUnowned(req.scope) \in Scopes BY <2>1 DEF Requests, WithUnowned, Scopes
  <2>3. req' \in Requests /\ req'.phase = "ready" /\ req'.scope = WithUnowned(req.scope)
    BY <2>1, <2>2 DEF Requests
  <2> QED BY <1>t, <1>5, <2>1, <2>3, ResolvedStep DEF Widen
<1> QED BY <1>1, <1>2, <1>3, <1>4, <1>5 DEF Resolution
-----------------------------------------------------------------------------
(* Reads: every set of rows a call reports is made of selected rows. *)
HeldRows(rows) == \A w \in rows : w \cap held # {}

LEMMA ReadStep ==
    ASSUME RequestInv, KeepHeld, NEW rows, Reaches(rows), HeldRows(rows)
    PROVE  RequestInv' /\ UNCHANGED db
BY AnswerStep DEF Reaches, HeldRows

LEMMA TouchHeld ==
    ASSUME TenancyInv
    PROVE  /\ \A U \in SUBSET UserRows(req.scope) : HeldRows(UserTouch(U))
           /\ \A M \in SUBSET MemberRows(req.scope) : HeldRows(OwnersOf(M, MemberOrg))
           /\ \A O \in SUBSET OrgRows(req.scope) : HeldRows(OrgTouch(O))
           /\ \A o \in Orgs, u \in Users : HeldRows(OrgTouch(MemberOf("request", o, u)))
           /\ \A K \in SUBSET KeyRows(req.scope) : HeldRows(KeyTouch(K))
           /\ \A L \in SUBSET {l \in LogsThere : SQL(req.scope, LogOrg(l))} : HeldRows(LogTouch(L))
           /\ \A C \in SUBSET splice(req.scope) : HeldRows(ChanTouch(C))
<1>1. \A U \in SUBSET UserRows(req.scope) : HeldRows(UserTouch(U))
  BY RowsHeld DEF HeldRows, UserTouch
<1>2. \A M \in SUBSET MemberRows(req.scope) : HeldRows(OwnersOf(M, MemberOrg))
  BY RowsHeld DEF HeldRows, OwnersOf, MemberOrg
<1>3. \A O \in SUBSET OrgRows(req.scope) : HeldRows(OrgTouch(O))
  BY RowsHeld DEF HeldRows, OrgTouch, OwnersOf, OrgItself
<1>4. \A o \in Orgs, u \in Users : HeldRows(OrgTouch(MemberOf("request", o, u)))
  <2> SUFFICES ASSUME NEW o \in Orgs, NEW u \in Users
               PROVE  HeldRows(OrgTouch(MemberOf("request", o, u)))
    OBVIOUS
  <2>1. \A x \in MemberOf("request", o, u) : x \in held
    BY RowsHeld DEF MemberOf, ScopeOf
  <2> QED BY <2>1 DEF HeldRows, OrgTouch, OwnersOf, OrgItself
<1>5. \A K \in SUBSET KeyRows(req.scope) : HeldRows(KeyTouch(K))
  BY RowsHeld DEF HeldRows, KeyTouch, OwnersOf
<1>6. \A L \in SUBSET {l \in LogsThere : SQL(req.scope, LogOrg(l))} : HeldRows(LogTouch(L))
  BY RowsHeld DEF HeldRows, LogTouch, OwnersOf
<1>7. \A C \in SUBSET splice(req.scope) : HeldRows(ChanTouch(C))
  BY RowsHeld DEF HeldRows, ChanTouch, OwnersOf
<1> QED BY <1>1, <1>2, <1>3, <1>4, <1>5, <1>6, <1>7

LEMMA UserReadSteps ==
    ASSUME TenancyInv, KeepHeld, UserReads PROVE RequestInv' /\ UNCHANGED db
<1>t. RequestInv BY DEF TenancyInv
<1>h. \A U \in SUBSET UserRows(req.scope) :
         HeldRows(UserTouch(U)) /\ HeldRows(UserTouch(U) \cup loadMembershipsForUsers(req.scope, U))
  <2>1. \A U : HeldRows(loadMembershipsForUsers(req.scope, U))
    BY TouchHeld DEF loadMembershipsForUsers
  <2> QED BY <2>1, TouchHeld DEF HeldRows
<1>1. PICK U \in SUBSET UserRows(req.scope) :
         Reaches(UserTouch(U)) \/ Reaches(UserTouch(U) \cup loadMembershipsForUsers(req.scope, U))
  <2>1. CASE \E u \in Users : GetUserByID(u) \/ GetUserWithOrgRoles(u) \/ UpdateUser(u)
    BY <2>1 DEF GetUserByID, GetUserWithOrgRoles, UpdateUser
  <2>2. CASE \E m \in SUBSET Users : SearchUsers(m) \/ SearchWithMemberships(m)
    BY <2>2 DEF SearchUsers, SearchWithMemberships
  <2>3. CASE ListUsers \/ CountUsers \/ ListUsersWithMemberships
    BY <2>3 DEF ListUsers, CountUsers, ListUsersWithMemberships, listUsersPage
  <2> QED BY <2>1, <2>2, <2>3 DEF UserReads
<1> QED BY <1>t, <1>h, <1>1, ReadStep

LEMMA OrgReadSteps ==
    ASSUME TenancyInv, KeepHeld, OrgReads PROVE RequestInv' /\ UNCHANGED db
<1>t. RequestInv BY DEF TenancyInv
<1>1. ASSUME NEW O \in SUBSET OrgRows(req.scope), Reaches(OrgTouch(O))
      PROVE  RequestInv' /\ UNCHANGED db
  BY <1>t, <1>1, TouchHeld, ReadStep
<1>2. ASSUME NEW M \in SUBSET MemberRows(req.scope), Reaches(OwnersOf(M, MemberOrg))
      PROVE  RequestInv' /\ UNCHANGED db
  <2>1. HeldRows(OwnersOf(M, MemberOrg)) BY TouchHeld
  <2> QED BY <1>t, <1>2, <2>1, ReadStep
<1>3. ASSUME NEW o \in Orgs, NEW u \in Users, Reaches(OrgTouch(MemberOf("request", o, u)))
      PROVE  RequestInv' /\ UNCHANGED db
  BY <1>t, <1>3, TouchHeld, ReadStep
<1>4. CASE \E o \in Orgs : GetByID(o) \/ GetByName(o) \/ UpdateOrg(o) \/ RenameOrg(o)
  BY <1>1, <1>4 DEF GetByID, GetByName, UpdateOrg, RenameOrg
<1>5. CASE \E o \in Orgs : ListMembers(o) \/ ListMembersWithUsers(o)
  <2>1. PICK o \in Orgs : Reaches(OwnersOf(MembersIn(o), MemberOrg))
    BY <1>5 DEF ListMembers, ListMembersWithUsers
  <2>2. MembersIn(o) \in SUBSET MemberRows(req.scope) BY DEF MembersIn
  <2> QED BY <1>2, <2>1, <2>2
<1>6. CASE (\E m \in SUBSET Orgs : SearchOrgs(m)) \/ ListOrgs \/ CountOrgs
  BY <1>1, <1>6 DEF SearchOrgs, ListOrgs, CountOrgs
<1>7. CASE \E o \in Orgs, u \in Users :
              GetMember(o, u) \/ GetMemberWithRole(o, u) \/ CheckMembership(o, u)
  BY <1>3, <1>7 DEF GetMember, GetMemberWithRole, CheckMembership
<1>8. CASE \E u \in Users : GetUserOrganizations(u)
  <2>1. PICK u \in Users : Reaches(OwnersOf({m \in MemberRows(req.scope) : m[1] = u}, MemberOrg))
    BY <1>8 DEF GetUserOrganizations
  <2>2. {m \in MemberRows(req.scope) : m[1] = u} \in SUBSET MemberRows(req.scope) OBVIOUS
  <2> QED BY <1>2, <2>1, <2>2
<1> QED BY <1>4, <1>5, <1>6, <1>7, <1>8 DEF OrgReads

LEMMA KeyReadSteps ==
    ASSUME TenancyInv, KeepHeld, KeyReads PROVE RequestInv' /\ UNCHANGED db
<1>t. RequestInv BY DEF TenancyInv
<1>1. PICK K \in SUBSET KeyRows(req.scope) : Reaches(KeyTouch(K))
  <2>1. CASE \E k \in Keys : GetAPIKeyByID(k) \/ UpdateAPIKey(k)
    BY <2>1 DEF GetAPIKeyByID, UpdateAPIKey
  <2>2. CASE \E u \in Users : ListAPIKeysByUser(u)
    BY <2>2 DEF ListAPIKeysByUser, KeysOf, ScopeOf
  <2>3. CASE \E o \in Orgs : ListAPIKeysByOrganization(o)
    BY <2>3 DEF ListAPIKeysByOrganization, KeysIn, ScopeOf
  <2>4. CASE \E u \in Users, o \in Orgs : ListByUserAndOrganization(u, o)
    BY <2>4 DEF ListByUserAndOrganization, KeysOf, KeysIn, ScopeOf
  <2>5. CASE ListAPIKeys BY <2>5 DEF ListAPIKeys
  <2> QED BY <2>1, <2>2, <2>3, <2>4, <2>5 DEF KeyReads
<1> QED BY <1>t, <1>1, TouchHeld, ReadStep

LEMMA RecordReadSteps ==
    ASSUME TenancyInv, KeepHeld, RecordReads PROVE RequestInv' /\ UNCHANGED db
<1>t. RequestInv BY DEF TenancyInv
<1>l. LogRows(req.scope) \subseteq {l \in LogsThere : SQL(req.scope, LogOrg(l))}
  BY DEF LogRows, InScope
<1>1. ASSUME NEW L \in SUBSET {l \in LogsThere : SQL(req.scope, LogOrg(l))}, Reaches(LogTouch(L))
      PROVE  RequestInv' /\ UNCHANGED db
  BY <1>t, <1>1, TouchHeld, ReadStep
<1>2. ASSUME NEW C \in SUBSET splice(req.scope), Reaches(ChanTouch(C))
      PROVE  RequestInv' /\ UNCHANGED db
  BY <1>t, <1>2, TouchHeld, ReadStep
<1>3. CASE \E l \in Logs : GetAuditLog(l)
  <2>1. PICK l \in Logs : Reaches(LogTouch(LogRows(req.scope) \cap {l})) BY <1>3 DEF GetAuditLog
  <2> QED BY <1>l, <1>1, <2>1
<1>4. CASE \E f \in SUBSET Logs : ListAuditLogs(f)
  <2>1. PICK f \in SUBSET Logs : Reaches(LogTouch(LogRows(req.scope) \cap f))
    BY <1>4 DEF ListAuditLogs, buildListAuditLogsQueries
  <2> QED BY <1>l, <1>1, <2>1
<1>5. CASE StreamAuditLogs BY <1>1, <1>5 DEF StreamAuditLogs
<1>6. CASE \E ch \in Channels : GetChannelByID(ch) \/ UpdateChannel(ch)
  BY <1>2, <1>6 DEF GetChannelByID, UpdateChannel
<1>7. CASE (\E en \in SUBSET Channels : ListEnabledForEvent(en)) \/ ListChannels
  BY <1>2, <1>7 DEF ListEnabledForEvent, ListChannels
<1> QED BY <1>3, <1>4, <1>5, <1>6, <1>7 DEF RecordReads
-----------------------------------------------------------------------------
(* Writes: what they report is held, and they re-home nothing. *)
LEMMA WriteStep ==
    ASSUME RequestInv, KeepHeld, NEW c, NEW rows, Answer(c, rows), c = "request" => HeldRows(rows)
    PROVE  RequestInv'
BY AnswerStep DEF HeldRows

KeyMoves(k)      == keyRow[k] # Gone /\ keyRow'[k] # Gone /\ keyRow'[k] # keyRow[k]
LogMoves(l)      == logOrg[l] # Gone /\ logOrg'[l] # logOrg[l]
ChannelMoves(ch) == chanOrg[ch] # Gone /\ chanOrg'[ch] # Gone /\ chanOrg'[ch] # chanOrg[ch]

RowsStay ==
    /\ \A k \in Keys : ~KeyMoves(k)
    /\ \A l \in Logs : ~LogMoves(l)
    /\ \A ch \in Channels : ~ChannelMoves(ch)

TablesStep == Tables' /\ KeysOwned' /\ RowsStay

LEMMA SameTables == ASSUME Tables, KeysOwned, UNCHANGED db PROVE TablesStep
BY DEF db, TablesStep, Tables, KeysOwned, RowsStay, KeyMoves, LogMoves, ChannelMoves

LEMMA UserGoes ==
    ASSUME Tables, KeysOwned, NEW U \in SUBSET Users, CascadeUser(U), UNCHANGED <<orgs, admins, chanOrg>>
    PROVE  TablesStep
<1>1. users' \in SUBSET Users /\ orgs' \in SUBSET Orgs BY DEF Tables, CascadeUser
<1>2. role' \in [Users -> [Orgs -> Roles]]
  BY DEF Tables, CascadeUser, Roles
<1>3. keyRow' = [k \in Keys |-> IF k \in KeysThere /\ keyRow[k].user \in U THEN Gone ELSE keyRow[k]]
      /\ logOrg' = logOrg
  BY DEF CascadeUser
<1>4. keyRow' \in [Keys -> KeyRecords] BY <1>3 DEF Tables, KeyRecords
<1>5. \A k \in Keys : keyRow'[k] = Gone \/ (keyRow'[k] = keyRow[k] /\ keyRow[k].user \notin U)
  BY <1>3 DEF KeysThere
<1>6. users' = users \ U BY DEF CascadeUser
<1>7. KeysOwned' BY <1>5, <1>6 DEF KeysOwned
<1>8. RowsStay BY <1>3, <1>5 DEF RowsStay, KeyMoves, LogMoves, ChannelMoves
<1> QED BY <1>1, <1>2, <1>3, <1>4, <1>7, <1>8 DEF TablesStep, Tables

LEMMA OrgGoes ==
    ASSUME Tables, KeysOwned, NEW O \in SUBSET Orgs, CascadeOrg(O), UNCHANGED <<users, admins, chanOrg>>
    PROVE  TablesStep
<1>1. users' \in SUBSET Users /\ orgs' \in SUBSET Orgs BY DEF Tables, CascadeOrg
<1>2. role' \in [Users -> [Orgs -> Roles]]
  BY DEF Tables, CascadeOrg, Roles
<1>3. keyRow' = [k \in Keys |-> IF k \in KeysThere /\ keyRow[k].org \in O THEN Gone ELSE keyRow[k]]
      /\ logOrg' = logOrg
  BY DEF CascadeOrg
<1>4. keyRow' \in [Keys -> KeyRecords] BY <1>3 DEF Tables, KeyRecords
<1>5. \A k \in Keys : keyRow'[k] = Gone \/ (keyRow'[k] = keyRow[k] /\ keyRow[k].org \notin O)
  BY <1>3 DEF KeysThere
<1>6. orgs' = orgs \ O BY DEF CascadeOrg
<1>7. KeysOwned' BY <1>5, <1>6 DEF KeysOwned
<1>8. RowsStay BY <1>3, <1>5 DEF RowsStay, KeyMoves, LogMoves, ChannelMoves
<1> QED BY <1>1, <1>2, <1>3, <1>4, <1>7, <1>8 DEF TablesStep, Tables

LEMMA RoleSet ==
    ASSUME Tables, KeysOwned, NEW O, NEW u \in Users, NEW r \in Roles, SetRole(O, u, r)
    PROVE  TablesStep
<1>1. UNCHANGED <<users, orgs, keyRow, logOrg, chanOrg>> BY DEF SetRole
<1>2. role' \in [Users -> [Orgs -> Roles]]
  <2>1. PICK row : row = [o \in Orgs |-> IF o \in O THEN r ELSE role[u][o]] OBVIOUS
  <2>2. row \in [Orgs -> Roles] BY <2>1 DEF Tables
  <2>3. role' = [role EXCEPT ![u] = row] BY <2>1 DEF SetRole, Tables
  <2> QED BY <2>2, <2>3 DEF Tables
<1>3. KeysOwned' BY <1>1 DEF KeysOwned
<1> QED BY <1>1, <1>2, <1>3 DEF TablesStep, Tables, RowsStay, KeyMoves, LogMoves, ChannelMoves

LEMMA KeysGo ==
    ASSUME Tables, KeysOwned, NEW c, NEW K, DropKeys(c, K)
    PROVE  TablesStep
<1>1. UNCHANGED <<users, orgs, role, logOrg, chanOrg>>
      /\ keyRow' = [k \in Keys |-> IF k \in K THEN Gone ELSE keyRow[k]]
  BY DEF DropKeys
<1>2. keyRow' \in [Keys -> KeyRecords] BY <1>1 DEF Tables, KeyRecords
<1>3. \A k \in Keys : keyRow'[k] \in {Gone, keyRow[k]} BY <1>1
<1>4. KeysOwned' BY <1>1, <1>3 DEF KeysOwned
<1>5. RowsStay BY <1>1, <1>3 DEF RowsStay, KeyMoves, LogMoves, ChannelMoves
<1> QED BY <1>1, <1>2, <1>4, <1>5 DEF TablesStep, Tables

LEMMA KeyMade ==
    ASSUME TenancyInv, KeepHeld, NEW c \in Callers, NEW k \in Keys, NEW u \in Users \cup {NoUser},
           NEW selected \in Owners, CreateAPIKey(c, k, u, selected)
    PROVE  RequestInv' /\ TablesStep
<1>t. Tables /\ KeysOwned /\ RequestInv BY DEF TenancyInv
<1> DEFINE acting == IF c = "request" THEN ActingOrganization(req.scope, selected) ELSE {selected}
           O == {o \in OrgRows(ScopeOf(c)) \cap acting :
                    u \in users \cup {NoUser} /\ k \notin KeysThere /\ RoomForRow}
<1>0. /\ Answer(c, OrgTouch(O))
      /\ keyRow' = [keyRow EXCEPT ![k] = IF O = {} THEN keyRow[k]
                                         ELSE [user |-> u, org |-> CHOOSE o \in O : TRUE]]
      /\ UNCHANGED <<users, orgs, role, logOrg, chanOrg>>
  BY DEF CreateAPIKey
<1>1. RequestInv'
  <2>1. c = "request" => O \in SUBSET OrgRows(req.scope) BY DEF ScopeOf
  <2>2. c = "request" => HeldRows(OrgTouch(O)) BY <2>1, TouchHeld
  <2> HIDE DEF O
  <2> QED BY <1>t, <1>0, <2>2, WriteStep
<1>2. CASE O = {}
  <2>1. UNCHANGED <<users, orgs, role, keyRow, logOrg, chanOrg>>
    BY <1>t, <1>0, <1>2 DEF Tables
  <2> QED BY <1>t, <1>1, <2>1
          DEF TablesStep, Tables, KeysOwned, RowsStay, KeyMoves, LogMoves, ChannelMoves
<1>3. CASE O # {}
  <2>1. PICK org : org = (CHOOSE o \in O : TRUE) OBVIOUS
  <2>2. org \in O BY <1>3, <2>1
  <2>3. org \in orgs /\ org \in Orgs /\ u \in users \cup {NoUser} /\ keyRow[k] = Gone
    BY <1>t, <2>2 DEF OrgRows, InScope, OrgItself, KeysThere, Tables
  <2>4. PICK row : row = [user |-> u, org |-> org] OBVIOUS
  <2>5. row \in KeyRecords /\ row.user \in users \cup {NoUser} /\ row.org \in orgs
    BY <2>3, <2>4 DEF KeyRecords
  <2>6. keyRow' = [keyRow EXCEPT ![k] = row] BY <1>0, <1>3, <2>1, <2>4
  <2> HIDE DEF O
  <2>7. Tables' BY <1>t, <1>0, <2>5, <2>6 DEF Tables
  <2>8. KeysOwned' BY <1>t, <1>0, <2>5, <2>6 DEF KeysOwned, Tables
  <2>9. RowsStay BY <1>t, <1>0, <2>3, <2>6 DEF RowsStay, KeyMoves, LogMoves, ChannelMoves, Tables
  <2> QED BY <1>1, <2>7, <2>8, <2>9 DEF TablesStep
<1> QED BY <1>2, <1>3

LEMMA ChannelMade ==
    ASSUME TenancyInv, KeepHeld, NEW c \in Callers, NEW ch \in Channels, NEW selected \in Owners,
           CreateChannel(c, ch, selected)
    PROVE  RequestInv' /\ TablesStep
<1>t. Tables /\ KeysOwned /\ RequestInv BY DEF TenancyInv
<1> DEFINE acting == IF c = "request" THEN ActingOrganization(req.scope, selected)
                                      ELSE {selected} \ {NoOrg}
           O == IF ch \in ChansThere \/ ~RoomForRow THEN {} ELSE acting
<1>0. /\ Answer(c, OrgTouch(O))
      /\ chanOrg' = [chanOrg EXCEPT ![ch] = IF O = {} THEN chanOrg[ch] ELSE CHOOSE o \in O : TRUE]
      /\ UNCHANGED <<users, orgs, role, keyRow, logOrg>>
  BY DEF CreateChannel
<1>a. O \subseteq Owners
  <2>1. req.scope.orgIDs \subseteq Orgs BY <1>t DEF RequestInv, Requests, Scopes
  <2>2. acting \subseteq Owners BY <2>1 DEF ActingOrganization, Owners
  <2> QED BY <2>2
<1>1. RequestInv'
  <2>1. c = "request" => \A o \in O : o \in held BY <1>t, ActingIsHeld
  <2> HIDE DEF O
  <2>2. c = "request" => HeldRows(OrgTouch(O)) BY <2>1 DEF HeldRows, OrgTouch, OwnersOf, OrgItself
  <2> QED BY <1>t, <1>0, <2>2, WriteStep
<1>k. KeysOwned' BY <1>t, <1>0 DEF KeysOwned
<1>2. CASE O = {}
  <2>1. UNCHANGED <<users, orgs, role, keyRow, logOrg, chanOrg>>
    BY <1>t, <1>0, <1>2 DEF Tables
  <2> QED BY <1>t, <1>1, <1>k, <2>1
          DEF TablesStep, Tables, RowsStay, KeyMoves, LogMoves, ChannelMoves
<1>3. CASE O # {}
  <2>1. PICK org : org = (CHOOSE o \in O : TRUE) OBVIOUS
  <2>2. org \in O /\ org \in Owners BY <1>3, <1>a, <2>1
  <2>3. chanOrg[ch] = Gone BY <2>2 DEF ChansThere
  <2>4. chanOrg' = [chanOrg EXCEPT ![ch] = org] BY <1>0, <1>3, <2>1
  <2> HIDE DEF O
  <2>5. Tables' BY <1>t, <1>0, <2>2, <2>4 DEF Tables
  <2>6. RowsStay BY <1>t, <1>0, <2>3, <2>4 DEF RowsStay, KeyMoves, LogMoves, ChannelMoves, Tables
  <2> QED BY <1>1, <1>k, <2>5, <2>6 DEF TablesStep
<1> QED BY <1>2, <1>3

LEMMA ChannelGoes ==
    ASSUME TenancyInv, KeepHeld, NEW c \in Callers, NEW ch \in Channels, DeleteChannel(c, ch)
    PROVE  RequestInv' /\ TablesStep
<1>t. Tables /\ KeysOwned /\ RequestInv BY DEF TenancyInv
<1> DEFINE C == splice(ScopeOf(c)) \cap {ch}
<1>0. /\ Answer(c, ChanTouch(C))
      /\ chanOrg' = [x \in Channels |-> IF x \in C THEN Gone ELSE chanOrg[x]]
      /\ UNCHANGED <<users, orgs, role, keyRow, logOrg>>
  BY DEF DeleteChannel
<1>1. c = "request" => HeldRows(ChanTouch(C))
  <2>1. c = "request" => C \in SUBSET splice(req.scope) BY DEF ScopeOf
  <2> QED BY <2>1, TouchHeld
<1> HIDE DEF C
<1>2. RequestInv' BY <1>t, <1>0, <1>1, WriteStep
<1>3. Tables' BY <1>t, <1>0 DEF Tables
<1>4. KeysOwned' BY <1>t, <1>0 DEF KeysOwned
<1>5. RowsStay BY <1>0 DEF RowsStay, KeyMoves, LogMoves, ChannelMoves
<1> QED BY <1>2, <1>3, <1>4, <1>5 DEF TablesStep

LEMMA MemberWrites ==
    ASSUME TenancyInv, KeepHeld, NEW c \in Callers, NEW o \in Orgs, NEW u \in Users,
           \/ AddMemberWithParams(c, o, u) \/ RemoveMember(c, o, u)
           \/ UpdateMemberRole(c, o, u)
    PROVE  RequestInv' /\ TablesStep
<1>t. Tables /\ KeysOwned /\ RequestInv BY DEF TenancyInv
<1>1. ASSUME NEW O, NEW r \in Roles, Answer(c, OrgTouch(O)), SetRole(O, u, r),
             c = "request" => HeldRows(OrgTouch(O))
      PROVE  RequestInv' /\ TablesStep
  <2>1. RequestInv' BY <1>t, <1>1, WriteStep
  <2>2. TablesStep BY <1>t, <1>1, RoleSet
  <2> QED BY <2>1, <2>2
<1>m. c = "request" => HeldRows(OrgTouch(MemberOf(c, o, u))) BY TouchHeld
<1>2. CASE AddMemberWithParams(c, o, u)
  <2>1. PICK r \in {"member", "manager"} : AddMemberWithRoleTemplate(c, o, u, r)
    BY <1>2 DEF AddMemberWithParams
  <2> DEFINE O == {x \in OrgRows(ScopeOf(c)) \cap {o} : u \in users /\ role[u][x] = "none"}
  <2>2. Answer(c, OrgTouch(O)) /\ SetRole(O, u, r) BY <2>1 DEF AddMemberWithRoleTemplate
  <2>3. c = "request" => O \in SUBSET OrgRows(req.scope) BY DEF ScopeOf
  <2>4. c = "request" => HeldRows(OrgTouch(O)) BY <2>3, TouchHeld
  <2>5. r \in Roles BY DEF Roles
  <2> HIDE DEF O
  <2> QED BY <1>1, <2>2, <2>4, <2>5
<1>3. CASE RemoveMember(c, o, u)
  <2>1. "none" \in Roles BY DEF Roles
  <2> QED BY <1>1, <1>m, <1>3, <2>1 DEF RemoveMember
<1>4. CASE UpdateMemberRole(c, o, u)
  <2>1. PICK r \in {"member", "manager"} : UpdateMemberRoleTemplate(c, o, u, r)
    BY <1>4 DEF UpdateMemberRole
  <2>2. r \in Roles BY DEF Roles
  <2> QED BY <1>1, <1>m, <2>1, <2>2 DEF UpdateMemberRoleTemplate
<1> QED BY <1>2, <1>3, <1>4

LEMMA AllMembershipsGo ==
    ASSUME TenancyInv, KeepHeld, NEW c \in Callers, NEW u \in Users, RemoveAllMembershipsForUser(c, u)
    PROVE  RequestInv' /\ TablesStep
<1>t. Tables /\ KeysOwned /\ RequestInv BY DEF TenancyInv
<1> DEFINE O == {m[2] : m \in {x \in MemberRows(ScopeOf(c)) : x[1] = u}}
<1>1. Answer(c, OrgTouch(O)) /\ SetRole(O, u, "none") BY DEF RemoveAllMembershipsForUser
<1>2. c = "request" => \A x \in O : x \in held BY RowsHeld DEF ScopeOf
<1> HIDE DEF O
<1>3. c = "request" => HeldRows(OrgTouch(O)) BY <1>2 DEF HeldRows, OrgTouch, OwnersOf, OrgItself
<1>4. "none" \in Roles BY DEF Roles
<1>5. RequestInv' BY <1>t, <1>1, <1>3, WriteStep
<1>6. TablesStep BY <1>t, <1>1, <1>4, RoleSet
<1> QED BY <1>5, <1>6

LEMMA RowDeletes ==
    ASSUME TenancyInv, KeepHeld, NEW c \in Callers,
           \/ \E u \in Users : DeleteUser(c, u) \/ RevokeAPIKeysForUser(c, u)
           \/ \E o \in Orgs : DeleteOrg(c, o)
           \/ \E k \in Keys : RevokeAPIKey(c, k)
    PROVE  RequestInv' /\ TablesStep
<1>t. Tables /\ KeysOwned /\ RequestInv BY DEF TenancyInv
<1>k. ASSUME NEW K \in SUBSET KeyRows(ScopeOf(c)), DropKeys(c, K)
      PROVE  RequestInv' /\ TablesStep
  <2>1. c = "request" => K \in SUBSET KeyRows(req.scope) BY DEF ScopeOf
  <2>2. c = "request" => HeldRows(KeyTouch(K)) BY <2>1, TouchHeld
  <2>3. Answer(c, KeyTouch(K)) BY <1>k DEF DropKeys
  <2>4. RequestInv' BY <1>t, <2>2, <2>3, WriteStep
  <2>5. TablesStep BY <1>t, <1>k, KeysGo
  <2> QED BY <2>4, <2>5
<1>1. ASSUME NEW u \in Users, DeleteUser(c, u) PROVE RequestInv' /\ TablesStep
  <2> DEFINE U == UserRows(ScopeOf(c)) \cap {u}
  <2>1. /\ AnswerAlong(c, UserTouch(U), CascadeTouch(U), UNION UserTouch(U))
        /\ CascadeUser(U) /\ UNCHANGED <<orgs, admins, chanOrg>>
    BY <1>1 DEF DeleteUser
  <2>2. c = "request" => U \in SUBSET UserRows(req.scope) BY DEF ScopeOf
  <2>3. c = "request" => HeldRows(UserTouch(U)) BY <2>2, TouchHeld
  <2>4. U \in SUBSET Users OBVIOUS
  <2> HIDE DEF U
  <2>c. c = "request" /\ CascadeTouch(U) # {} => (UNION UserTouch(U)) \cap held # {}
    <3> SUFFICES ASSUME c = "request", CascadeTouch(U) # {}
                 PROVE  (UNION UserTouch(U)) \cap held # {}
      OBVIOUS
    <3>1. PICK v : v \in U BY DEF CascadeTouch, OwnersOf
    <3>2. UserOwners(v) \in UserTouch(U) BY <3>1 DEF UserTouch
    <3>3. UserOwners(v) \cap held # {} BY <2>3, <3>2 DEF HeldRows
    <3> QED BY <3>2, <3>3
  <2>5. RequestInv' BY <1>t, <2>1, <2>3, <2>c, AnswerAlongStep DEF HeldRows
  <2>6. TablesStep BY <1>t, <2>1, <2>4, UserGoes
  <2> QED BY <2>5, <2>6
<1>2. ASSUME NEW o \in Orgs, DeleteOrg(c, o) PROVE RequestInv' /\ TablesStep
  <2> DEFINE O == OrgRows(ScopeOf(c)) \cap {o}
  <2>1. Answer(c, OrgTouch(O)) /\ CascadeOrg(O) /\ UNCHANGED <<users, admins, chanOrg>>
    BY <1>2 DEF DeleteOrg
  <2>2. c = "request" => O \in SUBSET OrgRows(req.scope) BY DEF ScopeOf
  <2>3. c = "request" => HeldRows(OrgTouch(O)) BY <2>2, TouchHeld
  <2>4. O \in SUBSET Orgs OBVIOUS
  <2> HIDE DEF O
  <2>5. RequestInv' BY <1>t, <2>1, <2>3, WriteStep
  <2>6. TablesStep BY <1>t, <2>1, <2>4, OrgGoes
  <2> QED BY <2>5, <2>6
<1>3. ASSUME NEW u \in Users, RevokeAPIKeysForUser(c, u) PROVE RequestInv' /\ TablesStep
  <2>1. KeysOf(c, u) \in SUBSET KeyRows(ScopeOf(c)) BY DEF KeysOf
  <2> QED BY <1>k, <1>3, <2>1 DEF RevokeAPIKeysForUser
<1>4. ASSUME NEW k \in Keys, RevokeAPIKey(c, k) PROVE RequestInv' /\ TablesStep
  <2>1. KeyRows(ScopeOf(c)) \cap {k} \in SUBSET KeyRows(ScopeOf(c)) OBVIOUS
  <2> QED BY <1>k, <1>4, <2>1 DEF RevokeAPIKey
<1> QED BY <1>1, <1>2, <1>3, <1>4

LEMMA WriteSteps ==
    ASSUME TenancyInv, KeepHeld, NEW c \in Callers, Writes(c) PROVE RequestInv' /\ TablesStep
<1>1. CASE \/ \E u \in Users : DeleteUser(c, u) \/ RevokeAPIKeysForUser(c, u)
           \/ \E o \in Orgs : DeleteOrg(c, o)
           \/ \E k \in Keys : RevokeAPIKey(c, k)
  BY <1>1, RowDeletes
<1>2. CASE \E o \in Orgs, u \in Users :
              AddMemberWithParams(c, o, u) \/ RemoveMember(c, o, u) \/ UpdateMemberRole(c, o, u)
  BY <1>2, MemberWrites
<1>3. CASE \E u \in Users : RemoveAllMembershipsForUser(c, u)
  BY <1>3, AllMembershipsGo
<1>4. CASE \E k \in Keys, u \in Users \cup {NoUser}, o \in Owners : CreateAPIKey(c, k, u, o)
  BY <1>4, KeyMade
<1>5. CASE \E ch \in Channels, o \in Owners : CreateChannel(c, ch, o) BY <1>5, ChannelMade
<1>6. CASE \E ch \in Channels : DeleteChannel(c, ch) BY <1>6, ChannelGoes
<1> QED BY <1>1, <1>2, <1>3, <1>4, <1>5, <1>6 DEF Writes

LEMMA PlatformSteps ==
    ASSUME TenancyInv, KeepHeld, Platform PROVE RequestInv' /\ TablesStep
<1>t. Tables /\ KeysOwned /\ RequestInv BY DEF TenancyInv
<1> USE DEF TablesStep, Tables, RowsStay, KeyMoves, LogMoves, ChannelMoves
<1>1. CASE \E u \in Users : CreateUser(u)
  <2>1. PICK u \in Users : CreateUser(u) BY <1>1
  <2>2. Aside /\ users' = users \cup {u} /\ UNCHANGED <<orgs, role, keyRow, logOrg, chanOrg>>
    BY <2>1 DEF CreateUser
  <2>3. KeysOwned' BY <1>t, <2>2 DEF KeysOwned
  <2> QED BY <1>t, <2>2, <2>3, AsideStep
<1>2. CASE \E o \in Orgs : CreateOrg(o)
  <2>1. PICK o \in Orgs : CreateOrg(o) BY <1>2
  <2>2. Aside /\ orgs' = orgs \cup {o} /\ UNCHANGED <<users, role, keyRow, logOrg, chanOrg>>
    BY <2>1 DEF CreateOrg
  <2>3. KeysOwned' BY <1>t, <2>2 DEF KeysOwned
  <2> QED BY <1>t, <2>2, <2>3, AsideStep
<1>3. CASE \E l \in Logs, o \in Owners : CreateAuditLog(l, o)
  <2>1. PICK l \in Logs, o \in Owners : CreateAuditLog(l, o) BY <1>3
  <2>2. /\ Aside /\ logOrg[l] = Gone /\ logOrg' = [logOrg EXCEPT ![l] = o]
        /\ UNCHANGED <<users, orgs, role, keyRow, chanOrg>>
    BY <2>1 DEF CreateAuditLog, LogsThere
  <2>3. KeysOwned' BY <1>t, <2>2 DEF KeysOwned
  <2> QED BY <1>t, <2>2, <2>3, AsideStep
<1>4. CASE \E u \in Users : ChangeAdmins(u)
  <2>1. Aside /\ UNCHANGED <<users, orgs, role, keyRow, logOrg, chanOrg>>
    BY <1>4 DEF ChangeAdmins
  <2>2. KeysOwned' BY <1>t, <2>1 DEF KeysOwned
  <2> QED BY <1>t, <2>1, <2>2, AsideStep
<1>5. CASE \E X \in SUBSET Keys : DeleteExpiredKeys(X)
  <2>1. PICK X \in SUBSET Keys : DropKeys("operator", KeysThere \cap X) BY <1>5 DEF DeleteExpiredKeys
  <2>2. Aside BY <2>1 DEF DropKeys, Answer, AnswerAlong
  <2>3. RequestInv' BY <1>t, <2>2, AsideStep
  <2>4. TablesStep BY <1>t, <2>1, KeysGo
  <2> QED BY <2>3, <2>4
<1> QED BY <1>1, <1>2, <1>3, <1>4, <1>5 DEF Platform
-----------------------------------------------------------------------------
LEMMA TenancyStep == TenancyInv /\ Next => TenancyInv' /\ TablesStep
<1> SUFFICES ASSUME TenancyInv, Next PROVE RequestInv' /\ TablesStep
  BY DEF TenancyInv, TablesStep
<1>t. Tables /\ KeysOwned /\ KeepHeld BY DEF TenancyInv, Next
<1>1. CASE Resolution BY <1>t, <1>1, ResolutionSteps, SameTables
<1>2. CASE Platform BY <1>t, <1>2, PlatformSteps
<1>3. CASE UserReads BY <1>t, <1>3, UserReadSteps, SameTables
<1>4. CASE OrgReads BY <1>t, <1>4, OrgReadSteps, SameTables
<1>5. CASE KeyReads BY <1>t, <1>5, KeyReadSteps, SameTables
<1>6. CASE RecordReads BY <1>t, <1>6, RecordReadSteps, SameTables
<1>7. CASE \E c \in Callers : Writes(c) BY <1>t, <1>7, WriteSteps
<1> QED BY <1>1, <1>2, <1>3, <1>4, <1>5, <1>6, <1>7 DEF Next

LEMMA TenancyStutters == TenancyInv /\ UNCHANGED vars => TenancyInv'
BY DEF vars, db, TenancyInv, Tables, KeysOwned, RequestInv, NoStrayAccess

LEMMA TenancyHolds == Spec => []TenancyInv
<1>1. TenancyInv /\ [Next]_vars => TenancyInv' BY TenancyStep, TenancyStutters
<1> QED BY <1>1, TenancyStart, PTL DEF Spec

(* For any users, organizations and rows and any setting of the resolver's  *)
(* two switches, no statement of a request selects a row all of whose       *)
(* owners were beyond its principal when Resolve answered: neither a failed *)
(* lookup, an empty scope nor a change of the tables between Resolve and    *)
(* the call widens what the scope predicates select. Rows of others go only *)
(* with the cascade of DeleteUser, and only those of an account that one of *)
(* the principal's organizations shares.                                    *)
THEOREM NoRequestStrays == Spec => []NoStrayAccess
<1>1. TenancyInv => NoStrayAccess BY DEF TenancyInv, RequestInv
<1> QED BY <1>1, TenancyHolds, PTL

(* No step of any caller, the cascades of the deletes included, moves a row *)
(* that stays to another owner, and every key that is left has its          *)
(* organization and its user, or never had one.                             *)
THEOREM NothingIsRehomed == Spec => DeletesDoNotRehome
<1>1. TenancyInv /\ [Next]_vars =>
        [/\ \A k \in Keys : keyRow[k] # Gone /\ keyRow'[k] # Gone
                                => keyRow'[k] = keyRow[k]
         /\ \A l \in Logs : logOrg[l] # Gone => logOrg'[l] = logOrg[l]
         /\ \A ch \in Channels : chanOrg[ch] # Gone /\ chanOrg'[ch] # Gone
                                => chanOrg'[ch] = chanOrg[ch]
         /\ \A k \in Keys : keyRow'[k] # Gone
                                => /\ keyRow'[k].user \in users' \cup {NoUser}
                                   /\ keyRow'[k].org \in orgs']_vars
  BY TenancyStep DEF TablesStep, RowsStay, KeyMoves, LogMoves, ChannelMoves, KeysOwned
<1> QED BY <1>1, TenancyHolds, PTL DEF Spec, DeletesDoNotRehome
===============================================================================
