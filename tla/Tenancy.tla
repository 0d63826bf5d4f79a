------------------------------- MODULE Tenancy --------------------------------
(***************************************************************************)
(* Tenancy: one request resolves the organizations it may reach             *)
(* (tenantscope.Resolver) and then makes one repository call under that     *)
(* scope, while a platform operator calls the same repositories under       *)
(* OrgScopeAllOrganizations. Resolution reads two tables at two moments and *)
(* the call comes later still: memberships, administrators, users,          *)
(* organizations, keys, audit rows and channels all change in between.      *)
(*                                                                         *)
(* Rows are reduced to what tenancy tells apart: who owns them. A role is   *)
(* reduced to whether its template grants the scope the request requires.   *)
(* The deleted rows' cascades are the schema's.                             *)
(***************************************************************************)
EXTENDS OrgScope, Integers, FiniteSets

CONSTANTS Users, NoUser,
          Keys, Logs, Channels,    \* ids of API keys, audit rows, channels
          Gone,                    \* no row with this id
          MaxRows,                 \* bound: keys, audit rows and channels at once
          MaxAdmins,               \* bound: platform administrators at once
          AdminsApplyToAPIKeys,    \* the two switches of Resolver
          KeyBindsOrganization

VARIABLES
    users, orgs,  \* ids of the rows of users and organizations
    deleted,      \* ids of users and organizations that had a row once
    role,         \* [Users -> [Orgs -> ...]]: organization_members
    admins,       \* the platform administrators
    keyRow,       \* api_keys: the owner and the organization of each key
    logOrg,       \* audit_logs.organization_id
    chanOrg,      \* notification_channels.organization_id
    req,          \* the request being served
    held,         \* owners the principal was entitled to when it was resolved
    strays        \* the rows the last call reached outside held: their owners
                  \* and, of a cascade, the held owners it came through

db == <<users, orgs, deleted, role, admins, keyRow, logOrg, chanOrg>>
vars == <<db, req, held, strays>>

Roles  == {"none", "member", "manager"}
Owners == Orgs \cup {NoOrg}
Callers == {"request", "operator"}
-----------------------------------------------------------------------------
(* The tables' owners. *)
Homes(u)   == {o \in Orgs : role[u][o] # "none"}
Members    == {m \in Users \X Orgs : role[m[1]][m[2]] # "none"}
KeysThere  == {k \in Keys : keyRow[k] # Gone}
LogsThere  == {l \in Logs : logOrg[l] # Gone}
ChansThere == {c \in Channels : chanOrg[c] # Gone}

MemberOrg(m) == m[2]
KeyOrg(k)    == keyRow[k].org
LogOrg(l)    == logOrg[l]
ChanOrg(c)   == chanOrg[c]
OrgItself(o) == o

UserOwners(u) == IF Homes(u) = {} THEN {NoOrg} ELSE Homes(u)

Idle == [phase |-> "idle", user |-> NoUser, cred |-> "session",
         keyOrg |-> NoOrg, scope |-> ZeroScope]

Init ==
    /\ users \in SUBSET Users /\ orgs \in SUBSET Orgs /\ deleted = {}
    /\ role \in [Users -> [Orgs -> Roles]]
    /\ \A m \in Members : m[1] \in users /\ m[2] \in orgs
    /\ admins \in SUBSET Users /\ Cardinality(admins) =< MaxAdmins
    /\ keyRow = [k \in Keys |-> Gone]
    /\ logOrg = [l \in Logs |-> Gone]
    /\ chanOrg = [c \in Channels |-> Gone]
    /\ req = Idle /\ held = {} /\ strays = {}

TypeOK ==
    /\ users \subseteq Users /\ orgs \subseteq Orgs /\ admins \subseteq Users
    /\ deleted \subseteq (Users \ users) \cup (Orgs \ orgs)
    /\ role \in [Users -> [Orgs -> Roles]]
    /\ \A k \in Keys : keyRow[k] \in {Gone} \cup [user : Users \cup {NoUser}, org : Orgs]
    /\ logOrg \in [Logs -> {Gone} \cup Owners]
    /\ chanOrg \in [Channels -> {Gone} \cup Owners]
    /\ req.phase \in {"idle", "admin", "members", "ready"}
    /\ req.scope \in Scopes
    /\ held \subseteq Owners
    /\ strays \subseteq [owners : SUBSET Owners, through : SUBSET Owners]
-----------------------------------------------------------------------------
(* Resolution. What the principal is entitled to at this moment: everything *)
(* as an administrator, its organization as a bound key, otherwise the      *)
(* organizations where its role grants the required scope.                  *)
AdminCounts(q) == q.cred = "session" \/ AdminsApplyToAPIKeys
Bound(q) == q.cred = "api_key" /\ KeyBindsOrganization /\ q.keyOrg # NoOrg

Entitled(q, adm, rl) ==
    IF q.user = NoUser THEN {}
    ELSE IF AdminCounts(q) /\ q.user \in adm THEN Owners
    ELSE IF Bound(q) THEN {q.keyOrg}
    ELSE {o \in Orgs : rl[q.user][o] = "manager"}

(* held is fixed when the scope is resolved, from the tables as they are    *)
(* then, and takes in the unowned rows once the host has admitted them. A   *)
(* resolved request has no principal any more, so nothing else is added.    *)
KeepHeld ==
    held' = IF req'.phase # "ready" THEN {}
            ELSE held \cup Entitled(req, admins, role)
                      \cup {o \in {NoOrg} : req'.scope.unowned}

(* Resolve hands on the scope; the principal plays no part after it. *)
Resolved(s) == [Idle EXCEPT !.phase = "ready", !.scope = s]

Begin(q) ==
    /\ req.phase = "idle"
    /\ req' = [q EXCEPT !.phase = "admin"]
    /\ strays' = {}
    /\ UNCHANGED db

(* A session's principal, or nobody. *)
BeginSession ==
    \E u \in users \cup {NoUser} : Begin([Idle EXCEPT !.user = u])

(* The candidates the presented key is compared with: the unexpired rows of *)
(* its prefix.                                                              *)
GetAPIKeysByPrefix(unexpired) == KeysThere \cap unexpired

(* A key's principal is its owner; the row also carries its organization. *)
BeginAPIKey ==
    \E k \in UNION {GetAPIKeysByPrefix(live) : live \in SUBSET Keys} :
        Begin([Idle EXCEPT !.user = keyRow[k].user, !.cred = "api_key",
                           !.keyOrg = KeyOrg(k)])

(* Resolve, first read. A carrier that is not configured falls through to   *)
(* the memberships; one that does not answer yields the zero scope, which a *)
(* caller that drops the error goes on with.                                *)
ResolveAdmin ==
    /\ req.phase = "admin"
    /\ req' \in
         IF req.user = NoUser THEN {Resolved(ZeroScope)}
         ELSE IF ~AdminCounts(req) THEN {[req EXCEPT !.phase = "members"]}
         ELSE {[req EXCEPT !.phase = "members"],     \* not configured
               Resolved(ZeroScope)}                  \* error
              \cup IF req.user \in admins
                   THEN {Resolved(OrgScopeAllOrganizations)}
                   ELSE {}
    /\ UNCHANGED <<db, strays>>

(* OrgScopeForUser: the organizations whose role template grants it. *)
GetUserMemberships(u) == [o \in Homes(u) |-> role[u][o]]

OrgScopeForUser(u) ==
    OrgScopeOrganizations({o \in Homes(u) : GetUserMemberships(u)[o] = "manager"})

(* Resolve, second read; it may fail too. *)
ResolveMemberships ==
    /\ req.phase = "members"
    /\ \E s \in {ZeroScope,
                 IF Bound(req) THEN OrgScopeOrganizations({req.keyOrg})
                               ELSE OrgScopeForUser(req.user)} :
           req' = Resolved(s)
    /\ UNCHANGED <<db, strays>>

(* The host decides that NULL owners are for everyone who gets this far. *)
Widen ==
    /\ req.phase = "ready" /\ ~req.scope.unowned
    /\ req' = [req EXCEPT !.scope = WithUnowned(@)]
    /\ UNCHANGED <<db, strays>>

(* Scope.Permits: a blank id is refused to everyone but an administrator. *)
Permits(s, o) == s.all \/ (o # NoOrg /\ o \in s.orgIDs)

(* ActingOrganization: the one a create is made in. A named organization    *)
(* must be permitted; without a name there must be exactly one.             *)
ActingOrganization(s, selected) ==
    IF selected # NoOrg
    THEN {o \in {selected} : Permits(s, selected)}
    ELSE {o \in s.orgIDs : ~s.all /\ s.orgIDs = {o}}
-----------------------------------------------------------------------------
(* Every repository call ends the request and notes the owners of the rows  *)
(* its statement reached, or its cascade took along, that the principal was *)
(* not entitled to when its scope was resolved. The operator's calls only   *)
(* change the tables, and one that reaches no row does not even that.       *)
ScopeOf(c) == IF c = "request" THEN req.scope ELSE OrgScopeAllOrganizations

Aside == UNCHANGED <<req, strays>>

Stray(rows, through) ==
    {[owners |-> w, through |-> through \cap held] : w \in {x \in rows : x \cap held = {}}}

\* along: the rows that go with the selected ones, which are owned by through.
AnswerAlong(c, rows, along, through) ==
    /\ c = "request" => req.phase = "ready"
    /\ IF c = "request"
       THEN req' = Idle /\ strays' = Stray(rows, {}) \cup Stray(along, through)
       ELSE rows # {} /\ Aside

Answer(c, rows) == AnswerAlong(c, rows, {}, {})

\* A read, or an update of columns that do not carry tenancy, changes nothing
\* here whoever makes it: only the request's are of interest.
Reaches(rows) == Answer("request", rows) /\ UNCHANGED db

OwnersOf(T, Owner(_)) == {{Owner(r)} : r \in T}
-----------------------------------------------------------------------------
(* users. A user belongs to every organization it is a member of. *)
UserRows(s) ==
    IF MatchesNothing(s) THEN {} ELSE {u \in users : MembershipSQL(s, Homes(u))}

MemberRows(s) == {m \in Members : InScope(s, MemberOrg(m))}

UserTouch(U) == {UserOwners(u) : u \in U}

GetUserByID(u) == Reaches(UserTouch(UserRows(req.scope) \cap {u}))

listUsersPage(s) == UserTouch(UserRows(s))

\* The total counts the same rows the page is taken from.
ListUsers == Reaches(listUsersPage(req.scope))

CountUsers == Reaches(UserTouch(UserRows(req.scope)))

SearchUsers(match) == Reaches(UserTouch(UserRows(req.scope) \cap match))

\* Beside the user only the memberships inside the scope are returned.
loadMembershipsForUsers(s, U) ==
    OwnersOf({m \in MemberRows(s) : m[1] \in U}, MemberOrg)

GetUserWithOrgRoles(u) ==
    LET U == UserRows(req.scope) \cap {u}
    IN  Reaches(UserTouch(U) \cup loadMembershipsForUsers(req.scope, U))

ListUsersWithMemberships ==
    LET U == UserRows(req.scope)
    IN  Reaches(UserTouch(U) \cup loadMembershipsForUsers(req.scope, U))

SearchWithMemberships(match) ==
    LET U == UserRows(req.scope) \cap match
    IN  Reaches(UserTouch(U) \cup loadMembershipsForUsers(req.scope, U))

\* Unscoped by design: only the operator makes a user.
CreateUser(u) ==
    /\ u \notin users \cup deleted
    /\ users' = users \cup {u}
    /\ Aside
    /\ UNCHANGED <<orgs, deleted, role, admins, keyRow, logOrg, chanOrg>>

\* A rewrite of the identity columns: the row stays where it is.
UpdateUser(u) == Reaches(UserTouch(UserRows(req.scope) \cap {u}))

CascadeUserSetNull(U) ==     \* mutant: ON DELETE SET NULL on api_keys.user_id
    /\ users' = users \ U /\ deleted' = deleted \cup U
    /\ role' = [u \in Users |-> IF u \in U THEN [o \in Orgs |-> "none"]
                                           ELSE role[u]]
    /\ keyRow' = [k \in Keys |-> IF k \in KeysThere /\ keyRow[k].user \in U
                                 THEN [keyRow[k] EXCEPT !.user = NoUser] ELSE keyRow[k]]
    /\ UNCHANGED logOrg

\* What goes with a user, in every organization: its memberships and its keys.
\* Its denied tokens go too (TokenDenylist!DeleteUserCascades); its audit rows
\* stay.
CascadeTouch(U) ==
    OwnersOf({m \in Members : m[1] \in U}, MemberOrg)
        \cup OwnersOf({k \in KeysThere : keyRow[k].user \in U}, KeyOrg)

CascadeUser(U) ==
    /\ users' = users \ U /\ deleted' = deleted \cup U
    /\ role' = [u \in Users |-> IF u \in U THEN [o \in Orgs |-> "none"]
                                           ELSE role[u]]
    /\ keyRow' = [k \in Keys |-> IF k \in KeysThere /\ keyRow[k].user \in U
                                 THEN Gone ELSE keyRow[k]]
    /\ UNCHANGED logOrg

\* The scope selects the user row; the cascade asks for no scope.
DeleteUser(c, u) ==
    LET U == UserRows(ScopeOf(c)) \cap {u}
    IN  /\ AnswerAlong(c, UserTouch(U), CascadeTouch(U), UNION UserTouch(U))
        /\ CascadeUser(U)
        /\ UNCHANGED <<orgs, admins, chanOrg>>
-----------------------------------------------------------------------------
(* organizations and their members. The writes of an organization row also  *)
(* invalidate the default-organization cache (module DefaultOrgCache).      *)
OrgRows(s) == {o \in orgs : InScope(s, o)}
OrgTouch(O) == OwnersOf(O, OrgItself)

GetByID(o)   == Reaches(OrgTouch(OrgRows(req.scope) \cap {o}))
GetByName(o) == Reaches(OrgTouch(OrgRows(req.scope) \cap {o}))
ListOrgs     == Reaches(OrgTouch(OrgRows(req.scope)))
CountOrgs    == Reaches(OrgTouch(OrgRows(req.scope)))
SearchOrgs(match) == Reaches(OrgTouch(OrgRows(req.scope) \cap match))
UpdateOrg(o) == Reaches(OrgTouch(OrgRows(req.scope) \cap {o}))
RenameOrg(o) == Reaches(OrgTouch(OrgRows(req.scope) \cap {o}))

CreateOrg(o) ==
    /\ o \notin orgs \cup deleted
    /\ orgs' = orgs \cup {o}
    /\ Aside
    /\ UNCHANGED <<users, deleted, role, admins, keyRow, logOrg, chanOrg>>

\* What goes with an organization: its own memberships and keys, so the cascade
\* reaches no further owner; audit rows keep the id.
CascadeOrg(O) ==
    /\ orgs' = orgs \ O /\ deleted' = deleted \cup O
    /\ role' = [u \in Users |-> [o \in Orgs |-> IF o \in O THEN "none"
                                                           ELSE role[u][o]]]
    /\ keyRow' = [k \in Keys |-> IF k \in KeysThere /\ keyRow[k].org \in O
                                 THEN Gone ELSE keyRow[k]]
    /\ UNCHANGED logOrg

DeleteOrg(c, o) ==
    LET O == OrgRows(ScopeOf(c)) \cap {o}
    IN  /\ Answer(c, OrgTouch(O))
        /\ CascadeOrg(O)
        /\ UNCHANGED <<users, admins, chanOrg>>

SetRole(O, u, r) ==
    /\ role' = [role EXCEPT ![u] = [o \in Orgs |-> IF o \in O THEN r ELSE @[o]]]
    /\ UNCHANGED <<users, orgs, deleted, admins, keyRow, logOrg, chanOrg>>

\* INSERT ... SELECT from organizations: the scope is on the organization. The
\* user must exist (foreign key) and not be a member (unique).
AddMemberWithRoleTemplate(c, o, u, r) ==
    LET O == {x \in OrgRows(ScopeOf(c)) \cap {o} :
                  u \in users /\ role[u][x] = "none"}
    IN  Answer(c, OrgTouch(O)) /\ SetRole(O, u, r)

\* The same with the template's name looked up first; without it, an error.
AddMemberWithParams(c, o, u) ==
    \E r \in {"member", "manager"} : AddMemberWithRoleTemplate(c, o, u, r)

MemberOf(c, o, u) == {x[2] : x \in MemberRows(ScopeOf(c)) \cap {<<u, o>>}}

RemoveMember(c, o, u) ==
    Answer(c, OrgTouch(MemberOf(c, o, u))) /\ SetRole(MemberOf(c, o, u), u, "none")

UpdateMemberRoleTemplate(c, o, u, r) ==
    Answer(c, OrgTouch(MemberOf(c, o, u))) /\ SetRole(MemberOf(c, o, u), u, r)

UpdateMemberRole(c, o, u) ==
    \E r \in {"member", "manager"} : UpdateMemberRoleTemplate(c, o, u, r)

\* It answers with the organizations it removed a membership from.
RemoveAllMembershipsForUser(c, u) ==
    LET O == {m[2] : m \in {x \in MemberRows(ScopeOf(c)) : x[1] = u}}
    IN  Answer(c, OrgTouch(O)) /\ SetRole(O, u, "none")

GetMember(o, u)         == Reaches(OrgTouch(MemberOf("request", o, u)))
GetMemberWithRole(o, u) == Reaches(OrgTouch(MemberOf("request", o, u)))
CheckMembership(o, u)   == Reaches(OrgTouch(MemberOf("request", o, u)))

MembersIn(o) == {m \in MemberRows(req.scope) : m[2] = o}
ListMembers(o)          == Reaches(OwnersOf(MembersIn(o), MemberOrg))
ListMembersWithUsers(o) == Reaches(OwnersOf(MembersIn(o), MemberOrg))

GetUserOrganizations(u) ==
    Reaches(OwnersOf({m \in MemberRows(req.scope) : m[1] = u}, MemberOrg))
-----------------------------------------------------------------------------
(* api_keys. *)
KeyRows(s) == {k \in KeysThere : InScope(s, KeyOrg(k))}
KeyTouch(K) == OwnersOf(K, KeyOrg)
KeysOf(c, u) == {k \in KeyRows(ScopeOf(c)) : keyRow[k].user = u}
KeysIn(c, o) == {k \in KeyRows(ScopeOf(c)) : keyRow[k].org = o}

\* The bound on the rows of the three tables together (model only).
RoomForRow ==
    Cardinality(KeysThere) + Cardinality(LogsThere) + Cardinality(ChansThere) < MaxRows

\* INSERT ... SELECT from organizations, in the organization acted in. A key
\* without a user is a service credential.
CreateAPIKey(c, k, u, selected) ==
    LET acting == IF c = "request" THEN ActingOrganization(req.scope, selected)
                                   ELSE {selected}
        O == {o \in OrgRows(ScopeOf(c)) \cap acting :
                  u \in users \cup {NoUser} /\ k \notin KeysThere /\ RoomForRow}
    IN  /\ Answer(c, OrgTouch(O))
        /\ keyRow' = [keyRow EXCEPT ![k] =
                          IF O = {} THEN @
                          ELSE [user |-> u, org |-> CHOOSE o \in O : TRUE]]
        /\ UNCHANGED <<users, orgs, deleted, role, admins, logOrg, chanOrg>>

GetAPIKeyByID(k)             == Reaches(KeyTouch(KeyRows(req.scope) \cap {k}))
UpdateAPIKey(k)              == Reaches(KeyTouch(KeyRows(req.scope) \cap {k}))
ListAPIKeysByUser(u)         == Reaches(KeyTouch(KeysOf("request", u)))
ListAPIKeysByOrganization(o) == Reaches(KeyTouch(KeysIn("request", o)))
ListByUserAndOrganization(u, o) ==
    Reaches(KeyTouch(KeysOf("request", u) \cap KeysIn("request", o)))
ListAPIKeys                  == Reaches(KeyTouch(KeyRows(req.scope)))

DropKeys(c, K) ==
    /\ Answer(c, KeyTouch(K))
    /\ keyRow' = [k \in Keys |-> IF k \in K THEN Gone ELSE keyRow[k]]
    /\ UNCHANGED <<users, orgs, deleted, role, admins, logOrg, chanOrg>>

RevokeAPIKey(c, k)         == DropKeys(c, KeyRows(ScopeOf(c)) \cap {k})
RevokeAPIKeysForUser(c, u) == DropKeys(c, KeysOf(c, u))

\* The host's clean-up: every organization's keys, whatever has expired.
DeleteExpiredKeys(expired) == DropKeys("operator", KeysThere \cap expired)
-----------------------------------------------------------------------------
(* audit_logs: an owner is written once and never again. *)
LogRows(s) == {l \in LogsThere : InScope(s, LogOrg(l))}
LogTouch(L) == OwnersOf(L, LogOrg)

\* The host names the owner, or none; the repository takes it as it is.
CreateAuditLog(l, o) ==
    /\ l \notin LogsThere /\ RoomForRow
    /\ logOrg' = [logOrg EXCEPT ![l] = o]
    /\ Aside
    /\ UNCHANGED <<users, orgs, deleted, role, admins, keyRow, chanOrg>>

\* The scope is spliced before the caller's filters, which only narrow it.
buildListAuditLogsQueries(s, filter) == LogRows(s) \cap filter

ListAuditLogs(filter) ==
    Reaches(LogTouch(buildListAuditLogsQueries(req.scope, filter)))

GetAuditLog(l) == Reaches(LogTouch(LogRows(req.scope) \cap {l}))

\* No early return here: the predicate alone must select nothing.
StreamAuditLogs ==
    Reaches(LogTouch({l \in LogsThere : SQL(req.scope, LogOrg(l))}))
-----------------------------------------------------------------------------
(* notification_channels of a host that scopes them: every query is given   *)
(* the scope, and none of them returns early.                               *)
splice(s) == {ch \in ChansThere : SQL(s, ChanOrg(ch))}
ChanTouch(C) == OwnersOf(C, ChanOrg)

\* The owner is the organization acted in; an empty one is refused.
CreateChannel(c, ch, selected) ==
    LET acting == IF c = "request" THEN ActingOrganization(req.scope, selected)
                                   ELSE {selected} \ {NoOrg}
        O == IF ch \in ChansThere \/ ~RoomForRow THEN {} ELSE acting
    IN  /\ Answer(c, OrgTouch(O))
        /\ chanOrg' = [chanOrg EXCEPT ![ch] =
                           IF O = {} THEN @ ELSE CHOOSE o \in O : TRUE]
        /\ UNCHANGED <<users, orgs, deleted, role, admins, keyRow, logOrg>>

ListChannels         == Reaches(ChanTouch(splice(req.scope)))
GetChannelByID(ch)   == Reaches(ChanTouch(splice(req.scope) \cap {ch}))
UpdateChannel(ch)    == Reaches(ChanTouch(splice(req.scope) \cap {ch}))

DeleteChannel(c, ch) ==
    LET C == splice(ScopeOf(c)) \cap {ch}
    IN  /\ Answer(c, ChanTouch(C))
        /\ chanOrg' = [x \in Channels |-> IF x \in C THEN Gone ELSE chanOrg[x]]
        /\ UNCHANGED <<users, orgs, deleted, role, admins, keyRow, logOrg>>

ListEnabledForEvent(enabled) == Reaches(ChanTouch(splice(req.scope) \cap enabled))
-----------------------------------------------------------------------------
(* A platform administrator comes or goes (module PlatformAdmin). *)
ChangeAdmins(u) ==
    /\ admins' = IF u \in admins THEN admins \ {u} ELSE admins \cup {u}
    /\ u \in admins \/ Cardinality(admins) < MaxAdmins
    /\ Aside
    /\ UNCHANGED <<users, orgs, deleted, role, keyRow, logOrg, chanOrg>>

Resolution == BeginSession \/ BeginAPIKey \/ ResolveAdmin \/ ResolveMemberships \/ Widen

UserReads ==
    \/ \E u \in Users : GetUserByID(u) \/ GetUserWithOrgRoles(u) \/ UpdateUser(u)
    \/ \E m \in SUBSET Users : SearchUsers(m) \/ SearchWithMemberships(m)
    \/ ListUsers \/ CountUsers \/ ListUsersWithMemberships

OrgReads ==
    \/ \E o \in Orgs : GetByID(o) \/ GetByName(o) \/ UpdateOrg(o) \/ RenameOrg(o)
                           \/ ListMembers(o) \/ ListMembersWithUsers(o)
    \/ \E m \in SUBSET Orgs : SearchOrgs(m)
    \/ ListOrgs \/ CountOrgs
    \/ \E o \in Orgs, u \in Users :
           GetMember(o, u) \/ GetMemberWithRole(o, u) \/ CheckMembership(o, u)
    \/ \E u \in Users : GetUserOrganizations(u)

KeyReads ==
    \/ \E k \in Keys : GetAPIKeyByID(k) \/ UpdateAPIKey(k)
    \/ \E u \in Users : ListAPIKeysByUser(u)
    \/ \E o \in Orgs : ListAPIKeysByOrganization(o)
    \/ \E u \in Users, o \in Orgs : ListByUserAndOrganization(u, o)
    \/ ListAPIKeys

RecordReads ==
    \/ \E l \in Logs : GetAuditLog(l)
    \/ \E f \in SUBSET Logs : ListAuditLogs(f)
    \/ StreamAuditLogs
    \/ \E ch \in Channels : GetChannelByID(ch) \/ UpdateChannel(ch)
    \/ \E en \in SUBSET Channels : ListEnabledForEvent(en)
    \/ ListChannels

Writes(c) ==
    \/ \E u \in Users : \/ DeleteUser(c, u) \/ RemoveAllMembershipsForUser(c, u)
                        \/ RevokeAPIKeysForUser(c, u)
    \/ \E o \in Orgs : DeleteOrg(c, o)
    \/ \E o \in Orgs, u \in Users :
           \/ AddMemberWithParams(c, o, u) \/ RemoveMember(c, o, u)
           \/ UpdateMemberRole(c, o, u)
    \/ \E k \in Keys : RevokeAPIKey(c, k)
    \/ \E k \in Keys, u \in Users \cup {NoUser}, o \in Owners : CreateAPIKey(c, k, u, o)
    \/ \E ch \in Channels, o \in Owners : CreateChannel(c, ch, o)
    \/ \E ch \in Channels : DeleteChannel(c, ch)

Platform ==
    \/ \E u \in Users : CreateUser(u)
    \/ \E o \in Orgs : CreateOrg(o)
    \/ \E l \in Logs, o \in Owners : CreateAuditLog(l, o)
    \/ \E u \in Users : ChangeAdmins(u)
    \/ \E X \in SUBSET Keys : DeleteExpiredKeys(X)

Next ==
    /\ \/ Resolution \/ Platform
       \/ UserReads \/ OrgReads \/ KeyReads \/ RecordReads
       \/ \E c \in Callers : Writes(c)
    /\ KeepHeld

Spec == Init /\ [][Next]_vars
-----------------------------------------------------------------------------
(* No statement of a repository call selects a row of an organization its   *)
(* principal was not entitled to at the moment its scope was resolved: a    *)
(* scope may be stale when used, but no sequence of lookups, failed or not, *)
(* widens it; a scope without organizations reaches nothing rather than     *)
(* everything, and a create never lands in an organization the caller did   *)
(* not resolve. The one way to a row of somebody else is the cascade of a   *)
(* scoped DeleteUser: it takes the account's memberships and keys in every  *)
(* organization, but only of an account that an organization of the         *)
(* principal shares. The comment on DeleteUser (user_repository.go:266-268) *)
(* names that loss as the harm of an unscoped delete; the scope confines it *)
(* to shared accounts and does not end it.                                  *)
NoStrayAccess == \A s \in strays : s.through # {}

(* Deleting a user or an organization never re-homes what survives it: no   *)
(* row that stays changes its owner, and no key is left without its user    *)
(* or its organization, where it would read as a service credential.        *)
DeletesDoNotRehome ==
    [][ /\ \A k \in Keys : keyRow[k] # Gone /\ keyRow'[k] # Gone
                               => keyRow'[k] = keyRow[k]
        /\ \A l \in Logs : logOrg[l] # Gone => logOrg'[l] = logOrg[l]
        /\ \A ch \in Channels : chanOrg[ch] # Gone /\ chanOrg'[ch] # Gone
                               => chanOrg'[ch] = chanOrg[ch]
        /\ \A k \in Keys : keyRow'[k] # Gone
                               => /\ keyRow'[k].user \in users' \cup {NoUser}
                                  /\ keyRow'[k].org \in orgs'
      ]_vars
===============================================================================
