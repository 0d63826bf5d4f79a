------------------------------- MODULE OrgScope -------------------------------
(***************************************************************************)
(* The tenant scope every scoped accessor takes (store.OrgScope): what it   *)
(* holds, how it is built and which rows its two SQL predicates select.     *)
(* The zero scope selects nothing: "every organization" is only ever        *)
(* reached through the flag OrgScopeAllOrganizations sets.                  *)
(***************************************************************************)
CONSTANTS Orgs,     \* organization ids
          NoOrg     \* the NULL (or empty) organization id

ASSUME ScopeAssumption == NoOrg \notin Orgs
-----------------------------------------------------------------------------
Scopes == [orgIDs : SUBSET Orgs, all : BOOLEAN, unowned : BOOLEAN]

\* Empty ids are dropped; order and duplicates are the set's business.
OrgScopeOrganizations(ids) ==
    [orgIDs |-> ids \ {NoOrg}, all |-> FALSE, unowned |-> FALSE]

ZeroScope == OrgScopeOrganizations({})

WithUnowned(s) == [s EXCEPT !.unowned = TRUE]

OrgScopeAllOrganizations == [ZeroScope EXCEPT !.all = TRUE]

MatchesNothing(s) == ~s.all /\ s.orgIDs = {} /\ ~s.unowned

(* The in-memory decision about one owner; a row without one is unowned. *)
PermitsOrganization(s, o) ==
    \/ s.all
    \/ o = NoOrg /\ s.unowned
    \/ o \in s.orgIDs

(* The column predicate, by the shape of the text the method renders:       *)
(* TRUE, FALSE, IS NULL, = ANY, or = ANY OR IS NULL. NULL = ANY(...) is not *)
(* true, whatever the array holds.                                          *)
SQLFailingOpen(s, o) ==      \* mutant: no organizations renders no filter
    \/ s.all \/ s.orgIDs = {}
    \/ o \in s.orgIDs \/ (s.unowned /\ o = NoOrg)

SQL(s, o) ==
    LET isNull == o = NoOrg
        anyOf  == ~isNull /\ o \in s.orgIDs
    IN  CASE s.all                        -> TRUE
          [] ~s.all /\ s.orgIDs = {}      -> s.unowned /\ isNull
          [] ~s.all /\ s.orgIDs # {}      -> anyOf \/ (s.unowned /\ isNull)

(* The predicate on the users table, over the organizations the user is a   *)
(* member of; "unowned" is a user without any membership.                   *)
MembershipSQL(s, homes) ==
    \/ s.all
    \/ s.orgIDs \cap homes # {}
    \/ s.unowned /\ homes = {}

(* Whether an accessor reaches a row of this owner: none at once under a    *)
(* scope that matches nothing, otherwise those the predicate keeps.         *)
InScope(s, o) == ~MatchesNothing(s) /\ SQL(s, o)
===============================================================================
