-------------------------------- MODULE SignIn --------------------------------
(***************************************************************************)
(* Signing in through an identity provider: auth/oidc begins a login and    *)
(* verifies its callback, store.UserRepository finds or makes the account.  *)
(* Logins run concurrently, the browser may bring a callback the code of    *)
(* another login, and an administrator edits accounts in between. Every     *)
(* database statement is a step of its own.                                 *)
(*                                                                         *)
(* A login stands for its nonce and its PKCE verifier, both drawn at random *)
(* when it begins; NoLogin is the empty nonce and the empty verifier. The   *)
(* one-time state is module OneTimeTokens: here it is redeemed once.        *)
(***************************************************************************)
EXTENDS Integers, FiniteSets

CONSTANTS Logins, NoLogin,
          Subs, NoSub,             \* subjects of the provider; NULL oidc_sub
          Emails, NoEmail,
          Accounts, NoAccount,     \* account ids
          MaxEdits                 \* bound: administrator's edits

VARIABLES
    provider,    \* "none", "oauth" (no verifier) or "oidc"
    code,        \* [Logins + NoLogin -> Subs + NoSub]: who authenticated
    sign,        \* [Logins -> ...]: the callback's progress
    acct,        \* users: [Accounts -> a row, Unused or Deleted]
    edits,       \* edits made so far
    edited       \* the accounts edited while a sign-in was between statements

signInVars == <<provider, code, sign, acct, edits, edited>>
-----------------------------------------------------------------------------
(* The provider. An endpoint is absent, or reached by https, by http, or    *)
(* refused by the egress guard.                                             *)
Endpoints == {"absent", "https", "http", "refused"}
Documents == [token : Endpoints, jwks : Endpoints,
              authorization : Endpoints, endSession : Endpoints]
Configs   == [complete : BOOLEAN, allowInsecure : BOOLEAN,
              issuer : {"https", "http"}, redirect : {"absent", "https", "http"},
              callerClient : BOOLEAN]

checkDiscoveredScheme(cfg, ep) == cfg.allowInsecure \/ ep \in {"https", "refused"}

validateDiscoveredEndpoints(cfg, doc) ==
    /\ \A ep \in {doc.token, doc.jwks} :
           ep \notin {"absent", "refused"} /\ checkDiscoveredScheme(cfg, ep)
    /\ \A ep \in {doc.authorization, doc.endSession} \ {"absent"} :
           checkDiscoveredScheme(cfg, ep)

NewProviderWithContext(cfg, doc) ==
    IF /\ cfg.complete
       /\ cfg.allowInsecure \/ (cfg.issuer = "https" /\ cfg.redirect # "http")
       /\ ~cfg.callerClient
       /\ validateDiscoveredEndpoints(cfg, doc)
    THEN "oidc" ELSE "none"

NewProviderForConfig == "oauth"
-----------------------------------------------------------------------------
NotYet == [step |-> "new", store |-> "none", sub |-> NoSub, party |-> "none",
           email |-> NoEmail, verified |-> FALSE, seen |-> NoAccount]

Row(e, s) == [state |-> "live", email |-> e, sub |-> s]
Unused    == [state |-> "unused", email |-> NoEmail, sub |-> NoSub]
Deleted   == [Unused EXCEPT !.state = "deleted"]
Live == {a \in Accounts : acct[a].state = "live"}

SignInInit ==
    /\ provider \in {NewProviderWithContext(cfg, doc) :
                        cfg \in Configs, doc \in Documents} \cup {NewProviderForConfig}
    /\ code = [l \in Logins \cup {NoLogin} |-> NoSub]
    /\ sign = [p \in Logins |-> NotYet]
    /\ acct \in [Accounts -> {Unused} \cup {Row(e, s) : e \in Emails, s \in Subs \cup {NoSub}}]
    /\ \A a, b \in Live : a # b => /\ acct[a].email # acct[b].email
                                   /\ acct[a].sub = acct[b].sub => acct[a].sub = NoSub
    /\ Cardinality(Live) =< 1
    /\ edits = 0
    /\ edited = {}

Go(p, next) == sign' = [sign EXCEPT ![p] = next]
At(p, step) == sign[p].step = step
Refuse(p) == Go(p, [NotYet EXCEPT !.step = "refused"])
Done(p, a) == Go(p, [NotYet EXCEPT !.step = "done", !.seen = a])
-----------------------------------------------------------------------------
(* The two ways to begin: the session is kept in the state store, or handed *)
(* to the host to keep.                                                     *)
Leave(p, store) ==
    /\ provider # "none" /\ At(p, "new")
    /\ Go(p, [sign[p] EXCEPT !.step = "away", !.store = store])
    /\ UNCHANGED <<provider, code, acct, edits, edited>>

BeginAuthSession(p) == Leave(p, "manager")
BeginAuth(p)        == Leave(p, "host")

(* External: someone authenticates for the request of a login, or for one   *)
(* the provider began by itself, which carries no nonce.                    *)
Authenticate(l, s) ==
    /\ code[l] = NoSub
    /\ l \in Logins => At(l, "away")
    /\ code' = [code EXCEPT ![l] = s]
    /\ UNCHANGED <<provider, sign, acct, edits, edited>>

(* What the token endpoint answers: an ID token or none, for whom it was    *)
(* issued, and the claims.                                                  *)
Responses == [idToken : BOOLEAN, aud : SUBSET {"us", "them"},
              azp : {"absent", "malformed", "us", "them"}]
Claims == [sub : BOOLEAN, email : Emails \cup {NoEmail}, upn : Emails \cup {NoEmail},
           emailVerified : {"absent", "true", "string_true", "other"}]

\* The client a response is for, as far as it says so.
IssuedTo(r) ==
    IF r.azp # "absent" THEN r.azp
    ELSE IF r.aud = {"us"} THEN "us" ELSE "unknown"

checkAuthorizedPartyClaims(r) ==
    IF r.azp # "absent" THEN r.azp = "us" ELSE Cardinality(r.aud) =< 1

(* The exchange: the provider checks the verifier against the code's        *)
(* challenge if it implements PKCE at all, the library the signature and    *)
(* the audience, this code the nonce and the authorized party.              *)
ExchangeWithoutNonce(session, l, r, pkce) ==     \* mutant
    /\ provider = "oidc"
    /\ session # NoLogin
    /\ pkce => l = session
    /\ r.idToken
    /\ "us" \in r.aud
    /\ checkAuthorizedPartyClaims(r)

ExchangeAndVerify(session, l, r, pkce) ==
    /\ provider = "oidc"
    /\ session # NoLogin
    /\ pkce => l = session
    /\ r.idToken
    /\ "us" \in r.aud
    /\ l = session                \* the nonce of the code's request
    /\ checkAuthorizedPartyClaims(r)

boolClaim(v) == v \in {"true", "string_true"}

\* The address to go by, and whether the provider vouches for it: only the
\* email claim can be verified, a fallback never is.
ExtractUserInfo(c) ==
    IF ~c.sub THEN {}
    ELSE IF c.email # NoEmail
    THEN {[email |-> c.email, verified |-> boolClaim(c.emailVerified)]}
    ELSE {[email |-> e, verified |-> FALSE] : e \in {c.upn} \ {NoEmail}}

CompleteAuthSession(p) ==
    IF sign[p].store = "manager" THEN {p} ELSE {p, NoLogin}

(* The callback: the state is redeemed, the code exchanged, the identity    *)
(* read. Any refusal ends the login.                                        *)
Identities == UNION {ExtractUserInfo(c) : c \in Claims}

Accepted(session, l) ==
    {r \in Responses : \E pkce \in BOOLEAN : ExchangeAndVerify(session, l, r, pkce)}

Callback(p) ==
    /\ At(p, "away")
    /\ \E l \in {x \in DOMAIN code : code[x] # NoSub}, session \in CompleteAuthSession(p) :
         \/ \E party \in {IssuedTo(r) : r \in Accepted(session, l)}, id \in Identities :
               Go(p, [sign[p] EXCEPT !.step = "bySub", !.store = "none",
                                     !.sub = code[l], !.party = party,
                                     !.email = id.email, !.verified = id.verified])
         \/ Refuse(p)          \* no response, one not accepted, or no identity in it
    /\ UNCHANGED <<provider, code, acct, edits, edited>>
-----------------------------------------------------------------------------
(* GetOrCreateUserFromOIDC, one statement at a time. *)
BySub(s)   == {a \in Live : acct[a].sub = s}
ByEmail(e) == {a \in Live : acct[a].email = e}

\* The unique constraints on email and oidc_sub, for row a.
NoConflict(a, e, s) ==
    /\ ByEmail(e) \subseteq {a}
    /\ s # NoSub => BySub(s) \subseteq {a}

GetUserByOIDCSub(p) ==
    /\ At(p, "bySub")
    /\ IF BySub(sign[p].sub) = {}
       THEN Go(p, [sign[p] EXCEPT !.step = "byEmail"])
       ELSE \E a \in BySub(sign[p].sub) :
              \/ acct[a].email = sign[p].email /\ Done(p, a)
              \/ Go(p, [sign[p] EXCEPT !.step = "update", !.seen = a])  \* email or name changed
    /\ UNCHANGED <<provider, code, acct, edits, edited>>

\* UpdateUser writes the row back, the subject it read included.
SyncProfile(p) ==
    LET a == sign[p].seen
    IN  /\ At(p, "update")
        /\ IF a \in Live /\ NoConflict(a, sign[p].email, sign[p].sub)
           THEN /\ acct' = [acct EXCEPT ![a] = Row(sign[p].email, sign[p].sub)]
                /\ Done(p, a)
           ELSE Refuse(p) /\ UNCHANGED acct
        /\ UNCHANGED <<provider, code, edits, edited>>

GetUserByEmail(p) ==
    /\ At(p, "byEmail")
    /\ IF ~sign[p].verified THEN Refuse(p)
       ELSE IF ByEmail(sign[p].email) = {} THEN Go(p, [sign[p] EXCEPT !.step = "insert"])
       ELSE \E a \in ByEmail(sign[p].email) :
              IF acct[a].sub \notin {NoSub, sign[p].sub} THEN Refuse(p)
              ELSE Go(p, [sign[p] EXCEPT !.step = "link", !.seen = a])
    /\ UNCHANGED <<provider, code, acct, edits, edited>>

\* UPDATE ... WHERE oidc_sub IS NULL: whoever comes second changes nothing.
linkUnconditionally(p) ==     \* mutant: no IS NULL in the WHERE clause
    LET a == sign[p].seen
    IN  /\ At(p, "link")
        /\ IF a \in Live /\ NoConflict(a, sign[p].email, sign[p].sub)
           THEN /\ acct' = [acct EXCEPT ![a] = Row(sign[p].email, sign[p].sub)]
                /\ Done(p, a)
           ELSE Refuse(p) /\ UNCHANGED acct
        /\ UNCHANGED <<provider, code, edits, edited>>

linkOIDCIdentity(p) ==
    LET a == sign[p].seen
    IN  /\ At(p, "link")
        /\ IF ~(a \in Live /\ acct[a].sub = NoSub)
           THEN Go(p, [sign[p] EXCEPT !.step = "winner"]) /\ UNCHANGED acct
           ELSE IF NoConflict(a, sign[p].email, sign[p].sub)
           THEN /\ acct' = [acct EXCEPT ![a] = Row(sign[p].email, sign[p].sub)]
                /\ Done(p, a)
           ELSE Refuse(p) /\ UNCHANGED acct
        /\ UNCHANGED <<provider, code, edits, edited>>

ReadWinner(p) ==
    LET a == sign[p].seen
    IN  /\ At(p, "winner")
        /\ IF a \in Live /\ acct[a].sub \in {NoSub, sign[p].sub} THEN Done(p, a) ELSE Refuse(p)
        /\ UNCHANGED <<provider, code, acct, edits, edited>>

\* ON CONFLICT (oidc_sub) DO NOTHING; a taken email is a unique violation.
InsertUser(p) ==
    /\ At(p, "insert")
    /\ IF BySub(sign[p].sub) \cup ByEmail(sign[p].email) # {}
       THEN Go(p, [sign[p] EXCEPT !.step = "inserted"]) /\ UNCHANGED acct
       ELSE \E a \in {x \in Accounts : acct[x] = Unused} :
              /\ acct' = [acct EXCEPT ![a] = Row(sign[p].email, sign[p].sub)]
              /\ Done(p, a)
    /\ UNCHANGED <<provider, code, edits, edited>>

ReadInserted(p) ==
    /\ At(p, "inserted")
    /\ \/ \E a \in BySub(sign[p].sub) : Done(p, a)
       \/ BySub(sign[p].sub) = {} /\ Refuse(p)
    /\ UNCHANGED <<provider, code, acct, edits, edited>>

Statements == {"bySub", "update", "byEmail", "link", "winner", "insert", "inserted"}

\* Any statement may fail: the login is refused and the row stays.
StatementFails(p) ==
    /\ sign[p].step \in Statements
    /\ Refuse(p)
    /\ UNCHANGED <<provider, code, acct, edits, edited>>
-----------------------------------------------------------------------------
(* The administrator: invites, re-links or unlinks, deletes. *)
Edit(a, row) ==
    /\ edits < MaxEdits
    /\ edits' = edits + 1
    /\ acct' = [acct EXCEPT ![a] = row]
    /\ edited' = edited \cup {x \in {a} : \E p \in Logins : sign[p].step \in Statements}
    /\ UNCHANGED <<provider, code, sign>>

Invite(a, e) ==
    acct[a] = Unused /\ NoConflict(a, e, NoSub) /\ Edit(a, Row(e, NoSub))

AdminUpdate(a, e, s) ==
    a \in Live /\ acct[a] # Row(e, s) /\ NoConflict(a, e, s) /\ Edit(a, Row(e, s))

AdminDelete(a) == a \in Live /\ Edit(a, Deleted)

Statement(p) ==
    \/ GetUserByOIDCSub(p) \/ SyncProfile(p) \/ GetUserByEmail(p) \/ linkOIDCIdentity(p)
    \/ ReadWinner(p) \/ InsertUser(p) \/ ReadInserted(p) \/ StatementFails(p)

SignInNext ==
    \/ \E p \in Logins : BeginAuthSession(p) \/ BeginAuth(p) \/ Callback(p) \/ Statement(p)
    \/ \E l \in Logins \cup {NoLogin}, s \in Subs : Authenticate(l, s)
    \/ \E a \in Accounts, e \in Emails : Invite(a, e)
    \/ \E a \in Accounts, e \in Emails, s \in Subs \cup {NoSub} : AdminUpdate(a, e, s)
    \/ \E a \in Accounts : AdminDelete(a)

SignInSpec == SignInInit /\ [][SignInNext]_signInVars
-----------------------------------------------------------------------------
(* A callback that is accepted carries the identity of whoever authenticated *)
(* for the login it answers, in a token issued to this client: never the     *)
(* code of another login, nor one of a login the provider began.             *)
CallbackMatchesLogin ==
    \A p \in Logins : sign[p].sub # NoSub =>
        sign[p].sub = code[p] /\ sign[p].party = "us"

(* Sign-ins, whatever their interleaving, never move an account from one     *)
(* subject to another, bind one only on a verified address, and end in an    *)
(* account that is bound to their own subject. The exception is an account   *)
(* an administrator edited while a sign-in was between two statements: the   *)
(* sign-in's write of a row it read earlier can undo that edit.              *)
OneSubjectPerAccount ==
    [][\A p \in Logins : Statement(p) =>
        /\ \A a \in Accounts \ edited : acct'[a] # acct[a] =>
              /\ acct'[a].sub = sign[p].sub
              /\ a \in Live => acct[a].sub \in {NoSub, sign[p].sub}
              /\ a \in BySub(sign[p].sub) \/ sign[p].verified
        /\ sign'[p].step = "done" /\ sign'[p].seen \notin edited =>
              acct'[sign'[p].seen].sub = sign[p].sub
      ]_signInVars
===============================================================================
