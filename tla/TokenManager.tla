------------------------------ MODULE TokenManager ----------------------------
(***************************************************************************)
(* auth.TokenManager: session tokens are signed and validated while the     *)
(* secret is rotated. The manager keeps its two secrets in atomic pointers: *)
(* every load and every store is a step. One token is followed, and the     *)
(* requests that present it; whether it has expired is a flag here (the     *)
(* clocks are module TokenDenylist).                                        *)
(***************************************************************************)
EXTENDS Integers

CONSTANTS Rotators,          \* goroutines that rotate the secret
          MaxSecret          \* bound: secrets there ever are

VARIABLES
    current, previous,  \* the manager's secrets; 0 is the empty or nil one
    secrets,            \* how many secrets there have been
    rot,                \* [Rotators -> [step, cur, alone]]
    allowed, audience,  \* the accepted issuers, and the audience ("any": not set)
    token,              \* the token followed
    request,            \* the request that presents it
    excused             \* secrets whose tokens may be refused: see Retire

managerVars == <<current, previous, secrets, rot, allowed, audience, token, request, excused>>

config == <<allowed, audience>>

Resting   == [step |-> "idle", cur |-> 0, alone |-> TRUE]
NoToken   == [secret |-> 0, iss |-> "us", aud |-> "any", expired |-> FALSE]
NoRequest == [step |-> "none", why |-> "none"]
-----------------------------------------------------------------------------
(* A manager on its own accepts every issuer; a coupled one names its       *)
(* siblings, itself among them, and the audience they share.                *)
Issuers == {"us", "sibling"}

NewTokenManager == <<Issuers, "any">>

NewCoupledTokenManager(issuer, issuers, aud) ==
    IF aud # "" /\ issuer \in issuers THEN {<<issuers, aud>>} ELSE {}

Managers ==
    {NewTokenManager} \cup
    UNION {NewCoupledTokenManager("us", I, a) : I \in SUBSET Issuers, a \in {"", "suite"}}

ManagerInit ==
    /\ current \in {0, 1} /\ previous = 0 /\ secrets = current
    /\ rot = [r \in Rotators |-> Resting]
    /\ \E m \in Managers : allowed = m[1] /\ audience = m[2]
    /\ token = NoToken /\ request = NoRequest /\ excused = {}

SetAllowedIssuers(I) ==
    /\ allowed' = I
    /\ UNCHANGED <<current, previous, secrets, rot, audience, token, request, excused>>

SetAudience(a) ==
    /\ audience' = a
    /\ UNCHANGED <<current, previous, secrets, rot, allowed, token, request, excused>>
-----------------------------------------------------------------------------
(* generate, here or at a sibling that shares the secret. *)
Generate(iss) ==
    /\ token = NoToken
    /\ current # 0                     \* ErrNoSigningSecret
    /\ token' = [secret |-> current, iss |-> iss, aud |-> audience, expired |-> FALSE]
    /\ UNCHANGED <<current, previous, secrets, rot, config, request, excused>>

Expire ==
    /\ token.secret # 0 /\ ~token.expired
    /\ token' = [token EXCEPT !.expired = TRUE]
    /\ UNCHANGED <<current, previous, secrets, rot, config, request, excused>>

Rotating == {r \in Rotators : rot[r].step # "idle"}

\* alone: no other rotation, and no clear, between the load and the last store.
Overlapped == [r \in Rotators |-> IF r \in Rotating THEN [rot[r] EXCEPT !.alone = FALSE]
                                                    ELSE rot[r]]

(* What a step ends for good: a rotation the secrets before the one it       *)
(* replaces, ClearPreviousSecret all but the current one. When two of them   *)
(* overlap, the pointers are not the caller's to predict: everything.        *)
Retire(alone) == excused' = excused \cup ((1..secrets) \ {x \in {current} : alone})

(* RotateSecret: load, store previous, store current. *)
RotateLoad(r) ==
    /\ rot[r].step = "idle" /\ secrets < MaxSecret
    /\ rot' = [Overlapped EXCEPT ![r] = [step |-> "previous", cur |-> current,
                                         alone |-> Rotating = {}]]
    /\ UNCHANGED <<current, previous, secrets, excused, config, token, request>>

RotateForgets(r) ==     \* mutant: the replaced secret is not kept
    /\ rot[r].step = "previous"
    /\ rot' = [rot EXCEPT ![r].step = "current"]
    /\ Retire(rot[r].alone)
    /\ UNCHANGED <<current, previous, secrets, config, token, request>>

RotatePrevious(r) ==
    /\ rot[r].step = "previous"
    /\ previous' = rot[r].cur
    /\ rot' = [rot EXCEPT ![r].step = "current"]
    /\ Retire(rot[r].alone)
    /\ UNCHANGED <<current, secrets, config, token, request>>

RotateCurrent(r) ==
    /\ rot[r].step = "current" /\ secrets < MaxSecret
    /\ secrets' = secrets + 1
    /\ current' = secrets'
    /\ rot' = [rot EXCEPT ![r] = Resting]
    /\ Retire(rot[r].alone)
    /\ UNCHANGED <<previous, config, token, request>>

ClearPreviousSecret ==
    /\ previous' = 0
    /\ Retire(Rotating = {})
    /\ rot' = Overlapped
    /\ UNCHANGED <<current, secrets, config, token, request>>
-----------------------------------------------------------------------------
(* A request presents the token; Validate tries the current secret, then the *)
(* previous one.                                                             *)
Present ==
    /\ token # NoToken
    /\ request.step \in {"none", "accepted", "refused"}
    /\ request' = [NoRequest EXCEPT !.step = "current"]
    /\ UNCHANGED <<current, previous, secrets, rot, config, token, excused>>

issuerAllowed(iss) == iss \in allowed

validateWith(secret) ==
    /\ secret # 0
    /\ secret = token.secret
    /\ ~token.expired
    /\ audience # "any" => token.aud = audience
    /\ issuerAllowed(token.iss)

\* Why it is refused: no secret that was tried signed it, or its claims.
ValidateCurrent ==
    /\ request.step = "current"
    /\ request' = [step |-> IF validateWith(current) THEN "accepted" ELSE "previous",
                   why  |-> IF current = token.secret THEN "claims" ELSE "secret"]
    /\ UNCHANGED <<current, previous, secrets, rot, config, token, excused>>

ValidatePrevious ==
    /\ request.step = "previous"
    /\ request' = [step |-> IF validateWith(previous) THEN "accepted" ELSE "refused",
                   why  |-> IF previous = token.secret THEN "claims" ELSE request.why]
    /\ UNCHANGED <<current, previous, secrets, rot, config, token, excused>>

ManagerNext ==
    \/ \E I \in SUBSET Issuers : SetAllowedIssuers(I)
    \/ \E a \in {"any", "suite"} : SetAudience(a)
    \/ \E i \in Issuers : Generate(i)
    \/ Expire
    \/ \E r \in Rotators : RotateLoad(r) \/ RotatePrevious(r) \/ RotateCurrent(r)
    \/ ClearPreviousSecret
    \/ Present \/ ValidateCurrent \/ ValidatePrevious

ManagerSpec == ManagerInit /\ [][ManagerNext]_managerVars
-----------------------------------------------------------------------------
(* Rotating the secret signs nobody out: a token is refused for its          *)
(* signature only when its secret has been rotated away twice or cleared, or *)
(* when two rotations, or one and a clear, overlapped. It takes the order of *)
(* RotateSecret's two stores and of Validate's two loads.                    *)
RotationKeepsTokens ==
    request.step = "refused" /\ request.why = "secret" => token.secret \in excused
===============================================================================
