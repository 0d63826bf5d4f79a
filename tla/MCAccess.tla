------------------------------- MODULE MCAccess -------------------------------
(***************************************************************************)
(* An instance for TLC of what stands between a caller and the data: the    *)
(* tenancy scopes over the repositories, signing in, the session tokens and *)
(* their denylist. Each behaviour moves the one it starts with; the others  *)
(* stay in one initial state.                                               *)
(***************************************************************************)
EXTENDS Tenancy, SignIn, TokenManager, TokenDenylist, TLC

VARIABLE focus

accessVars == <<vars, signInVars, managerVars, denylistVars, focus>>

\* The verifying replica is one tick behind the database, the others one ahead.
MCOffset == [r \in Replicas |-> IF r = Verifier THEN -1 ELSE 1]

AccessInit ==
    /\ Init /\ SignInInit /\ ManagerInit /\ DenylistInit
    /\ focus \in {"tenancy", "signin", "tokens", "denylist"}
    /\ focus # "tenancy" => users = {} /\ orgs = {} /\ admins = {}
    /\ focus # "signin" => provider = "none" /\ Live = {}
    /\ focus # "tokens" => current = 0 /\ audience = "any"
    /\ focus # "denylist" => tokenID = "none"

TenancyMoves ==
    focus = "tenancy" /\ Next
    /\ UNCHANGED <<signInVars, managerVars, denylistVars, focus>>
SignInMoves ==
    focus = "signin" /\ SignInNext
    /\ UNCHANGED <<vars, managerVars, denylistVars, focus>>
TokensMove ==
    focus = "tokens" /\ ManagerNext
    /\ UNCHANGED <<vars, signInVars, denylistVars, focus>>
DenylistMoves ==
    focus = "denylist" /\ DenylistNext
    /\ UNCHANGED <<vars, signInVars, managerVars, focus>>

AccessNext == TenancyMoves \/ SignInMoves \/ TokensMove \/ DenylistMoves

AccessSpec == AccessInit /\ [][AccessNext]_accessVars

(* Organizations are interchangeable, and users are; an account is a user.     *)
AccessSymmetry == Permutations(Orgs) \cup Permutations(Users)
===============================================================================
