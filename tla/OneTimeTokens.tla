---------------------------- MODULE OneTimeTokens ----------------------------
(***************************************************************************)
(* What identity/auth/oauthstate promises: a state it issued is redeemed at *)
(* most once, for the purpose it was issued for and not after its expiry;   *)
(* an identifier that was reserved is not reserved again before its marker  *)
(* expires.  A state may be lost at any time (the user logs in again); a    *)
(* marker only when the store is closed.                                    *)
(***************************************************************************)
EXTENDS Naturals

CONSTANTS
    States,     \* OAuth states
    Markers,    \* externally assigned identifiers
    Purposes,   \* flows and the resources they are bound to
    NoTicket,   \* a state that was never stored
    NoPurpose   \* a state that was not redeemed

VARIABLES
    clock,
    ticket,         \* state -> its purpose and expiry
    outstanding,    \* states that can still be redeemed
    redeemed,       \* state -> the purpose it was redeemed for
    denied          \* identifier -> the time until which it is refused

vars == <<clock, ticket, outstanding, redeemed, denied>>

Init ==
    /\ clock = 0
    /\ ticket = [s \in States |-> NoTicket]
    /\ outstanding = {}
    /\ redeemed = [s \in States |-> NoPurpose]
    /\ denied = [m \in Markers |-> 0]

Tick ==
    /\ clock' \in Nat /\ clock' > clock
    /\ UNCHANGED <<ticket, outstanding, redeemed, denied>>

Issue(s) ==
    /\ ticket[s] = NoTicket
    /\ ticket' = [ticket EXCEPT ![s] = ticket'[s]]
    /\ ticket'[s] \in [purpose : Purposes, until : Nat]
    /\ s \in outstanding' /\ outstanding' \ {s} \subseteq outstanding
    /\ UNCHANGED <<clock, redeemed, denied>>

Redeem(s) ==
    /\ s \in outstanding
    /\ clock <= ticket[s].until
    /\ outstanding' = outstanding \ {s}
    /\ redeemed' = [redeemed EXCEPT ![s] = ticket[s].purpose]
    /\ UNCHANGED <<clock, ticket, denied>>

Forget ==
    /\ outstanding' \subseteq outstanding
    /\ UNCHANGED <<clock, ticket, redeemed, denied>>

Reserve(m) ==
    /\ denied[m] <= clock
    /\ denied' = [denied EXCEPT ![m] = denied'[m]]
    /\ outstanding' \subseteq outstanding
    /\ UNCHANGED <<clock, ticket, redeemed>>

Close ==
    /\ denied' = [m \in Markers |-> 0]
    /\ outstanding' \subseteq outstanding
    /\ UNCHANGED <<clock, ticket, redeemed>>

Next ==
    \/ Tick \/ Forget \/ Close
    \/ \E s \in States : Issue(s) \/ Redeem(s)
    \/ \E m \in Markers : Reserve(m)

Spec == Init /\ [][Next]_vars
===============================================================================
