------------------------------ MODULE MCServices ------------------------------
(***************************************************************************)
(* An instance for TLC of the services that share no table: the notifier    *)
(* and the expiry job, the OIDC configurations, the default organization's  *)
(* cache and the audit retention. Each behaviour moves the one it starts    *)
(* with; the others stay in one initial state.                              *)
(***************************************************************************)
EXTENDS Notifier, ExpiryJob, OidcConfig, DefaultOrgCache, AuditRetention

CONSTANTS L1, L2, L3,       \* the audit rows
          Ahead             \* the notifier whose clock is ahead of the database's

VARIABLE focus

allVars == <<notifyVars, expiryVars, oidcVars, cacheVars, retentionVars, focus>>

MCSkew == [n \in Notifiers |-> IF n = Ahead THEN 1 ELSE 0]

MCCreatedAt == [l \in {L1, L2, L3} |-> IF l = L1 THEN 0 ELSE 1]

Init ==
    /\ NotifyInit /\ ExpiryInit /\ OidcInit /\ CacheInit /\ RetentionInit
    /\ focus \in {"notifier", "expiry", "oidc", "cache", "retention"}
    /\ focus # "expiry" => reachable = {} /\ jobOn
    /\ focus # "oidc" => \A c \in Configs : oidcRow[c] = "absent"
    /\ focus # "retention" => entries = {}

NotifierMoves ==
    focus = "notifier" /\ NotifyNext
    /\ UNCHANGED <<expiryVars, oidcVars, cacheVars, retentionVars, focus>>
ExpiryMoves ==
    focus = "expiry" /\ ExpiryNext
    /\ UNCHANGED <<notifyVars, oidcVars, cacheVars, retentionVars, focus>>
OidcMoves ==
    focus = "oidc" /\ OidcNext
    /\ UNCHANGED <<notifyVars, expiryVars, cacheVars, retentionVars, focus>>
CacheMoves ==
    focus = "cache" /\ CacheNext
    /\ UNCHANGED <<notifyVars, expiryVars, oidcVars, retentionVars, focus>>
RetentionMoves ==
    focus = "retention" /\ RetentionNext
    /\ UNCHANGED <<notifyVars, expiryVars, oidcVars, cacheVars, focus>>

Next == NotifierMoves \/ ExpiryMoves \/ OidcMoves \/ CacheMoves \/ RetentionMoves

(* The fairness of Notifier, for a behaviour that is about it. *)
Fairness ==
    \A n \in Notifiers : WF_allVars(focus = "notifier" /\ Proceed(n)
                                    /\ UNCHANGED <<expiryVars, oidcVars, cacheVars, retentionVars, focus>>)

Spec == Init /\ [][Next]_allVars /\ Fairness
===============================================================================
