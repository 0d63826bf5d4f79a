------------------------------- MODULE OidcConfig -----------------------------
(***************************************************************************)
(* store.OIDCConfigRepository: at most one configuration is active, and     *)
(* administrators switch it from several processes at once. A switch is a   *)
(* READ COMMITTED transaction: deactivate every row, then make one active.  *)
(* The first statement locks the rows its snapshot saw, one after the       *)
(* other, and misses rows inserted since; the unique partial index catches  *)
(* what that leaves. A transaction may fail or be rolled back anywhere,     *)
(* also by the database's deadlock detection.                               *)
(***************************************************************************)
EXTENDS Naturals, FiniteSets

CONSTANTS Configs,     \* ids of configurations
          Admins       \* sessions that write them

VARIABLES
    oidcRow,   \* [Configs -> "absent", "off", "on"]: the committed rows
    tx         \* [Admins -> [op, target, step, todo, held]]

oidcVars == <<oidcRow, tx>>

NoTx == [op |-> "none", target |-> {}, step |-> "idle", todo |-> {}, held |-> {}]

Present == {c \in Configs : oidcRow[c] # "absent"}
Active  == {c \in Configs : oidcRow[c] = "on"}
Open(a) == tx[a].step # "idle"
HeldByOther(a, c) == \E b \in Admins \ {a} : c \in tx[b].held
Creating(c) == \E b \in Admins : tx[b].op = "create" /\ c \in tx[b].target

\* The index's migration left at most one active row.
OidcInit ==
    /\ oidcRow \in [Configs -> {"absent", "off", "on"}]
    /\ \A c, d \in Active : c = d
    /\ tx = [a \in Admins |-> NoTx]
-----------------------------------------------------------------------------
(* The transaction of ActivateOIDCConfig, of CreateOIDCConfig for an active  *)
(* configuration and, without a second statement, DeactivateAllOIDCConfigs.  *)
Begin(a, op, target) ==
    /\ ~Open(a)
    /\ tx' = [tx EXCEPT ![a] = [op |-> op, target |-> target, step |-> "open",
                                todo |-> Present, held |-> {}]]
    /\ UNCHANGED oidcRow

BeginActivate(a) == \E c \in Configs : Begin(a, "activate", {c})
BeginCreate(a) ==
    \E c \in Configs : oidcRow[c] = "absent" /\ ~Creating(c) /\ Begin(a, "create", {c})
BeginDeactivateAll(a) == Begin(a, "deactivate", {})

\* deactivateAllOIDCConfigsTx at one row: it waits for whoever holds it, and
\* passes over a row deleted by then.
DeactivateRow(a, c) ==
    /\ Open(a) /\ c \in tx[a].todo /\ ~HeldByOther(a, c)
    /\ tx' = [tx EXCEPT ![a].todo = @ \ {c}, ![a].held = @ \cup ({c} \cap Present)]
    /\ UNCHANGED oidcRow

(* The unique index on is_active, as the second statement meets it: an       *)
(* active row that another open transaction wrote or deactivates is waited   *)
(* for, a committed one that this transaction did not deactivate is an error.*)
IndexBusy(a) ==
    \E b \in Admins \ {a} : tx[b].step = "written" \/ tx[b].held \cap Active # {}
NoIndex(a) == FALSE     \* mutant
IndexTaken(a) == Active \ (tx[a].held \cup tx[a].target) # {}

\* Rolled back in two cases: requireRow found no row to activate, or the index.
Refused(a) ==
    \/ tx[a].op = "activate" /\ tx[a].target \cap Present = {}
    \/ IndexTaken(a)

Write(a) ==
    /\ tx[a].step = "open" /\ tx[a].todo = {} /\ tx[a].target # {}
    /\ \A c \in tx[a].target : ~HeldByOther(a, c)
    /\ ~IndexBusy(a)
    /\ tx' = [tx EXCEPT ![a] = IF Refused(a) THEN NoTx
                               ELSE [tx[a] EXCEPT !.step = "written",
                                               !.held = tx[a].held \cup tx[a].target]]
    /\ UNCHANGED oidcRow

Commit(a) ==
    /\ \/ tx[a].step = "written"
       \/ tx[a].op = "deactivate" /\ tx[a].todo = {}
    /\ oidcRow' = [c \in Configs |-> IF c \in tx[a].target THEN "on"
                                     ELSE IF c \in tx[a].held THEN "off" ELSE oidcRow[c]]
    /\ tx' = [tx EXCEPT ![a] = NoTx]

Rollback(a) ==
    /\ Open(a)
    /\ tx' = [tx EXCEPT ![a] = NoTx]
    /\ UNCHANGED oidcRow
-----------------------------------------------------------------------------
(* The statements that stand alone. *)
CreateInactive(c) ==
    /\ oidcRow[c] = "absent" /\ ~Creating(c)
    /\ oidcRow' = [oidcRow EXCEPT ![c] = "off"]
    /\ UNCHANGED tx

DeleteOIDCConfig(c) ==
    /\ c \in Present /\ \A a \in Admins : c \notin tx[a].held
    /\ oidcRow' = [oidcRow EXCEPT ![c] = "absent"]
    /\ UNCHANGED tx

OidcNext ==
    \/ \E a \in Admins :
         \/ BeginActivate(a) \/ BeginCreate(a) \/ BeginDeactivateAll(a)
         \/ Write(a) \/ Commit(a) \/ Rollback(a)
         \/ \E c \in Configs : DeactivateRow(a, c)
    \/ \E c \in Configs : CreateInactive(c) \/ DeleteOIDCConfig(c)

OidcSpec == OidcInit /\ [][OidcNext]_oidcVars
-----------------------------------------------------------------------------
(* However switches overlap and fail, no two configurations are active, and  *)
(* single sign-on is lost only by the delete of the active configuration or  *)
(* by DeactivateAllOIDCConfigs: a switch that fails, that targets a          *)
(* configuration deleted meanwhile or that loses to another leaves one       *)
(* active.                                                                   *)
SwitchIsAtomic ==
    [][ /\ Cardinality(Active') =< 1
        /\ Active # {} /\ Active' = {} =>
             \/ \E c \in Active : DeleteOIDCConfig(c)
             \/ \E a \in Admins : tx[a].op = "deactivate" /\ Commit(a)
      ]_oidcVars
===============================================================================
