------------------------------- MODULE Notifier -------------------------------
(***************************************************************************)
(* notify.Notifier and the dedup claims it takes: replicas are told of the  *)
(* same event, one of them claims its key for a while and delivers it to    *)
(* every enabled channel, one after the other. Claims live in a table that  *)
(* prunes itself; the prune chooses its rows in one moment and deletes them *)
(* in a later one. A replica may crash at any point.                        *)
(***************************************************************************)
EXTENDS Integers

CONSTANTS Notifiers,       \* replicas that run Notify
          Channels,
          NoClaim,         \* no row for the dedup key
          DedupTTL,        \* the event's, longer than zero
          dedupPruneGrace,
          Skew,            \* [Notifiers -> Int]: their clocks against the database's
          MaxClock,        \* bound on time
          MaxFaults        \* bound on failed statements, crashes and keyless events

\* dedupPruneGrace is a week, longer than the TTL of every event plus what a
\* replica's clock may be ahead of the database's.
ASSUME NotifierAssumption ==
    /\ DedupTTL \in Nat /\ dedupPruneGrace \in Nat
    /\ Skew \in [Notifiers -> Int]
    /\ \A n \in Notifiers : DedupTTL + Skew[n] =< dedupPruneGrace
    /\ NoClaim \notin Int

VARIABLES
    clock,       \* the database's time
    claimedAt,   \* notify_dedup_claims.claimed_at of the key, or NoClaim
    run,         \* [Notifiers -> [step, listed, tried]]
    status,      \* [Channels -> "never", "sent", "failed"]: last_status
    chosen,      \* replicas whose prune has chosen the key's row
    lastWon,     \* when the key was last won
    overtaken,   \* a claim was renewed after a prune had chosen its row
    faults

notifyVars == <<clock, claimedAt, run, status, chosen, lastWon, overtaken, faults>>

dedup == <<claimedAt, lastWon, overtaken>>
Rest  == [step |-> "idle", listed |-> {}, tried |-> {}]

NotifyInit ==
    /\ clock = 0
    /\ claimedAt = NoClaim /\ lastWon = NoClaim /\ overtaken = FALSE
    /\ run = [n \in Notifiers |-> Rest]
    /\ status = [c \in Channels |-> "never"]
    /\ chosen = {} /\ faults = 0

On(n, step) == run[n].step = step
Goto(n, step) == run' = [run EXCEPT ![n].step = step]
Fault == faults < MaxFaults /\ faults' = faults + 1
-----------------------------------------------------------------------------
(* ClaimDedup's statement: an insert, or the renewal of a claim older than   *)
(* the TTL; no row comes back to whoever finds it younger.                   *)
ClaimableAtTTL ==     \* mutant: =< where the statement has <
    claimedAt = NoClaim \/ (claimedAt # NoClaim /\ claimedAt =< clock - DedupTTL)

Claimable == claimedAt = NoClaim \/ (claimedAt # NoClaim /\ claimedAt < clock - DedupTTL)

ClaimWon(n) ==
    /\ On(n, "idle") /\ Claimable
    /\ claimedAt' = clock /\ lastWon' = clock
    /\ overtaken' = (overtaken \/ chosen # {})
    /\ run' = [run EXCEPT ![n] = [Rest EXCEPT !.step = "won"]]
    /\ UNCHANGED <<clock, status, chosen, faults>>

ClaimLost(n) ==
    /\ On(n, "idle") /\ ~Claimable
    /\ run' = [run EXCEPT ![n] = [Rest EXCEPT !.step = "lost"]]
    /\ UNCHANGED <<clock, status, dedup, chosen, faults>>

\* An event without a key, or a claim that failed: delivered all the same.
Unclaimed(n) ==
    /\ On(n, "idle")
    /\ Fault
    /\ run' = [run EXCEPT ![n] = [Rest EXCEPT !.step = "won"]]
    /\ UNCHANGED <<clock, status, dedup, chosen>>

(* maybePruneExpiredClaims, when its slot comes. The claims' times are the   *)
(* database's, the cutoff is taken from the replica's own clock; the rows it *)
(* deletes are those its snapshot chose, whatever they hold by then.         *)
PruneChooses(n) ==
    /\ run[n].step \in {"won", "lost"}
    /\ claimedAt # NoClaim /\ claimedAt < clock + Skew[n] - dedupPruneGrace
    /\ chosen' = chosen \cup {n}
    /\ UNCHANGED <<clock, status, dedup, run, faults>>

PruneDeletes(n) ==
    /\ n \in chosen
    /\ chosen' = chosen \ {n}
    /\ claimedAt' = NoClaim
    /\ UNCHANGED <<clock, status, run, lastWon, overtaken, faults>>

(* Notify after its claim. *)
Skip(n) ==
    /\ On(n, "lost") /\ n \notin chosen
    /\ Goto(n, "idle")
    /\ UNCHANGED <<clock, status, dedup, chosen, faults>>

\* The channels enabled for the event at this moment, whichever they are.
ListEnabledForEvent(n) ==
    /\ On(n, "won") /\ n \notin chosen
    /\ \E C \in SUBSET Channels :
         run' = [run EXCEPT ![n] = [step |-> "deliver", listed |-> C, tried |-> {}]]
    /\ UNCHANGED <<clock, status, dedup, chosen, faults>>

ListFails(n) ==
    /\ On(n, "won") /\ n \notin chosen
    /\ Fault
    /\ Goto(n, "idle")
    /\ UNCHANGED <<clock, status, dedup, chosen>>

(* One channel's turn: its target is opened and the message sent by mail or  *)
(* posted, or one of the two fails; either way the outcome is recorded on    *)
(* the channel's row, best effort, and the next channel follows.             *)
record(c, failure) ==
    status' \in {status, [status EXCEPT ![c] = IF failure THEN "failed" ELSE "sent"]}

deliverOrStop(n, c, failure) ==     \* mutant: the first failure ends the loop
    /\ run' = [run EXCEPT ![n] = IF failure THEN Rest ELSE [@ EXCEPT !.tried = @ \cup {c}]]
    /\ record(c, failure)

deliver(n, c, failure) ==
    /\ run' = [run EXCEPT ![n].tried = @ \cup {c}]
    /\ record(c, failure)

Deliver(n, c) ==
    /\ On(n, "deliver") /\ c \in run[n].listed \ run[n].tried
    /\ \E failure \in BOOLEAN : deliver(n, c, failure)
    /\ UNCHANGED <<clock, dedup, chosen, faults>>

Finish(n) ==
    /\ On(n, "deliver") /\ run[n].listed = run[n].tried
    /\ Goto(n, "idle")
    /\ UNCHANGED <<clock, status, dedup, chosen, faults>>

\* The "test" button: one channel, no claim.
SendTest(n, c) ==
    /\ On(n, "idle")
    /\ run' = [run EXCEPT ![n] = [step |-> "deliver", listed |-> {c}, tried |-> {}]]
    /\ UNCHANGED <<clock, status, dedup, chosen, faults>>

Crash(n) ==
    /\ Fault
    /\ run' = [run EXCEPT ![n] = [Rest EXCEPT !.step = "down"]]
    /\ chosen' = chosen \ {n}
    /\ UNCHANGED <<clock, status, dedup>>

Restart(n) ==
    /\ On(n, "down")
    /\ Goto(n, "idle")
    /\ UNCHANGED <<clock, status, dedup, chosen, faults>>

NotifyTick ==
    /\ clock < MaxClock
    /\ clock' = clock + 1
    /\ UNCHANGED <<dedup, run, status, chosen, faults>>

\* What follows a claim by itself.
Proceed(n) ==
    PruneDeletes(n) \/ Skip(n) \/ ListEnabledForEvent(n) \/ Finish(n) \/ \E c \in Channels : Deliver(n, c)

NotifyNext ==
    \/ \E n \in Notifiers :
         \/ ClaimWon(n) \/ ClaimLost(n) \/ Unclaimed(n) \/ PruneChooses(n)
         \/ ListFails(n) \/ Crash(n) \/ Restart(n) \/ Proceed(n)
         \/ \E c \in Channels : SendTest(n, c)
    \/ NotifyTick

\* A goroutine that is not stuck goes on; nothing makes an event happen.
NotifyFairness == \A n \in Notifiers : WF_notifyVars(Proceed(n))

NotifySpec == NotifyInit /\ [][NotifyNext]_notifyVars /\ NotifyFairness
-----------------------------------------------------------------------------
(* The dedup key is won again only once its TTL has passed, however the      *)
(* replicas' claims and prunes interleave, and a claim is lost only inside   *)
(* that window, so that no event is silenced for longer. The exception is a  *)
(* renewal that lands between a prune's choice of the row and its delete:    *)
(* the young claim goes with the old.                                        *)
ClaimedOncePerWindow ==
    [][\A n \in Notifiers :
        /\ ClaimWon(n) /\ ~overtaken => lastWon = NoClaim \/ clock - lastWon > DedupTTL
        /\ ClaimLost(n) => lastWon # NoClaim /\ clock - lastWon =< DedupTTL
      ]_notifyVars

(* Whoever won the claim tries every channel that was enabled, the ones      *)
(* after a failing one too, unless it crashes.                               *)
EveryChannelTried ==
    \A n \in Notifiers, c \in Channels :
        On(n, "deliver") /\ c \in run[n].listed ~> c \in run[n].tried \/ On(n, "down")

(* The safety half of that: a delivery is left only when every channel it     *)
(* listed was tried, or by a crash; until then its list stays and what was   *)
(* tried grows by one channel of the list at a time, so none is tried twice. *)
NoChannelSkipped ==
    [][\A n \in Notifiers : On(n, "deliver") =>
        IF On(n, "deliver")'
        THEN /\ run'[n].listed = run[n].listed
             /\ \/ run'[n].tried = run[n].tried
                \/ \E c \in run[n].listed \ run[n].tried : run'[n].tried = run[n].tried \cup {c}
        ELSE On(n, "down")' \/ run[n].tried = run[n].listed
      ]_notifyVars
===============================================================================
