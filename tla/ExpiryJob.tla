------------------------------- MODULE ExpiryJob ------------------------------
(***************************************************************************)
(* notify.APIKeyExpiryNotifier: on every replica a job looks for API keys   *)
(* about to expire and warns their owners by mail. The claim is a column of *)
(* the key's row, set before the mail is sent. Replicas run at the same     *)
(* time, a mail or a statement may fail, a process may die in between.      *)
(***************************************************************************)
EXTENDS Integers

CONSTANTS Jobs,           \* the replicas' jobs
          Keys,
          MaxUpsets       \* bound on failures and crashes

VARIABLES
    keyState,   \* [Keys -> "far", "due", "expired"]: before, in or after the warning
                \*  window; or "deleted"
    claimed,    \* keys with expiry_notification_sent_at set
    reachable,  \* keys whose owner exists and has an address
    jobOn,      \* the configuration enables the job
    job,        \* [Jobs -> [step, found, key]]
    sent,       \* [Keys -> mails sent]
    missed,     \* keys a claim or a mail of which failed, or died with its process
    upsets

expiryVars == <<keyState, claimed, reachable, jobOn, job, sent, missed, upsets>>

table == <<keyState, claimed, reachable>>
Waiting == [step |-> "wait", found |-> {}, key |-> "none"]

ExpiryInit ==
    /\ keyState = [k \in Keys |-> "far"]
    /\ claimed = {} /\ reachable \in SUBSET Keys
    /\ jobOn \in BOOLEAN
    /\ job = [j \in Jobs |-> [Waiting EXCEPT !.step = "new"]]
    /\ sent = [k \in Keys |-> 0]
    /\ missed = {} /\ upsets = 0

Upset == upsets < MaxUpsets /\ upsets' = upsets + 1
Due == {k \in Keys : keyState[k] = "due"}
To(j, next) == job' = [job EXCEPT ![j] = next]
-----------------------------------------------------------------------------
(* Start reads the configuration once and returns if the job is off. *)
Start(j) ==
    /\ job[j].step = "new"
    /\ To(j, [Waiting EXCEPT !.step = IF jobOn THEN "tick" ELSE "stopped"])
    /\ UNCHANGED <<table, jobOn, sent, missed, upsets>>

Stop(j) ==
    /\ job[j].step \in {"new", "wait"}
    /\ To(j, [Waiting EXCEPT !.step = "stopped"])
    /\ UNCHANGED <<table, jobOn, sent, missed, upsets>>

Ticker(j) ==
    /\ job[j].step = "wait"
    /\ To(j, [Waiting EXCEPT !.step = "tick"])
    /\ UNCHANGED <<table, jobOn, sent, missed, upsets>>

(* runCheck re-reads the configuration, then takes the keys in the window    *)
(* that nobody claimed.                                                      *)
FindExpiringKeys == Due \ claimed

runCheck(j) ==
    /\ job[j].step = "tick"
    /\ To(j, IF jobOn THEN [Waiting EXCEPT !.step = "next", !.found = FindExpiringKeys] ELSE Waiting)
    /\ UNCHANGED <<table, jobOn, sent, missed, upsets>>

NextKey(j, k) ==
    /\ job[j].step = "next" /\ k \in job[j].found
    /\ To(j, [job[j] EXCEPT !.step = IF k \in reachable THEN "claim" ELSE "next",
                            !.found = @ \ {k}, !.key = k])
    /\ UNCHANGED <<table, jobOn, sent, missed, upsets>>

CheckDone(j) ==
    /\ job[j].step = "next" /\ job[j].found = {}
    /\ To(j, Waiting)
    /\ UNCHANGED <<table, jobOn, sent, missed, upsets>>

\* UPDATE ... WHERE expiry_notification_sent_at IS NULL: one job gets it. The
\* statement does not ask whether the key has expired meanwhile.
ClaimUnconditionally(j) ==     \* mutant: no IS NULL
    LET k == job[j].key
        won == keyState[k] # "deleted"
    IN  /\ job[j].step = "claim"
        /\ claimed' = IF won THEN claimed \cup {k} ELSE claimed
        /\ To(j, [job[j] EXCEPT !.step = IF won THEN "send" ELSE "next"])
        /\ UNCHANGED <<keyState, reachable, jobOn, sent, missed, upsets>>

ClaimExpiryNotification(j) ==
    LET k == job[j].key
        won == keyState[k] # "deleted" /\ k \notin claimed
    IN  /\ job[j].step = "claim"
        /\ claimed' = IF won THEN claimed \cup {k} ELSE claimed
        /\ To(j, [job[j] EXCEPT !.step = IF won THEN "send" ELSE "next"])
        /\ UNCHANGED <<keyState, reachable, jobOn, sent, missed, upsets>>

sendExpiryEmail(j) ==
    /\ job[j].step = "send"
    /\ sent' = [sent EXCEPT ![job[j].key] = @ + 1]
    /\ To(j, [job[j] EXCEPT !.step = "next"])
    /\ UNCHANGED <<table, jobOn, missed, upsets>>

\* The owner cannot be read: the key is skipped until the next check.
LookupFails(j, k) ==
    /\ job[j].step = "next" /\ k \in job[j].found
    /\ Upset
    /\ To(j, [job[j] EXCEPT !.found = @ \ {k}])
    /\ UNCHANGED <<table, jobOn, sent, missed>>

\* The claim returns an error or runs into its deadline. The job skips the key,
\* and whether the UPDATE commits all the same is left to ClaimLands.
ClaimFails(j) ==
    /\ job[j].step = "claim"
    /\ Upset
    /\ missed' = missed \cup {job[j].key}
    /\ To(j, [job[j] EXCEPT !.step = "next"])
    /\ UNCHANGED <<table, jobOn, sent>>

ClaimLands(k) ==
    /\ k \in missed /\ k \notin claimed /\ keyState[k] # "deleted"
    /\ claimed' = claimed \cup {k}
    /\ UNCHANGED <<keyState, reachable, jobOn, job, sent, missed, upsets>>

\* The mail fails, before or after the server took it; it is not tried again.
MailFails(j) ==
    /\ job[j].step = "send"
    /\ Upset
    /\ missed' = missed \cup {job[j].key}
    /\ \E taken \in {0, 1} : sent' = [sent EXCEPT ![job[j].key] = @ + taken]
    /\ To(j, [job[j] EXCEPT !.step = "next"])
    /\ UNCHANGED <<table, jobOn>>

QueryFails(j) ==
    /\ job[j].step = "tick"
    /\ Upset
    /\ To(j, Waiting)
    /\ UNCHANGED <<table, jobOn, sent, missed>>

\* The process dies and is started again.
JobCrash(j) ==
    /\ Upset
    /\ missed' = IF job[j].step \in {"claim", "send"} THEN missed \cup {job[j].key} ELSE missed
    /\ To(j, [Waiting EXCEPT !.step = "new"])
    /\ UNCHANGED <<table, jobOn, sent>>

(* Time passes and owners act: a renewal moves the expiry date and leaves    *)
(* the claim as it is (APIKeyRepository.Update).                             *)
ComesDue(k) ==
    /\ keyState[k] = "far"
    /\ keyState' = [keyState EXCEPT ![k] = "due"]
    /\ UNCHANGED <<claimed, reachable, jobOn, job, sent, missed, upsets>>

Expires(k) ==
    /\ keyState[k] = "due"
    /\ keyState' = [keyState EXCEPT ![k] = "expired"]
    /\ UNCHANGED <<claimed, reachable, jobOn, job, sent, missed, upsets>>

Delete(k) ==
    /\ keyState[k] # "deleted"
    /\ keyState' = [keyState EXCEPT ![k] = "deleted"]
    /\ UNCHANGED <<claimed, reachable, jobOn, job, sent, missed, upsets>>

Renew(k) ==
    /\ keyState[k] \in {"due", "expired"}
    /\ keyState' = [keyState EXCEPT ![k] = "far"]
    /\ UNCHANGED <<claimed, reachable, jobOn, job, sent, missed, upsets>>

Reconfigure ==
    /\ jobOn' = ~jobOn
    /\ UNCHANGED <<table, job, sent, missed, upsets>>

Progress(j) ==
    \/ Start(j) \/ Ticker(j) \/ runCheck(j) \/ (\E k \in Keys : NextKey(j, k)) \/ CheckDone(j)
    \/ ClaimExpiryNotification(j) \/ sendExpiryEmail(j)

ExpiryNext ==
    \/ \E j \in Jobs :
         \/ Progress(j) \/ Stop(j) \/ QueryFails(j) \/ (\E k \in Keys : LookupFails(j, k))
         \/ ClaimFails(j) \/ MailFails(j) \/ JobCrash(j)
    \/ \E k \in Keys : ClaimLands(k) \/ ComesDue(k) \/ Expires(k) \/ Delete(k) \/ Renew(k)
    \/ Reconfigure

ExpirySpec == ExpiryInit /\ [][ExpiryNext]_expiryVars
-----------------------------------------------------------------------------
(* A key's owner is warned at most once, by whichever replica; and a claim   *)
(* without a mail is in the hands of a job that is about to send it, or a    *)
(* claim or a mail of that key returned an error or died with its process:   *)
(* claimed before sent loses, never doubles.                                 *)
WarnedAtMostOnce ==
    \A k \in Keys :
        /\ sent[k] =< 1
        /\ k \in claimed /\ sent[k] = 0 =>
              k \in missed \/ \E j \in Jobs : job[j].step = "send" /\ job[j].key = k
===============================================================================
