---------------------------- MODULE ServicesProofs ----------------------------
(***************************************************************************)
(* Theorems about the default organization's cache, the expiry job, the     *)
(* notifier's claims, the OIDC configurations and the audit retention.      *)
(***************************************************************************)
EXTENDS Notifier, ExpiryJob, OidcConfig, DefaultOrgCache, AuditRetention, FiniteSetTheorems, TLAPS
-----------------------------------------------------------------------------
(* The cache. A version in it, or on its way into it under the generation    *)
(* of now, is no older than what this process has announced.                 *)
Reads == [step : {"idle", "query", "refill", "done"}, gen : Nat, got : Nat,
          there : BOOLEAN, since : Nat]

CacheType ==
    /\ defaultOrg \in [ver : Nat, there : BOOLEAN]
    /\ cache \in Nat /\ fresh \in BOOLEAN /\ gen \in Nat /\ announced \in Nat
    /\ reader \in [Readers -> Reads]
    /\ writer \in [Writers -> Nat]

Committed ==
    /\ announced =< defaultOrg.ver
    /\ \A w \in Writers : writer[w] =< defaultOrg.ver

CachedIsRecent == cache # 0 => cache >= announced

ReadIsRecent(r) ==
    /\ reader[r].gen =< gen /\ reader[r].since =< announced
    /\ reader[r].step \in {"refill", "done"} => reader[r].got >= reader[r].since
    /\ reader[r].step = "refill" /\ reader[r].gen = gen => reader[r].got >= announced

CacheInv ==
    /\ CacheType /\ Committed /\ CachedIsRecent
    /\ \A r \in Readers : ReadIsRecent(r)

LEMMA CacheStart == CacheInit => CacheInv
<1> SUFFICES ASSUME CacheInit PROVE CacheInv
  OBVIOUS
<1>1. NoRead \in Reads BY DEF NoRead, Reads
<1>2. CacheType BY <1>1 DEF CacheInit, CacheType
<1>3. \A r \in Readers : ReadIsRecent(r) BY DEF CacheInit, ReadIsRecent, NoRead
<1> QED BY <1>2, <1>3 DEF CacheInit, CacheInv, Committed, CachedIsRecent

\* The steps of a reader.
LEMMA ReaderSteps ==
    ASSUME CacheInv, NEW r \in Readers,
           Hit(r) \/ Miss(r) \/ Query(r) \/ Refill(r) \/ Return(r)
    PROVE  CacheInv'
<1>i. CacheType /\ Committed /\ CachedIsRecent /\ \A q \in Readers : ReadIsRecent(q)
  BY DEF CacheInv
<1>u. /\ defaultOrg' = defaultOrg /\ gen' = gen /\ writer' = writer /\ announced' = announced
      /\ \A q \in Readers \ {r} : reader'[q] = reader[q]
  BY <1>i DEF Hit, Miss, Query, Refill, Return, CacheType
<1>r. reader' \in [Readers -> Reads] /\ ReadIsRecent(r)'
  <2>1. CASE Hit(r)
    BY <1>i, <2>1 DEF Hit, CacheType, Reads, ReadIsRecent, CachedIsRecent
  <2>2. CASE Miss(r)
    <3>1. PICK x : x = [NoRead EXCEPT !.step = "query", !.gen = gen, !.since = announced]
      OBVIOUS
    <3>2. x \in Reads /\ x.step = "query" /\ x.gen = gen /\ x.since = announced
      BY <1>i, <3>1 DEF NoRead, Reads, CacheType
    <3>3. reader' = [reader EXCEPT ![r] = x] BY <2>2, <3>1 DEF Miss
    <3> QED BY <1>i, <1>u, <3>2, <3>3 DEF CacheType, ReadIsRecent
  <2>3. CASE Query(r)
    <3>1. reader'[r] = [reader[r] EXCEPT
              !.step = IF defaultOrg.there THEN "refill" ELSE "done",
              !.got = defaultOrg.ver, !.there = defaultOrg.there]
      BY <1>i, <2>3 DEF Query, CacheType, Reads
    <3>a. reader[r] \in Reads /\ defaultOrg.ver \in Nat BY <1>i DEF CacheType
    <3>b. defaultOrg.there \in BOOLEAN BY <1>i DEF CacheType
    <3>2. reader'[r] \in Reads
      <4>1. CASE defaultOrg.there = TRUE BY <3>1, <3>a, <4>1 DEF Reads
      <4>2. CASE defaultOrg.there = FALSE BY <3>1, <3>a, <4>2 DEF Reads
      <4> QED BY <3>b, <4>1, <4>2
    <3>3. reader' \in [Readers -> Reads] BY <1>i, <2>3, <3>1, <3>2 DEF Query, CacheType
    <3> QED BY <1>i, <1>u, <3>1, <3>3 DEF CacheType, Reads, ReadIsRecent, Committed
  <2>4. CASE Refill(r)
    BY <1>i, <1>u, <2>4 DEF Refill, CacheType, Reads, ReadIsRecent
  <2>5. CASE Return(r)
    BY <1>i, <1>u, <2>5 DEF Return, NoRead, CacheType, Reads, ReadIsRecent
  <2> QED BY <2>1, <2>2, <2>3, <2>4, <2>5
<1>c. cache' \in Nat /\ fresh' \in BOOLEAN /\ CachedIsRecent'
  BY <1>i, <1>u DEF Hit, Miss, Query, Refill, Return, CacheType, Reads, CachedIsRecent, ReadIsRecent
<1> QED
  BY <1>i, <1>u, <1>r, <1>c DEF CacheInv, CacheType, Committed, ReadIsRecent

\* The writers of this process, the others, and time.
LEMMA WriterSteps ==
    ASSUME CacheInv,
           \/ \E w \in Writers : LocalWrite(w) \/ InvalidateDefaultOrgCache(w) \/ FailedWrite(w)
           \/ RemoteWrite \/ Lapse
    PROVE  CacheInv'
<1>i. CacheType /\ Committed /\ CachedIsRecent /\ \A q \in Readers : ReadIsRecent(q)
  BY DEF CacheInv
<1>1. ASSUME NEW w \in Writers, LocalWrite(w) PROVE CacheInv'
  BY <1>i, <1>1 DEF LocalWrite, WriteRow, CacheInv, CacheType, Committed, CachedIsRecent, ReadIsRecent
<1>2. ASSUME NEW w \in Writers, InvalidateDefaultOrgCache(w) PROVE CacheInv'
  <2>1. /\ announced' \in Nat /\ announced' >= announced /\ announced' =< defaultOrg.ver
        /\ gen' = gen + 1 /\ cache' = 0
        /\ writer' \in [Writers -> Nat] /\ \A v \in Writers : writer'[v] =< defaultOrg.ver
    BY <1>i, <1>2 DEF InvalidateDefaultOrgCache, CacheType, Committed
  <2>2. defaultOrg' = defaultOrg /\ fresh' = fresh /\ reader' = reader
    BY <1>2 DEF InvalidateDefaultOrgCache
  <2>3. \A q \in Readers : ReadIsRecent(q)'
    BY <1>i, <2>1, <2>2 DEF CacheType, Reads, ReadIsRecent
  <2> QED BY <1>i, <2>1, <2>2, <2>3 DEF CacheInv, CacheType, Committed, CachedIsRecent
<1>3. CASE RemoteWrite \/ \E w \in Writers : FailedWrite(w)
  BY <1>i, <1>3 DEF RemoteWrite, FailedWrite, WriteRow, CacheInv, CacheType, Committed, CachedIsRecent, ReadIsRecent
<1>4. CASE Lapse
  BY <1>i, <1>4 DEF Lapse, CacheInv, CacheType, Committed, CachedIsRecent, ReadIsRecent
<1> QED BY <1>1, <1>2, <1>3, <1>4

(* For any number of readers and writers, a read that began after a write of *)
(* this process returned without an error does not give what was there       *)
(* before that write: GetDefaultOrganization's refill is guarded by the      *)
(* generation.                                                               *)
THEOREM CacheReadsOwnWrites == CacheSpec => []ReadYourWrites
<1>1. CacheInv /\ [CacheNext]_cacheVars => CacheInv'
  <2> SUFFICES ASSUME CacheInv, [CacheNext]_cacheVars PROVE CacheInv'
    OBVIOUS
  <2>1. CASE CacheNext BY <2>1, ReaderSteps, WriterSteps DEF CacheNext
  <2>2. CASE UNCHANGED cacheVars
    BY <2>2 DEF cacheVars, CacheInv, CacheType, Committed, CachedIsRecent, ReadIsRecent
  <2> QED BY <2>1, <2>2
<1>2. CacheInv => ReadYourWrites BY DEF CacheInv, ReadIsRecent, ReadYourWrites
<1> QED BY <1>1, <1>2, CacheStart, PTL DEF CacheSpec
-----------------------------------------------------------------------------
(* The expiry job. A job about to send holds the only claim of its key, and  *)
(* no mail went out before it.                                               *)
JobStates == [step : {"new", "wait", "tick", "next", "claim", "send", "stopped"},
              found : SUBSET Keys, key : Keys \cup {"none"}]

ExpiryType ==
    /\ job \in [Jobs -> JobStates]
    /\ claimed \in SUBSET Keys
    /\ sent \in [Keys -> Nat]

InHand(j) ==
    /\ job[j].step \in {"claim", "send"} => job[j].key \in Keys
    /\ job[j].step = "send" => job[j].key \in claimed /\ sent[job[j].key] = 0

OneSender ==
    \A i, j \in Jobs :
        job[i].step = "send" /\ job[j].step = "send" /\ job[i].key = job[j].key => i = j

SentIsClaimed == \A k \in Keys : sent[k] # 0 => k \in claimed

ExpiryInv ==
    /\ ExpiryType /\ (\A j \in Jobs : InHand(j)) /\ OneSender /\ SentIsClaimed
    /\ WarnedAtMostOnce

\* A step of a job that neither claims nor sends; a claim it drops is missed.
LEMMA QuietStep ==
    ASSUME ExpiryInv, NEW j \in Jobs, NEW x \in JobStates,
           job' = [job EXCEPT ![j] = x],
           x.step # "send", x.step = "claim" => x.key \in Keys,
           claimed' = claimed, sent' = sent, missed \subseteq missed',
           job[j].step = "send" => job[j].key \in missed'
    PROVE  ExpiryInv'
<1>1. ExpiryType' BY DEF ExpiryInv, ExpiryType
<1>2. \A i \in Jobs : InHand(i)' BY DEF ExpiryInv, ExpiryType, InHand
<1>3. OneSender' BY DEF ExpiryInv, ExpiryType, OneSender
<1>4. SentIsClaimed' BY DEF ExpiryInv, SentIsClaimed
<1>5. WarnedAtMostOnce'
  <2> SUFFICES ASSUME NEW k \in Keys
               PROVE  /\ sent[k] =< 1
                      /\ k \in claimed /\ sent[k] = 0 =>
                           k \in missed' \/ \E i \in Jobs : job'[i].step = "send" /\ job'[i].key = k
    BY DEF WarnedAtMostOnce
  <2>1. sent[k] =< 1 BY DEF ExpiryInv, WarnedAtMostOnce
  <2>2. ASSUME k \in claimed, sent[k] = 0, k \notin missed'
        PROVE  \E i \in Jobs : job'[i].step = "send" /\ job'[i].key = k
    <3>1. PICK i \in Jobs : job[i].step = "send" /\ job[i].key = k
      BY <2>2 DEF ExpiryInv, WarnedAtMostOnce
    <3>2. i # j BY <2>2, <3>1
    <3> QED BY <3>1, <3>2 DEF ExpiryInv, ExpiryType
  <2> QED BY <2>1, <2>2
<1> QED BY <1>1, <1>2, <1>3, <1>4, <1>5 DEF ExpiryInv

LEMMA QuietJobSteps ==
    ASSUME ExpiryInv, NEW j \in Jobs,
           \/ Start(j) \/ Stop(j) \/ Ticker(j) \/ runCheck(j) \/ CheckDone(j) \/ QueryFails(j)
           \/ ClaimFails(j) \/ JobCrash(j) \/ \E k \in Keys : NextKey(j, k) \/ LookupFails(j, k)
    PROVE  ExpiryInv'
<1>w. Waiting \in JobStates /\ Waiting.step = "wait" BY DEF Waiting, JobStates
<1>s. ASSUME NEW s \in {"new", "tick", "stopped"}
      PROVE  LET x == [Waiting EXCEPT !.step = s] IN x \in JobStates /\ x.step = s
  BY <1>w DEF Waiting, JobStates
<1>t. job \in [Jobs -> JobStates] /\ job[j] \in JobStates BY DEF ExpiryInv, ExpiryType
<1>n. LET x == [job[j] EXCEPT !.step = "next"] IN x \in JobStates /\ x.step = "next"
  BY <1>t DEF JobStates
<1>1. CASE Start(j) BY <1>1, <1>s, QuietStep DEF Start, To, table
<1>2. CASE Stop(j) BY <1>2, <1>s, QuietStep DEF Stop, To, table
<1>3. CASE Ticker(j) BY <1>3, <1>s, QuietStep DEF Ticker, To, table
<1>4. CASE runCheck(j)
  <2>1. PICK x : x = [Waiting EXCEPT !.step = "next", !.found = FindExpiringKeys]
    OBVIOUS
  <2>2. x \in JobStates /\ x.step = "next"
    BY <2>1 DEF Waiting, JobStates, FindExpiringKeys, Due
  <2> QED BY <1>4, <1>w, <2>1, <2>2, QuietStep DEF runCheck, To, table
<1>5. CASE CheckDone(j) BY <1>5, <1>w, QuietStep DEF CheckDone, To, table
<1>6. CASE QueryFails(j) BY <1>6, <1>w, QuietStep DEF QueryFails, To, table
<1>7. CASE ClaimFails(j) BY <1>7, <1>n, QuietStep DEF ClaimFails, To, table
<1>8. CASE JobCrash(j) BY <1>8, <1>s, QuietStep DEF JobCrash, To, table
<1>9. ASSUME NEW k \in Keys, NextKey(j, k) PROVE ExpiryInv'
  <2>1. PICK x : x = [job[j] EXCEPT !.step = IF k \in reachable THEN "claim" ELSE "next",
                                    !.found = @ \ {k}, !.key = k]
    OBVIOUS
  <2>2. x \in JobStates /\ x.step # "send" /\ x.key = k
    BY <1>t, <2>1 DEF JobStates
  <2>3. job[j].step # "send" BY <1>9 DEF NextKey
  <2>4. job' = [job EXCEPT ![j] = x] /\ claimed' = claimed /\ sent' = sent /\ missed' = missed
    BY <1>9, <2>1 DEF NextKey, To, table
  <2> QED BY <2>2, <2>3, <2>4, QuietStep
<1>10. ASSUME NEW k \in Keys, LookupFails(j, k) PROVE ExpiryInv'
  <2>1. PICK x : x = [job[j] EXCEPT !.found = @ \ {k}] OBVIOUS
  <2>2. x \in JobStates /\ x.step = job[j].step BY <1>t, <2>1 DEF JobStates
  <2>3. job[j].step = "next" BY <1>10 DEF LookupFails
  <2>4. job' = [job EXCEPT ![j] = x] /\ claimed' = claimed /\ sent' = sent /\ missed' = missed
    BY <1>10, <2>1 DEF LookupFails, To, table
  <2> QED BY <2>2, <2>3, <2>4, QuietStep
<1> QED BY <1>1, <1>2, <1>3, <1>4, <1>5, <1>6, <1>7, <1>8, <1>9, <1>10

\* The conditional claim: only a key nobody claimed comes into a job's hands.
LEMMA ClaimStep ==
    ASSUME ExpiryInv, NEW j \in Jobs, ClaimExpiryNotification(j)
    PROVE  ExpiryInv'
<1>t. job \in [Jobs -> JobStates] /\ job[j] \in JobStates BY DEF ExpiryInv, ExpiryType
<1>k. job[j].key \in Keys /\ job[j].step = "claim"
  BY DEF ClaimExpiryNotification, ExpiryInv, InHand
<1>n. LET x == [job[j] EXCEPT !.step = "next"] IN x \in JobStates /\ x.step = "next"
  BY <1>t DEF JobStates
<1>1. CASE keyState[job[j].key] # "deleted" /\ job[j].key \notin claimed
  <2>1. PICK x : x = [job[j] EXCEPT !.step = "send"] OBVIOUS
  <2>2. x \in JobStates /\ x.step = "send" /\ x.key = job[j].key BY <1>t, <2>1 DEF JobStates
  <2>3. /\ job' = [job EXCEPT ![j] = x] /\ claimed' = claimed \cup {job[j].key}
        /\ sent' = sent /\ missed' = missed
    BY <1>1, <2>1 DEF ClaimExpiryNotification, To
  <2>4. job'[j] = x /\ \A i \in Jobs \ {j} : job'[i] = job[i] BY <1>t, <2>3
  <2>5. sent[job[j].key] = 0 BY <1>1, <1>k DEF ExpiryInv, SentIsClaimed
  <2>6. ExpiryType' BY <1>k, <2>2, <2>3 DEF ExpiryInv, ExpiryType
  <2>7. \A i \in Jobs : InHand(i)' BY <1>k, <2>2, <2>3, <2>4, <2>5 DEF ExpiryInv, InHand
  <2>8. OneSender' BY <1>1, <2>2, <2>4 DEF ExpiryInv, OneSender, InHand
  <2>9. SentIsClaimed' BY <2>3 DEF ExpiryInv, SentIsClaimed
  <2>10. WarnedAtMostOnce'
    <3> SUFFICES ASSUME NEW k \in Keys
                 PROVE  /\ sent[k] =< 1
                        /\ k \in claimed' /\ sent[k] = 0 =>
                             k \in missed \/ \E i \in Jobs : job'[i].step = "send" /\ job'[i].key = k
      BY <2>3 DEF WarnedAtMostOnce
    <3>1. sent[k] =< 1 BY DEF ExpiryInv, WarnedAtMostOnce
    <3>2. CASE k = job[j].key BY <2>2, <2>4, <3>1, <3>2
    <3>3. ASSUME k \in claimed, sent[k] = 0, k \notin missed
          PROVE  \E i \in Jobs : job'[i].step = "send" /\ job'[i].key = k
      <4>1. PICK i \in Jobs : job[i].step = "send" /\ job[i].key = k
        BY <3>3 DEF ExpiryInv, WarnedAtMostOnce
      <4>2. i # j BY <1>k, <4>1
      <4> QED BY <2>4, <4>1, <4>2
    <3> QED BY <2>3, <3>1, <3>2, <3>3
  <2> QED BY <2>6, <2>7, <2>8, <2>9, <2>10 DEF ExpiryInv
<1>2. CASE ~(keyState[job[j].key] # "deleted" /\ job[j].key \notin claimed)
  <2>1. /\ job' = [job EXCEPT ![j] = [job[j] EXCEPT !.step = "next"]]
        /\ claimed' = claimed /\ sent' = sent /\ missed' = missed
    BY <1>2 DEF ClaimExpiryNotification, To
  <2> QED BY <1>k, <1>n, <2>1, QuietStep
<1> QED BY <1>1, <1>2

\* A mail that went out, whether its job learns of it or not.
LEMMA SendStep ==
    ASSUME ExpiryInv, NEW j \in Jobs, job[j].step = "send",
           sent' = [sent EXCEPT ![job[j].key] = @ + 1], To(j, [job[j] EXCEPT !.step = "next"]),
           claimed' = claimed, missed \subseteq missed'
    PROVE  ExpiryInv'
<1>t. job \in [Jobs -> JobStates] /\ job[j] \in JobStates /\ sent \in [Keys -> Nat]
  BY DEF ExpiryInv, ExpiryType
<1>k. job[j].step = "send" /\ job[j].key \in Keys /\ job[j].key \in claimed /\ sent[job[j].key] = 0
  BY DEF ExpiryInv, InHand
<1>1. PICK x : x = [job[j] EXCEPT !.step = "next"] OBVIOUS
<1>2. x \in JobStates /\ x.step = "next" BY <1>t, <1>1 DEF JobStates
<1>3. job' = [job EXCEPT ![j] = x] BY <1>1 DEF To
<1>4. /\ sent' \in [Keys -> Nat] /\ sent'[job[j].key] = 1
      /\ \A k \in Keys : k # job[j].key => sent'[k] = sent[k]
  BY <1>t, <1>k
<1>5. job'[j] = x /\ \A i \in Jobs \ {j} : job'[i] = job[i] BY <1>t, <1>3
<1>6. ExpiryType' BY <1>2, <1>3, <1>4 DEF ExpiryInv, ExpiryType
<1>7. \A i \in Jobs : InHand(i)'
  <2> SUFFICES ASSUME NEW i \in Jobs \ {j} PROVE InHand(i)'
    BY <1>2, <1>5 DEF InHand
  <2>1. job[i].step = "send" => job[i].key # job[j].key BY <1>k DEF ExpiryInv, OneSender
  <2> QED BY <1>3, <1>4, <1>5, <2>1 DEF ExpiryInv, InHand
<1>8. OneSender' BY <1>2, <1>5 DEF ExpiryInv, OneSender
<1>9. SentIsClaimed' BY <1>k, <1>3, <1>4 DEF ExpiryInv, SentIsClaimed
<1>10. WarnedAtMostOnce'
  <2> SUFFICES ASSUME NEW k \in Keys
               PROVE  /\ sent'[k] =< 1
                      /\ k \in claimed /\ sent'[k] = 0 =>
                           k \in missed' \/ \E i \in Jobs : job'[i].step = "send" /\ job'[i].key = k
    BY DEF WarnedAtMostOnce
  <2>1. CASE k = job[j].key BY <1>4, <2>1
  <2>2. CASE k # job[j].key
    <3>1. sent'[k] = sent[k] /\ sent[k] =< 1 BY <1>4, <2>2 DEF ExpiryInv, WarnedAtMostOnce
    <3>2. ASSUME k \in claimed, sent[k] = 0, k \notin missed
          PROVE  \E i \in Jobs : job'[i].step = "send" /\ job'[i].key = k
      <4>1. PICK i \in Jobs : job[i].step = "send" /\ job[i].key = k
        BY <3>2 DEF ExpiryInv, WarnedAtMostOnce
      <4> QED BY <1>5, <2>2, <4>1
    <3> QED BY <3>1, <3>2
  <2> QED BY <2>1, <2>2
<1> QED BY <1>6, <1>7, <1>8, <1>9, <1>10 DEF ExpiryInv

LEMMA MailSteps ==
    ASSUME ExpiryInv, NEW j \in Jobs, sendExpiryEmail(j) \/ MailFails(j)
    PROVE  ExpiryInv'
<1>t. job[j] \in JobStates /\ sent \in [Keys -> Nat] BY DEF ExpiryInv, ExpiryType
<1>k. job[j].step = "send" /\ job[j].key \in Keys
  BY DEF sendExpiryEmail, MailFails, ExpiryInv, InHand
<1>1. CASE sendExpiryEmail(j)
  <2>1. /\ sent' = [sent EXCEPT ![job[j].key] = @ + 1] /\ To(j, [job[j] EXCEPT !.step = "next"])
        /\ claimed' = claimed /\ missed' = missed
    BY <1>1 DEF sendExpiryEmail, table
  <2> QED BY <1>k, <2>1, SendStep
<1>2. CASE MailFails(j)
  <2>1. /\ To(j, [job[j] EXCEPT !.step = "next"]) /\ claimed' = claimed
        /\ missed' = missed \cup {job[j].key}
    BY <1>2 DEF MailFails, table
  <2>2. PICK taken \in {0, 1} : sent' = [sent EXCEPT ![job[j].key] = @ + taken]
    BY <1>2 DEF MailFails
  <2>3. CASE taken = 1 BY <1>k, <2>1, <2>2, <2>3, SendStep
  <2>4. CASE taken = 0
    <3>1. sent' = sent BY <1>t, <1>k, <2>2, <2>4
    <3>2. PICK x : x = [job[j] EXCEPT !.step = "next"] OBVIOUS
    <3>3. x \in JobStates /\ x.step = "next" BY <1>t, <3>2 DEF JobStates
    <3>4. job' = [job EXCEPT ![j] = x] BY <2>1, <3>2 DEF To
    <3> QED BY <2>1, <3>1, <3>3, <3>4, QuietStep
  <2> QED BY <2>2, <2>3, <2>4
<1> QED BY <1>1, <1>2

\* A claim that commits although its job was told it had failed.
LEMMA LateClaim ==
    ASSUME ExpiryInv, NEW k \in Keys, ClaimLands(k)
    PROVE  ExpiryInv'
<1>1. /\ claimed' = claimed \cup {k} /\ k \in missed /\ k \notin claimed
      /\ job' = job /\ sent' = sent /\ missed' = missed
  BY DEF ClaimLands
<1>2. ExpiryType' /\ OneSender' /\ SentIsClaimed'
  BY <1>1 DEF ExpiryInv, ExpiryType, OneSender, SentIsClaimed
<1>3. \A j \in Jobs : InHand(j)' BY <1>1 DEF ExpiryInv, InHand
<1>4. WarnedAtMostOnce' BY <1>1 DEF ExpiryInv, WarnedAtMostOnce
<1> QED BY <1>2, <1>3, <1>4 DEF ExpiryInv

(* For any number of replicas and keys, the owner of a key is mailed at most *)
(* once, and a claim without a mail is about to be sent, or a claim or a     *)
(* mail of that key failed: the conditional UPDATE of                        *)
(* ClaimExpiryNotification lets one job through, and one that commits after  *)
(* its job was told of an error mails nobody.                                *)
THEOREM OwnersWarnedOnce == ExpirySpec => []WarnedAtMostOnce
<1>1. ExpiryInit => ExpiryInv
  <2> SUFFICES ASSUME ExpiryInit PROVE ExpiryInv
    OBVIOUS
  <2>1. PICK x : x = [Waiting EXCEPT !.step = "new"] OBVIOUS
  <2>2. x \in JobStates /\ x.step = "new" BY <2>1 DEF Waiting, JobStates
  <2>3. job = [j \in Jobs |-> x] /\ claimed = {} /\ sent = [k \in Keys |-> 0]
    BY <2>1 DEF ExpiryInit
  <2> QED BY <2>2, <2>3 DEF ExpiryInv, ExpiryType, InHand, OneSender, SentIsClaimed, WarnedAtMostOnce
<1>2. ExpiryInv /\ [ExpiryNext]_expiryVars => ExpiryInv'
  <2> SUFFICES ASSUME ExpiryInv, [ExpiryNext]_expiryVars PROVE ExpiryInv'
    OBVIOUS
  <2>1. ASSUME NEW j \in Jobs,
               \/ Progress(j) \/ Stop(j) \/ QueryFails(j) \/ (\E k \in Keys : LookupFails(j, k))
               \/ ClaimFails(j) \/ MailFails(j) \/ JobCrash(j)
        PROVE  ExpiryInv'
    BY <2>1, QuietJobSteps, ClaimStep, MailSteps DEF Progress
  <2>2. ASSUME \/ \E k \in Keys : ComesDue(k) \/ Expires(k) \/ Delete(k) \/ Renew(k)
               \/ Reconfigure \/ UNCHANGED expiryVars
        PROVE  ExpiryInv'
    <3>1. job' = job /\ claimed' = claimed /\ sent' = sent /\ missed' = missed
      BY <2>2 DEF ComesDue, Expires, Delete, Renew, Reconfigure, expiryVars, table
    <3> QED BY <3>1 DEF ExpiryInv, ExpiryType, InHand, OneSender, SentIsClaimed, WarnedAtMostOnce
  <2> QED BY <2>1, <2>2, LateClaim DEF ExpiryNext
<1>3. ExpiryInv => WarnedAtMostOnce BY DEF ExpiryInv
<1> QED BY <1>1, <1>2, <1>3, PTL DEF ExpirySpec
-----------------------------------------------------------------------------
(* The notifier's claims. While no renewal was overtaken, the row carries    *)
(* the time of the last win, a chosen row is older than the prune's grace,   *)
(* and a missing one was pruned that late.                                   *)
DedupType ==
    /\ clock \in Int
    /\ claimedAt \in Int \cup {NoClaim} /\ lastWon \in Int \cup {NoClaim}
    /\ overtaken \in BOOLEAN

ClaimIsLastWin == claimedAt # NoClaim => claimedAt = lastWon

PrunedLate ==
    ~overtaken =>
        /\ chosen # {} => lastWon # NoClaim /\ lastWon < clock - DedupTTL
        /\ claimedAt = NoClaim => lastWon = NoClaim \/ lastWon < clock - DedupTTL

DedupInv == DedupType /\ ClaimIsLastWin /\ PrunedLate

LEMMA DedupStep == DedupInv /\ [NotifyNext]_notifyVars => DedupInv'
<1> SUFFICES ASSUME DedupInv, [NotifyNext]_notifyVars PROVE DedupInv'
  OBVIOUS
<1>i. DedupType /\ ClaimIsLastWin /\ PrunedLate BY DEF DedupInv
<1>1. ASSUME NEW n \in Notifiers, ClaimWon(n) PROVE DedupInv'
  <2>1. /\ clock' = clock /\ claimedAt' = clock /\ lastWon' = clock /\ chosen' = chosen
        /\ overtaken' = (overtaken \/ chosen # {})
    BY <1>1 DEF ClaimWon
  <2>2. clock # NoClaim BY <1>i, NotifierAssumption DEF DedupType
  <2>3. DedupType' /\ ClaimIsLastWin' BY <1>i, <2>1 DEF DedupType, ClaimIsLastWin
  <2>4. PrunedLate' BY <2>1, <2>2 DEF PrunedLate
  <2> QED BY <2>3, <2>4 DEF DedupInv
<1>2. ASSUME NEW n \in Notifiers, PruneChooses(n) PROVE DedupInv'
  <2>1. /\ clock' = clock /\ claimedAt' = claimedAt /\ lastWon' = lastWon /\ overtaken' = overtaken
        /\ claimedAt # NoClaim /\ claimedAt < clock + Skew[n] - dedupPruneGrace
    BY <1>2 DEF PruneChooses, dedup
  <2>2. DedupTTL + Skew[n] =< dedupPruneGrace /\ Skew[n] \in Int BY NotifierAssumption
  <2>3. claimedAt < clock - DedupTTL
    BY <1>i, <2>1, <2>2, NotifierAssumption DEF DedupType
  <2> QED BY <1>i, <2>1, <2>3 DEF DedupInv, DedupType, ClaimIsLastWin, PrunedLate
<1>3. ASSUME NEW n \in Notifiers, PruneDeletes(n) PROVE DedupInv'
  <2>1. /\ clock' = clock /\ claimedAt' = NoClaim /\ lastWon' = lastWon /\ overtaken' = overtaken
        /\ chosen # {}
    BY <1>3 DEF PruneDeletes
  <2> QED BY <1>i, <2>1 DEF DedupInv, DedupType, ClaimIsLastWin, PrunedLate
<1>4. CASE NotifyTick
  <2>1. /\ clock' = clock + 1 /\ claimedAt' = claimedAt /\ lastWon' = lastWon
        /\ overtaken' = overtaken /\ chosen' = chosen
    BY <1>4 DEF NotifyTick, dedup
  <2> QED BY <1>i, <2>1, NotifierAssumption DEF DedupInv, DedupType, ClaimIsLastWin, PrunedLate
<1>5. ASSUME NEW n \in Notifiers,
             \/ ClaimLost(n) \/ Unclaimed(n) \/ Skip(n) \/ ListEnabledForEvent(n) \/ ListFails(n)
             \/ Finish(n) \/ Crash(n) \/ Restart(n)
             \/ \E c \in Channels : Deliver(n, c) \/ SendTest(n, c)
      PROVE  DedupInv'
  <2>1. /\ clock' = clock /\ claimedAt' = claimedAt /\ lastWon' = lastWon
        /\ overtaken' = overtaken /\ chosen' \subseteq chosen
    BY <1>5 DEF ClaimLost, Unclaimed, Skip, ListEnabledForEvent, ListFails, Finish, Crash,
                Restart, Deliver, SendTest, dedup
  <2> QED BY <1>i, <2>1 DEF DedupInv, DedupType, ClaimIsLastWin, PrunedLate
<1>6. CASE UNCHANGED notifyVars
  BY <1>i, <1>6 DEF notifyVars, DedupInv, DedupType, ClaimIsLastWin, PrunedLate
<1> QED BY <1>1, <1>2, <1>3, <1>4, <1>5, <1>6 DEF NotifyNext, Proceed

(* For any number of replicas, any clocks, and any TTL that with the lead of  *)
(* a replica's clock stays within the prune's grace, ClaimDedup grants a key *)
(* once per TTL and withholds it no longer, except after a renewal that a    *)
(* prune overtook.                                                           *)
THEOREM DedupHoldsItsWindow == NotifySpec => ClaimedOncePerWindow
<1>1. NotifyInit => DedupInv
  <2> SUFFICES ASSUME NotifyInit PROVE DedupInv
    OBVIOUS
  <2>1. clock = 0 /\ claimedAt = NoClaim /\ lastWon = NoClaim /\ overtaken = FALSE /\ chosen = {}
    BY DEF NotifyInit
  <2>a. clock \in Int BY <2>1
  <2>2. DedupType BY <2>1, <2>a, Zenon DEF DedupType
  <2>3. ClaimIsLastWin BY <2>1 DEF ClaimIsLastWin
  <2>4. PrunedLate BY <2>1, Zenon DEF PrunedLate
  <2> QED BY <2>2, <2>3, <2>4 DEF DedupInv
<1>2. DedupInv /\ [NotifyNext]_notifyVars =>
        [\A n \in Notifiers :
          /\ ClaimWon(n) /\ ~overtaken => lastWon = NoClaim \/ clock - lastWon > DedupTTL
          /\ ClaimLost(n) => lastWon # NoClaim /\ clock - lastWon =< DedupTTL]_notifyVars
  <2> SUFFICES ASSUME DedupInv, NEW n \in Notifiers
               PROVE  /\ ClaimWon(n) /\ ~overtaken => lastWon = NoClaim \/ clock - lastWon > DedupTTL
                      /\ ClaimLost(n) => lastWon # NoClaim /\ clock - lastWon =< DedupTTL
    OBVIOUS
  <2>1. ASSUME Claimable, ~overtaken PROVE lastWon = NoClaim \/ clock - lastWon > DedupTTL
    BY <2>1, NotifierAssumption DEF DedupInv, DedupType, ClaimIsLastWin, PrunedLate, Claimable
  <2>2. ASSUME ~Claimable PROVE lastWon # NoClaim /\ clock - lastWon =< DedupTTL
    BY <2>2, NotifierAssumption DEF DedupInv, DedupType, ClaimIsLastWin, Claimable
  <2> QED BY <2>1, <2>2 DEF ClaimWon, ClaimLost
<1> QED BY <1>1, <1>2, DedupStep, PTL DEF NotifySpec, ClaimedOncePerWindow
-----------------------------------------------------------------------------
(* The OIDC configurations. A transaction past the index has every active    *)
(* row among those it turns off, and is the only one there.                  *)
Transactions ==
    [op : {"none", "activate", "create", "deactivate"}, target : SUBSET Configs,
     step : {"idle", "open", "written"}, todo : SUBSET Configs, held : SUBSET Configs]

OidcType ==
    /\ oidcRow \in [Configs -> {"absent", "off", "on"}]
    /\ tx \in [Admins -> Transactions]

OneActive == \A c, d \in Active : c = d

TxShape(a) ==
    /\ \A c, d \in tx[a].target : c = d
    /\ tx[a].op = "deactivate" => tx[a].target = {}
    /\ tx[a].step = "written" =>
         /\ tx[a].target # {} /\ Active \subseteq tx[a].held \cup tx[a].target
         /\ \A b \in Admins \ {a} : tx[b].step # "written"

OidcInv == OidcType /\ OneActive /\ \A a \in Admins : TxShape(a)

\* At most one row is at most one row.
LEMMA OneActiveCounted == OneActive => Cardinality(Active) =< 1
<1> SUFFICES ASSUME OneActive PROVE Cardinality(Active) =< 1
  OBVIOUS
<1>1. CASE Active = {} BY <1>1, FS_EmptySet
<1>2. CASE Active # {}
  <2>1. PICK c \in Active : TRUE BY <1>2
  <2>2. Active = {c} BY <2>1 DEF OneActive
  <2> QED BY <2>2, FS_Singleton
<1> QED BY <1>1, <1>2

LEMMA OidcStart == OidcInit => OidcInv
<1> SUFFICES ASSUME OidcInit PROVE OidcInv
  OBVIOUS
<1>1. tx = [a \in Admins |-> NoTx] BY DEF OidcInit
<1>2. NoTx \in Transactions /\ NoTx.target = {} /\ NoTx.step = "idle" BY DEF NoTx, Transactions
<1>3. OidcType /\ OneActive BY <1>1, <1>2 DEF OidcInit, OidcType, OneActive
<1>4. \A a \in Admins : TxShape(a) BY <1>1, <1>2 DEF TxShape
<1> QED BY <1>3, <1>4 DEF OidcInv

\* One transaction's own step, short of its commit.
LEMMA TxStep ==
    ASSUME OidcInv, NEW a \in Admins, NEW x \in Transactions,
           tx' = [tx EXCEPT ![a] = x], oidcRow' = oidcRow,
           \A c, d \in x.target : c = d,
           x.op = "deactivate" => x.target = {},
           x.step = "written" =>
             /\ x.target # {} /\ Active \subseteq x.held \cup x.target
             /\ \A b \in Admins \ {a} : tx[b].step # "written"
    PROVE  OidcInv'
<1>i. OidcType /\ OneActive /\ \A b \in Admins : TxShape(b) BY DEF OidcInv
<1>1. tx' \in [Admins -> Transactions] /\ tx'[a] = x /\ \A b \in Admins \ {a} : tx'[b] = tx[b]
  BY <1>i DEF OidcType
<1>2. Active' = Active BY DEF Active
<1>3. OidcType' /\ OneActive' BY <1>i, <1>1, <1>2 DEF OidcType, OneActive
<1>4. TxShape(a)' BY <1>1, <1>2 DEF TxShape
<1>5. ASSUME NEW b \in Admins \ {a} PROVE TxShape(b)'
  <2>1. TxShape(b) /\ tx'[b] = tx[b] BY <1>i, <1>1
  <2>2. tx[b].step = "written" => x.step # "written" BY <1>1
  <2> QED BY <1>1, <1>2, <2>1, <2>2 DEF TxShape
<1> QED BY <1>3, <1>4, <1>5 DEF OidcInv

LEMMA OpenSteps ==
    ASSUME OidcInv, NEW a \in Admins,
           \/ BeginActivate(a) \/ BeginCreate(a) \/ BeginDeactivateAll(a)
           \/ Write(a) \/ Rollback(a) \/ \E c \in Configs : DeactivateRow(a, c)
    PROVE  OidcInv' /\ oidcRow' = oidcRow
<1>i. OidcType /\ OneActive /\ \A b \in Admins : TxShape(b) BY DEF OidcInv
<1>t. tx[a] \in Transactions /\ TxShape(a) BY <1>i DEF OidcType
<1>n. NoTx \in Transactions /\ NoTx.target = {} /\ NoTx.step = "idle" /\ NoTx.op = "none"
  BY DEF NoTx, Transactions
<1>1. ASSUME NEW op \in {"activate", "create", "deactivate"}, NEW target \in SUBSET Configs,
             \A c, d \in target : c = d, op = "deactivate" => target = {}, Begin(a, op, target)
      PROVE  OidcInv' /\ oidcRow' = oidcRow
  <2>1. PICK x : x = [op |-> op, target |-> target, step |-> "open", todo |-> Present, held |-> {}]
    OBVIOUS
  <2>2. x \in Transactions /\ x.op = op /\ x.target = target /\ x.step = "open"
    BY <2>1 DEF Transactions, Present
  <2>3. tx' = [tx EXCEPT ![a] = x] /\ oidcRow' = oidcRow /\ tx[a].step = "idle"
    BY <1>1, <1>t, <2>1 DEF Begin, Open
  <2> QED BY <1>1, <2>2, <2>3, TxStep
<1>2. CASE BeginActivate(a) \/ BeginCreate(a) \/ BeginDeactivateAll(a)
  <2>1. CASE BeginActivate(a) BY <1>1, <2>1 DEF BeginActivate
  <2>2. CASE BeginCreate(a) BY <1>1, <2>2 DEF BeginCreate
  <2>3. CASE BeginDeactivateAll(a) BY <1>1, <2>3 DEF BeginDeactivateAll
  <2> QED BY <1>2, <2>1, <2>2, <2>3
<1>3. CASE Rollback(a)
  <2>1. tx' = [tx EXCEPT ![a] = NoTx] /\ oidcRow' = oidcRow BY <1>3 DEF Rollback
  <2> QED BY <1>n, <2>1, TxStep
<1>4. ASSUME NEW c \in Configs, DeactivateRow(a, c) PROVE OidcInv' /\ oidcRow' = oidcRow
  <2>1. PICK x : x = [tx[a] EXCEPT !.todo = tx[a].todo \ {c}, !.held = tx[a].held \cup ({c} \cap Present)]
    OBVIOUS
  <2>2. /\ x \in Transactions /\ x.op = tx[a].op /\ x.target = tx[a].target /\ x.step = tx[a].step
        /\ tx[a].held \subseteq x.held
    BY <1>t, <2>1 DEF Transactions, Present
  <2>3. tx' = [tx EXCEPT ![a] = x] /\ oidcRow' = oidcRow BY <1>i, <1>4, <2>1 DEF DeactivateRow, OidcType
  <2>4. /\ \A d, e \in x.target : d = e
        /\ x.op = "deactivate" => x.target = {}
        /\ x.step = "written" =>
             /\ x.target # {} /\ Active \subseteq x.held \cup x.target
             /\ \A b \in Admins \ {a} : tx[b].step # "written"
    BY <1>t, <2>2 DEF TxShape
  <2> QED BY <2>2, <2>3, <2>4, TxStep
<1>5. CASE Write(a)
  <2>1. /\ tx[a].step = "open" /\ tx[a].target # {} /\ oidcRow' = oidcRow
        /\ \A b \in Admins \ {a} : tx[b].step # "written"
    BY <1>5 DEF Write, IndexBusy
  <2>2. CASE Refused(a)
    <3>1. tx' = [tx EXCEPT ![a] = NoTx] BY <1>5, <2>2 DEF Write
    <3> QED BY <1>n, <2>1, <3>1, TxStep
  <2>3. CASE ~Refused(a)
    <3>1. Active \subseteq tx[a].held \cup tx[a].target BY <2>3 DEF Refused, IndexTaken
    <3>2. PICK x : x = [tx[a] EXCEPT !.step = "written", !.held = tx[a].held \cup tx[a].target]
      OBVIOUS
    <3>3. /\ x \in Transactions /\ x.op = tx[a].op /\ x.target = tx[a].target
          /\ x.held = tx[a].held \cup tx[a].target
      BY <1>t, <3>2 DEF Transactions
    <3>4. tx' = [tx EXCEPT ![a] = x] BY <1>5, <2>3, <3>2, Zenon DEF Write
    <3> QED BY <1>t, <2>1, <3>1, <3>3, <3>4, TxStep DEF TxShape
  <2> QED BY <2>2, <2>3
<1> QED BY <1>2, <1>3, <1>4, <1>5

\* Rows go off or away: what was true of the active ones stays true.
LEMMA FewerActive ==
    ASSUME OidcInv, oidcRow' \in [Configs -> {"absent", "off", "on"}], Active' \subseteq Active,
           tx' = tx \/ \E a \in Admins : tx' = [tx EXCEPT ![a] = NoTx]
    PROVE  OidcInv'
<1>i. OidcType /\ OneActive /\ \A b \in Admins : TxShape(b) BY DEF OidcInv
<1>n. NoTx \in Transactions /\ NoTx.target = {} /\ NoTx.step = "idle" BY DEF NoTx, Transactions
<1>1. /\ tx' \in [Admins -> Transactions]
      /\ \A b \in Admins : tx'[b] = tx[b] \/ tx'[b] = NoTx
  BY <1>i, <1>n DEF OidcType
<1>2. OidcType' /\ OneActive' BY <1>i, <1>1 DEF OidcType, OneActive
<1>3. ASSUME NEW b \in Admins PROVE TxShape(b)'
  <2>1. CASE tx'[b] = NoTx BY <1>n, <2>1 DEF TxShape
  <2>2. CASE tx'[b] = tx[b]
    <3>1. TxShape(b) BY <1>i
    <3>2. \A d \in Admins : tx'[d].step = "written" => tx[d].step = "written" BY <1>n, <1>1
    <3> QED BY <2>2, <3>1, <3>2 DEF TxShape
  <2> QED BY <1>1, <2>1, <2>2
<1> QED BY <1>2, <1>3 DEF OidcInv

LEMMA CommitTx ==
    ASSUME OidcInv, NEW a \in Admins, Commit(a)
    PROVE  OidcInv' /\ (Active' # {} \/ tx[a].op = "deactivate")
<1>i. OidcType /\ OneActive /\ \A b \in Admins : TxShape(b) BY DEF OidcInv
<1>t. tx[a] \in Transactions /\ TxShape(a) BY <1>i DEF OidcType
<1>1. /\ oidcRow' = [c \in Configs |-> IF c \in tx[a].target THEN "on"
                                       ELSE IF c \in tx[a].held THEN "off" ELSE oidcRow[c]]
      /\ tx' = [tx EXCEPT ![a] = NoTx]
  BY DEF Commit
<1>2. oidcRow' \in [Configs -> {"absent", "off", "on"}] BY <1>i, <1>1 DEF OidcType
<1>3. Active' = (Active \ tx[a].held) \cup tx[a].target
  BY <1>t, <1>1 DEF Active, Transactions
<1>4. CASE tx[a].step = "written"
  <2>1. Active' = tx[a].target BY <1>t, <1>3, <1>4 DEF TxShape
  <2>2. tx[a].target # {} /\ OneActive' BY <1>t, <1>4, <2>1 DEF TxShape, OneActive
  <2>n. NoTx \in Transactions /\ NoTx.target = {} /\ NoTx.step = "idle" BY DEF NoTx, Transactions
  <2>3. OidcType' BY <1>i, <1>1, <1>2, <2>n DEF OidcType
  <2>4. ASSUME NEW b \in Admins PROVE TxShape(b)'
    <3>1. CASE b = a
      <4>1. tx'[b] = NoTx BY <1>i, <1>1, <3>1 DEF OidcType
      <4> QED BY <2>n, <4>1 DEF TxShape
    <3>2. CASE b # a
      <4>1. tx'[b] = tx[b] /\ TxShape(b) BY <1>i, <1>1, <3>2 DEF OidcType
      <4>2. tx[b].step # "written" BY <1>t, <1>4, <3>2 DEF TxShape
      <4> QED BY <4>1, <4>2 DEF TxShape
    <3> QED BY <3>1, <3>2
  <2> QED BY <2>1, <2>2, <2>3, <2>4 DEF OidcInv
<1>5. CASE tx[a].op = "deactivate"
  <2>1. Active' \subseteq Active BY <1>t, <1>3, <1>5 DEF TxShape
  <2> QED BY <1>1, <1>2, <1>5, <2>1, FewerActive
<1> QED BY <1>4, <1>5 DEF Commit

LEMMA LoneStatements ==
    ASSUME OidcInv, NEW c \in Configs, CreateInactive(c) \/ DeleteOIDCConfig(c)
    PROVE  OidcInv' /\ (Active' = Active \/ (DeleteOIDCConfig(c) /\ Active' = Active \ {c}))
<1>i. oidcRow \in [Configs -> {"absent", "off", "on"}] BY DEF OidcInv, OidcType
<1>1. CASE CreateInactive(c)
  <2>1. Active' = Active /\ tx' = tx /\ oidcRow' \in [Configs -> {"absent", "off", "on"}]
    BY <1>i, <1>1 DEF CreateInactive, Active
  <2> QED BY <2>1, FewerActive
<1>2. CASE DeleteOIDCConfig(c)
  <2>1. Active' = Active \ {c} /\ tx' = tx /\ oidcRow' \in [Configs -> {"absent", "off", "on"}]
    BY <1>i, <1>2 DEF DeleteOIDCConfig, Active
  <2> QED BY <1>2, <2>1, FewerActive
<1> QED BY <1>1, <1>2

(* For any number of configurations and sessions, the transactions of        *)
(* ActivateOIDCConfig and CreateOIDCConfig with the unique index leave at    *)
(* most one configuration active, and none only after a delete of the active *)
(* one or a DeactivateAllOIDCConfigs.                                        *)
THEOREM SwitchingIsAtomic == OidcSpec => SwitchIsAtomic
<1>1. OidcInv /\ [OidcNext]_oidcVars => OidcInv'
  <2> SUFFICES ASSUME OidcInv, [OidcNext]_oidcVars PROVE OidcInv'
    OBVIOUS
  <2>1. CASE OidcNext BY <2>1, OpenSteps, CommitTx, LoneStatements DEF OidcNext
  <2>2. CASE UNCHANGED oidcVars
    BY <2>2 DEF oidcVars, OidcInv, OidcType, OneActive, TxShape, Active
  <2> QED BY <2>1, <2>2
<1>2. OidcInv /\ OidcInv' /\ [OidcNext]_oidcVars =>
        [ /\ Cardinality(Active') =< 1
          /\ Active # {} /\ Active' = {} =>
               \/ \E c \in Active : DeleteOIDCConfig(c)
               \/ \E a \in Admins : tx[a].op = "deactivate" /\ Commit(a) ]_oidcVars
  <2> SUFFICES ASSUME OidcInv, OidcInv', OidcNext
               PROVE  /\ Cardinality(Active') =< 1
                      /\ Active # {} /\ Active' = {} =>
                           \/ \E c \in Active : DeleteOIDCConfig(c)
                           \/ \E a \in Admins : tx[a].op = "deactivate" /\ Commit(a)
    OBVIOUS
  <2>1. Cardinality(Active') =< 1
    <3>1. OneActive' BY DEF OidcInv
    <3>2. (OneActive => Cardinality(Active) =< 1)' BY OneActiveCounted, PTL
    <3> QED BY <3>1, <3>2
  <2>2. ASSUME Active # {}, Active' = {}
        PROVE  \/ \E c \in Active : DeleteOIDCConfig(c)
               \/ \E a \in Admins : tx[a].op = "deactivate" /\ Commit(a)
    <3>1. ASSUME NEW a \in Admins, Commit(a) PROVE tx[a].op = "deactivate"
      BY <2>2, <3>1, CommitTx
    <3>2. ASSUME oidcRow' = oidcRow PROVE FALSE BY <2>2, <3>2 DEF Active
    <3>3. ASSUME NEW c \in Configs, CreateInactive(c) \/ DeleteOIDCConfig(c)
          PROVE  c \in Active /\ DeleteOIDCConfig(c)
      BY <2>2, <3>3, LoneStatements
    <3> QED BY <3>1, <3>2, <3>3, OpenSteps DEF OidcNext
  <2> QED BY <2>1, <2>2
<1> QED BY <1>1, <1>2, OidcStart, PTL DEF OidcSpec, SwitchIsAtomic
-----------------------------------------------------------------------------
(* The audit retention. What a sweep in flight has chosen is free of the     *)
(* holds it saw in force, and is a full batch or all of what it saw; one     *)
(* that met no other sweep finds its rows still there.                       *)
Sweeps == [step : {"idle", "delete"}, option : {"none"} \cup Options, cutoff : Int,
           seen : SUBSET Entries, chosen : SUBSET Entries, inForce : SUBSET Holds, alone : BOOLEAN]

RetentionType ==
    /\ entries \in SUBSET Entries
    /\ hold \in [Holds -> [active : BOOLEAN, start : Int, end : Int]]
    /\ \A h \in Holds : hold[h] = NoHold \/ hold[h].start =< hold[h].end
    /\ sweep \in [Sweepers -> Sweeps]

SeenHeld(s, l) == \E h \in sweep[s].inForce : CreatedAt[l] \in HoldRange(h)

SweepShape(s) ==
    sweep[s].step = "delete" =>
        /\ sweep[s].cutoff \in Times
        /\ \A h \in sweep[s].inForce : hold[h] # NoHold
        /\ sweep[s].option = "table" => \A l \in sweep[s].chosen : ~SeenHeld(s, l)
        /\ \/ Cardinality(sweep[s].chosen) = BatchSize
           \/ \A l \in entries \cap sweep[s].seen :
                                 \/ CreatedAt[l] >= sweep[s].cutoff
                                 \/ l \in sweep[s].chosen
                                 \/ sweep[s].option = "table" /\ SeenHeld(s, l)
        /\ sweep[s].alone => /\ sweep[s].chosen \subseteq entries
                             /\ \A r \in Sweepers \ {s} : sweep[r].step = "idle"

RetentionInv == RetentionType /\ \A s \in Sweepers : SweepShape(s)

LEMMA NoSweepIdle == NoSweep \in Sweeps /\ NoSweep.step = "idle"
BY DEF NoSweep, Sweeps

LEMMA RetentionStart == RetentionInit => RetentionInv
<1> SUFFICES ASSUME RetentionInit PROVE RetentionInv
  OBVIOUS
<1>1. /\ entries \in SUBSET Entries
      /\ hold = [h \in Holds |-> NoHold] /\ sweep = [s \in Sweepers |-> NoSweep]
  BY DEF RetentionInit
<1>2. NoHold \in [active : BOOLEAN, start : Int, end : Int] BY DEF NoHold
<1>3. RetentionType BY <1>1, <1>2, NoSweepIdle DEF RetentionType
<1>4. \A s \in Sweepers : SweepShape(s) BY <1>1, NoSweepIdle DEF SweepShape
<1> QED BY <1>3, <1>4 DEF RetentionInv

\* The host: its holds keep the range they were placed with, and no sweep has
\* seen a new row.
LEMMA HostSteps ==
    ASSUME RetentionInv,
           \/ LegalHoldTableDDL
           \/ \E h \in Holds : PlaceHold(h) \/ ReleaseHold(h)
           \/ \E l \in Entries : Append(l)
    PROVE  RetentionInv'
<1>i. RetentionType /\ \A s \in Sweepers : SweepShape(s) BY DEF RetentionInv
<1>1. CASE LegalHoldTableDDL
  BY <1>i, <1>1 DEF LegalHoldTableDDL, RetentionInv, RetentionType, SweepShape, SeenHeld, HoldRange
<1>2. ASSUME NEW h \in Holds, PlaceHold(h) \/ ReleaseHold(h) PROVE RetentionInv'
  <2>1. entries' = entries /\ sweep' = sweep BY <1>2 DEF PlaceHold, ReleaseHold
  <2>2. /\ hold' \in [Holds -> [active : BOOLEAN, start : Int, end : Int]]
        /\ \A g \in Holds \ {h} : hold'[g] = hold[g]
        /\ hold'[h].start =< hold'[h].end
        /\ \/ hold[h] = NoHold
           \/ hold'[h].start = hold[h].start /\ hold'[h].end = hold[h].end
    <3>1. CASE PlaceHold(h)
      <4>1. PICK x, y \in Times : /\ x =< y
                                  /\ hold' = [hold EXCEPT ![h] = [active |-> TRUE, start |-> x, end |-> y]]
        BY <3>1 DEF PlaceHold
      <4>2. x \in Int /\ y \in Int BY RetentionAssumption
      <4>3. hold[h] = NoHold BY <3>1 DEF PlaceHold
      <4> QED BY <1>i, <4>1, <4>2, <4>3 DEF RetentionType
    <3>2. CASE ReleaseHold(h)
      <4>1. hold' = [hold EXCEPT ![h].active = FALSE] /\ hold[h].active BY <3>2 DEF ReleaseHold
      <4>2. hold[h] # NoHold BY <4>1 DEF NoHold
      <4> QED BY <1>i, <4>1, <4>2 DEF RetentionType
    <3> QED BY <1>2, <3>1, <3>2
  <2>n. ~(NoHold.start =< NoHold.end) BY DEF NoHold
  <2>3. ASSUME NEW s \in Sweepers PROVE SweepShape(s)'
    <3> SUFFICES ASSUME sweep[s].step = "delete" PROVE SweepShape(s)'
      BY <2>1 DEF SweepShape
    <3>1. SweepShape(s) /\ sweep[s].inForce \in SUBSET Holds BY <1>i DEF RetentionType, Sweeps
    <3>2. ASSUME NEW g \in sweep[s].inForce
          PROVE  hold'[g].start = hold[g].start /\ hold'[g].end = hold[g].end
      BY <2>2, <3>1, <3>2 DEF SweepShape
    <3>3. \A l \in Entries : SeenHeld(s, l)' <=> SeenHeld(s, l)
      BY <2>1, <3>2 DEF SeenHeld, HoldRange
    <3>4. \A g \in sweep[s].inForce : hold'[g] # NoHold
      <4> SUFFICES ASSUME NEW g \in sweep[s].inForce PROVE hold'[g] # NoHold
        OBVIOUS
      <4>1. hold[g] # NoHold /\ g \in Holds BY <3>1 DEF SweepShape
      <4>2. CASE g = h BY <2>2, <2>n, <4>2
      <4>3. CASE g # h BY <2>2, <4>1, <4>3
      <4> QED BY <4>2, <4>3
    <3>5. sweep[s].chosen \subseteq Entries /\ entries \subseteq Entries
      BY <1>i DEF RetentionType, Sweeps
    <3> QED BY <2>1, <3>1, <3>3, <3>4, <3>5 DEF SweepShape
  <2>4. \A g \in Holds : hold'[g] = NoHold \/ hold'[g].start =< hold'[g].end
    BY <1>i, <2>2 DEF RetentionType
  <2>5. RetentionType' BY <1>i, <2>1, <2>2, <2>4 DEF RetentionType
  <2> QED BY <2>3, <2>5 DEF RetentionInv
<1>3. ASSUME NEW l \in Entries, Append(l) PROVE RetentionInv'
  <2>1. /\ entries' = entries \cup {l} /\ hold' = hold /\ sweep' = sweep
        /\ \A s \in Sweepers : l \notin sweep[s].seen
    BY <1>3 DEF Append
  <2>2. RetentionType' BY <1>i, <2>1 DEF RetentionType
  <2>3. ASSUME NEW s \in Sweepers PROVE SweepShape(s)'
    <3> SUFFICES ASSUME sweep[s].step = "delete" PROVE SweepShape(s)'
      BY <2>1 DEF SweepShape
    <3>1. SweepShape(s) BY <1>i
    <3>2. \A k : SeenHeld(s, k)' <=> SeenHeld(s, k) BY <2>1 DEF SeenHeld, HoldRange
    <3>3. entries' \cap sweep[s].seen = entries \cap sweep[s].seen BY <2>1
    <3> QED BY <2>1, <3>1, <3>2, <3>3 DEF SweepShape
  <2> QED BY <2>2, <2>3 DEF RetentionInv
<1> QED BY <1>1, <1>2, <1>3

\* The rows a statement chooses: exempt none that is held, a full batch or all.
LEMMA ChosenRows ==
    ASSUME NEW option, NEW cutoff \in Times, NEW C \in Choose(option, cutoff), RetentionType
    PROVE  /\ C \subseteq entries
           /\ \A l \in C : exemption(option, l)
           /\ \/ Cardinality(C) = BatchSize
              \/ \A l \in entries : CreatedAt[l] >= cutoff \/ l \in C \/ ~exemption(option, l)
<1> DEFINE rows == Sweepable(option, cutoff)
<1>1. /\ C \subseteq rows
      /\ Cardinality(C) = IF Cardinality(rows) < BatchSize THEN Cardinality(rows) ELSE BatchSize
  BY DEF Choose, OldestFirst
<1>2. rows \subseteq entries /\ \A l \in rows : exemption(option, l) BY DEF Sweepable
<1>3. ASSUME Cardinality(rows) < BatchSize PROVE C = rows
  <2>1. IsFiniteSet(rows)
    <3>1. rows \in SUBSET Entries BY <1>2 DEF RetentionType
    <3> QED BY <3>1, FS_Subset, RetentionAssumption
  <2>2. Cardinality(C) = Cardinality(rows) BY <1>1, <1>3
  <2> HIDE DEF rows
  <2> QED BY <1>1, <2>1, <2>2, FS_Subset
<1>4. ASSUME NEW l \in entries, l \notin rows, exemption(option, l) PROVE CreatedAt[l] >= cutoff
  <2>1. ~(CreatedAt[l] < cutoff) BY <1>4 DEF Sweepable
  <2>2. CreatedAt[l] \in Int /\ cutoff \in Int BY RetentionAssumption DEF RetentionType
  <2> QED BY <2>1, <2>2
<1> HIDE DEF rows
<1>5. CASE Cardinality(rows) < BatchSize BY <1>2, <1>3, <1>4, <1>5
<1>6. CASE ~(Cardinality(rows) < BatchSize) BY <1>1, <1>2, <1>6
<1> QED BY <1>5, <1>6

LEMMA SweepBegins ==
    ASSUME RetentionInv, NEW s \in Sweepers, NEW option \in Options, NEW cutoff \in Times,
           DeleteAuditLogsBefore(s, option, cutoff)
    PROVE  RetentionInv'
<1>i. RetentionType /\ \A r \in Sweepers : SweepShape(r) BY DEF RetentionInv
<1>1. PICK C \in Choose(option, cutoff) :
        sweep' = [r \in Sweepers |->
                    IF r = s THEN [step |-> "delete", option |-> option, cutoff |-> cutoff,
                                   seen |-> entries, chosen |-> C,
                                   inForce |-> {h \in Holds : hold[h].active},
                                   alone |-> Sweeping = {}]
                    ELSE IF r \in Sweeping THEN [sweep[r] EXCEPT !.alone = FALSE] ELSE sweep[r]]
  BY DEF DeleteAuditLogsBefore
<1>u. entries' = entries /\ hold' = hold BY DEF DeleteAuditLogsBefore
<1>c. /\ C \subseteq entries /\ C \subseteq Entries
      /\ \A l \in C : exemption(option, l)
      /\ \/ Cardinality(C) = BatchSize
         \/ \A l \in entries : CreatedAt[l] >= cutoff \/ l \in C \/ ~exemption(option, l)
  BY <1>i, <1>1, ChosenRows DEF RetentionType
<1>2. PICK x : x = [step |-> "delete", option |-> option, cutoff |-> cutoff,
                    seen |-> entries, chosen |-> C, inForce |-> {h \in Holds : hold[h].active}, alone |-> Sweeping = {}]
  OBVIOUS
<1>3. /\ x \in Sweeps /\ x.cutoff = cutoff /\ x.chosen = C /\ x.option = option
      /\ x.seen = entries /\ x.inForce = {h \in Holds : hold[h].active} /\ x.alone = (Sweeping = {})
  <2>1. PICK b \in BOOLEAN : b = (Sweeping = {}) OBVIOUS
  <2>2. cutoff \in Int BY RetentionAssumption
  <2>3. entries \in SUBSET Entries BY <1>i DEF RetentionType
  <2> QED BY <1>2, <1>c, <2>1, <2>2, <2>3 DEF Sweeps
<1>4. sweep'[s] = x BY <1>1, <1>2
<1>5. ASSUME NEW r \in Sweepers \ {s}
      PROVE  \/ sweep'[r] = sweep[r] /\ sweep[r].step = "idle"
             \/ sweep'[r] = [sweep[r] EXCEPT !.alone = FALSE] /\ sweep[r].step = "delete"
  <2>1. sweep[r].step \in {"idle", "delete"} BY <1>i DEF RetentionType, Sweeps
  <2> QED BY <1>1, <2>1 DEF Sweeping
<1>6. ASSUME NEW r \in Sweepers PROVE sweep'[r] \in Sweeps
  <2>1. sweep[r] \in Sweeps BY <1>i DEF RetentionType
  <2>2. CASE r = s BY <1>3, <1>4, <2>2
  <2>3. CASE r # s /\ sweep'[r] = sweep[r] BY <2>1, <2>3
  <2>4. CASE sweep'[r] = [sweep[r] EXCEPT !.alone = FALSE] BY <2>1, <2>4 DEF Sweeps
  <2> QED BY <1>5, <2>2, <2>3, <2>4
<1>7. RetentionType'
  <2>1. DOMAIN sweep' = Sweepers /\ sweep' = [r \in Sweepers |-> sweep'[r]] BY <1>1
  <2>2. sweep' \in [Sweepers -> Sweeps] BY <1>6, <2>1
  <2> QED BY <1>i, <1>u, <2>2 DEF RetentionType
<1>8. SweepShape(s)'
  <2>1. ASSUME NEW l PROVE option = "table" => (SeenHeld(s, l)' <=> ~exemption(option, l))
    BY <1>u, <1>3, <1>4 DEF SeenHeld, HoldRange, exemption
  <2>2. option # "table" => \A l : exemption(option, l) BY DEF exemption
  <2>3. \A h \in x.inForce : hold'[h] # NoHold BY <1>u, <1>3 DEF NoHold
  <2>4. x.option = "table" => \A l \in x.chosen : ~SeenHeld(s, l)' BY <1>c, <1>3, <2>1
  <2>5. \/ Cardinality(x.chosen) = BatchSize
        \/ \A l \in entries' : \/ CreatedAt[l] >= x.cutoff \/ l \in x.chosen
                               \/ x.option = "table" /\ SeenHeld(s, l)'
    BY <1>u, <1>c, <1>3, <2>1, <2>2
  <2>6. x.alone => x.chosen \subseteq entries' /\ \A r \in Sweepers \ {s} : sweep'[r].step = "idle"
    BY <1>u, <1>c, <1>3, <1>5 DEF Sweeping
  <2> QED BY <1>3, <1>4, <2>3, <2>4, <2>5, <2>6 DEF SweepShape
<1>9. ASSUME NEW r \in Sweepers \ {s} PROVE SweepShape(r)'
  <2>1. CASE sweep'[r] = sweep[r] /\ sweep[r].step = "idle" BY <2>1 DEF SweepShape
  <2>2. CASE sweep'[r] = [sweep[r] EXCEPT !.alone = FALSE] /\ sweep[r].step = "delete"
    <3>1. sweep[r] \in Sweeps /\ SweepShape(r) BY <1>i DEF RetentionType
    <3>2. /\ sweep'[r].cutoff = sweep[r].cutoff /\ sweep'[r].option = sweep[r].option
          /\ sweep'[r].chosen = sweep[r].chosen /\ sweep'[r].inForce = sweep[r].inForce
          /\ sweep'[r].seen = sweep[r].seen /\ ~sweep'[r].alone
      BY <2>2, <3>1 DEF Sweeps
    <3>3. \A l : SeenHeld(r, l)' <=> SeenHeld(r, l) BY <1>u, <3>2 DEF SeenHeld, HoldRange
    <3> QED BY <1>u, <2>2, <3>1, <3>2, <3>3 DEF SweepShape
  <2> QED BY <1>5, <2>1, <2>2
<1> QED BY <1>7, <1>8, <1>9 DEF RetentionInv

LEMMA SweepEnded ==
    ASSUME RetentionInv, NEW s \in Sweepers, DeleteChosen(s) \/ SweepFails(s)
    PROVE  RetentionInv'
<1>i. RetentionType /\ \A r \in Sweepers : SweepShape(r) BY DEF RetentionInv
<1>1. /\ sweep[s].step = "delete" /\ sweep' = [sweep EXCEPT ![s] = NoSweep]
      /\ entries' \subseteq entries /\ hold' = hold
  BY DEF DeleteChosen, SweepFails
<1>2. /\ sweep' \in [Sweepers -> Sweeps] /\ sweep'[s] = NoSweep
      /\ \A r \in Sweepers \ {s} : sweep'[r] = sweep[r]
  BY <1>i, <1>1, NoSweepIdle DEF RetentionType
<1>3. RetentionType' BY <1>i, <1>1, <1>2 DEF RetentionType
<1>4. SweepShape(s)' BY <1>2, NoSweepIdle DEF SweepShape
<1>5. ASSUME NEW r \in Sweepers \ {s} PROVE SweepShape(r)'
  <2>1. SweepShape(r) /\ sweep'[r] = sweep[r] BY <1>i, <1>2
  <2>2. sweep[r].step = "delete" => ~sweep[r].alone BY <1>1, <2>1 DEF SweepShape
  <2>3. \A l : SeenHeld(r, l)' <=> SeenHeld(r, l) BY <1>1, <2>1 DEF SeenHeld, HoldRange
  <2> QED BY <1>1, <2>1, <2>2, <2>3 DEF SweepShape
<1> QED BY <1>3, <1>4, <1>5 DEF RetentionInv

\* Every step of hosts and sweeps keeps the invariant.
LEMMA RetentionStep == RetentionInv /\ [RetentionNext]_retentionVars => RetentionInv'
<1> SUFFICES ASSUME RetentionInv, [RetentionNext]_retentionVars PROVE RetentionInv'
  OBVIOUS
<1>1. CASE RetentionNext BY <1>1, HostSteps, SweepBegins, SweepEnded DEF RetentionNext
<1>2. CASE UNCHANGED retentionVars
  BY <1>2 DEF retentionVars, RetentionInv, RetentionType, SweepShape, SeenHeld, HoldRange
<1> QED BY <1>1, <1>2

(* For any rows, holds and number of sweeps, DeleteAuditLogsBefore given the *)
(* table of holds spares every row under a hold in force from before it      *)
(* chose until it deletes, and held rows take no place in its batch: a short *)
(* batch of a sweep that met no other means that nothing old and free is     *)
(* left of the rows it saw.                                                  *)
THEOREM RetentionSparesHeldRows == RetentionSpec => HeldRowsStay
<1>1. RetentionInv /\ [RetentionNext]_retentionVars => RetentionInv' BY RetentionStep
<1>2. ASSUME RetentionInv, NEW s \in Sweepers, DeleteChosen(s)
      PROVE  LET gone == entries \ entries'
                 held == {l \in Entries : \E h \in sweep[s].inForce : CreatedAt[l] \in HoldRange(h)}
                 free == IF sweep[s].option = "table" THEN sweep[s].seen \ held ELSE sweep[s].seen
             IN  /\ sweep[s].option = "table" =>
                      \A h \in sweep[s].inForce, l \in gone : hold[h].active => CreatedAt[l] \notin HoldRange(h)
                 /\ sweep[s].alone /\ Cardinality(gone) < BatchSize =>
                      \A l \in entries' \cap free : CreatedAt[l] >= sweep[s].cutoff
  <2>i. RetentionType /\ SweepShape(s) BY <1>2 DEF RetentionInv
  <2>1. sweep[s].step = "delete" /\ entries' = entries \ sweep[s].chosen BY <1>2 DEF DeleteChosen
  <2>2. sweep[s].option = "table" => \A l \in sweep[s].chosen : ~SeenHeld(s, l)
    BY <2>i, <2>1 DEF SweepShape
  <2>3. entries \ entries' \subseteq sweep[s].chosen BY <2>1
  <2>4. ASSUME sweep[s].alone, Cardinality(entries \ entries') < BatchSize,
               NEW l \in entries' \cap sweep[s].seen,
               sweep[s].option = "table" => ~SeenHeld(s, l)
        PROVE  CreatedAt[l] >= sweep[s].cutoff
    <3>1. entries \ entries' = sweep[s].chosen BY <2>i, <2>1, <2>4 DEF SweepShape
    <3>2. Cardinality(sweep[s].chosen) # BatchSize
      <4>1. Cardinality(sweep[s].chosen) < BatchSize BY <2>4, <3>1
      <4>2. IsFiniteSet(sweep[s].chosen)
        <5>1. sweep[s].chosen \in SUBSET Entries BY <2>i DEF RetentionType, Sweeps
        <5> QED BY <5>1, FS_Subset, RetentionAssumption
      <4>3. Cardinality(sweep[s].chosen) \in Nat BY <4>2, FS_CardinalityType
      <4> QED BY <4>1, <4>3, RetentionAssumption
    <3> QED BY <2>i, <2>1, <2>4, <3>2 DEF SweepShape
  <2>5. entries' \subseteq Entries BY <2>i, <2>1 DEF RetentionType
  <2> QED BY <2>2, <2>3, <2>4, <2>5 DEF SeenHeld
<1>3. RetentionInv =>
        [\A s \in Sweepers : DeleteChosen(s) =>
          LET gone == entries \ entries'
              held == {l \in Entries : \E h \in sweep[s].inForce : CreatedAt[l] \in HoldRange(h)}
              free == IF sweep[s].option = "table" THEN sweep[s].seen \ held ELSE sweep[s].seen
          IN  /\ sweep[s].option = "table" =>
                   \A h \in sweep[s].inForce, l \in gone : hold[h].active => CreatedAt[l] \notin HoldRange(h)
              /\ sweep[s].alone /\ Cardinality(gone) < BatchSize =>
                   \A l \in entries' \cap free : CreatedAt[l] >= sweep[s].cutoff
        ]_retentionVars
  BY <1>2, Zenon
<1> QED BY <1>1, <1>3, RetentionStart, PTL DEF RetentionSpec, HeldRowsStay
-----------------------------------------------------------------------------
(* The order of the retention. A sweep in flight has chosen a batch of rows   *)
(* before its cutoff, and no row it saw and left is older but those held.    *)
SweepOrder(s) ==
    sweep[s].step = "delete" =>
        /\ Cardinality(sweep[s].chosen) =< BatchSize
        /\ \A l \in sweep[s].chosen : CreatedAt[l] < sweep[s].cutoff
        /\ \A l \in sweep[s].chosen, k \in (entries \cap sweep[s].seen) \ sweep[s].chosen :
              \/ CreatedAt[l] =< CreatedAt[k]
              \/ sweep[s].option = "table" /\ SeenHeld(s, k)

\* What ORDER BY created_at LIMIT returns, of the rows that are not exempt.
LEMMA ChosenInOrder ==
    ASSUME NEW option, NEW cutoff \in Times, NEW C \in Choose(option, cutoff), RetentionType
    PROVE  /\ Cardinality(C) =< BatchSize
           /\ \A l \in C : CreatedAt[l] < cutoff
           /\ \A l \in C, k \in entries \ C :
                 CreatedAt[l] =< CreatedAt[k] \/ ~exemption(option, k)
<1> DEFINE rows == Sweepable(option, cutoff)
<1>1. /\ C \subseteq rows
      /\ Cardinality(C) = IF Cardinality(rows) < BatchSize THEN Cardinality(rows) ELSE BatchSize
      /\ \A l \in C, k \in rows \ C : CreatedAt[l] =< CreatedAt[k]
  BY DEF Choose, OldestFirst
<1>2. /\ rows \subseteq entries /\ rows \subseteq Entries
      /\ \A l \in rows : CreatedAt[l] < cutoff
      /\ \A k \in entries \ rows : ~(CreatedAt[k] < cutoff) \/ ~exemption(option, k)
  BY DEF Sweepable, RetentionType
<1>3. cutoff \in Int /\ \A l \in Entries : CreatedAt[l] \in Int BY RetentionAssumption
<1>4. Cardinality(rows) \in Nat
  <2>1. IsFiniteSet(rows) BY <1>2, FS_Subset, RetentionAssumption
  <2> HIDE DEF rows
  <2> QED BY <2>1, FS_CardinalityType
<1> HIDE DEF rows
<1>5. Cardinality(C) =< BatchSize BY <1>1, <1>4, RetentionAssumption
<1>6. \A l \in C : CreatedAt[l] < cutoff BY <1>1, <1>2
<1>7. ASSUME NEW l \in C, NEW k \in entries \ C, exemption(option, k)
      PROVE  CreatedAt[l] =< CreatedAt[k]
  <2>1. CASE k \in rows BY <1>1, <1>7, <2>1
  <2>2. CASE k \notin rows
    <3>1. ~(CreatedAt[k] < cutoff) BY <1>2, <1>7, <2>2
    <3>2. CreatedAt[l] < cutoff BY <1>6
    <3>3. CreatedAt[l] \in Int /\ CreatedAt[k] \in Int BY <1>1, <1>2, <1>3 DEF RetentionType
    <3> QED BY <1>3, <3>1, <3>2, <3>3
  <2> QED BY <2>1, <2>2
<1> QED BY <1>5, <1>6, <1>7

\* A hold that a sweep saw keeps its range: it may only be released.
LEMMA SeenHoldsStay ==
    ASSUME RetentionInv, NEW s \in Sweepers, sweep[s].step = "delete", sweep' = sweep,
           \E h \in Holds : PlaceHold(h) \/ ReleaseHold(h)
    PROVE  \A l : SeenHeld(s, l)' <=> SeenHeld(s, l)
<1>i. RetentionType /\ SweepShape(s) BY DEF RetentionInv
<1>1. PICK h \in Holds : PlaceHold(h) \/ ReleaseHold(h) OBVIOUS
<1>2. ASSUME NEW g \in sweep[s].inForce
      PROVE  hold'[g].start = hold[g].start /\ hold'[g].end = hold[g].end
  <2>1. hold[g] # NoHold /\ g \in Holds BY <1>i DEF SweepShape, RetentionType, Sweeps
  <2>2. CASE PlaceHold(h)
    <3>1. g # h BY <2>1, <2>2 DEF PlaceHold
    <3>2. hold'[g] = hold[g] BY <1>i, <2>1, <2>2, <3>1 DEF PlaceHold, RetentionType
    <3> QED BY <3>2
  <2>3. CASE ReleaseHold(h)
    BY <1>i, <2>1, <2>3 DEF ReleaseHold, RetentionType
  <2> QED BY <1>1, <2>2, <2>3
<1> QED BY <1>2 DEF SeenHeld, HoldRange

LEMMA OrderKept ==
    ASSUME RetentionInv, NEW s \in Sweepers, SweepOrder(s), [RetentionNext]_retentionVars
    PROVE  SweepOrder(s)'
<1>i. RetentionType /\ SweepShape(s) BY DEF RetentionInv
<1>0. CASE UNCHANGED <<entries, hold, sweep>>
  BY <1>0 DEF SweepOrder, SeenHeld, HoldRange
<1>1. ASSUME NEW h \in Holds, PlaceHold(h) \/ ReleaseHold(h) PROVE SweepOrder(s)'
  <2>1. entries' = entries /\ sweep' = sweep BY <1>1 DEF PlaceHold, ReleaseHold
  <2>2. CASE sweep[s].step = "delete"
    <3>1. \A l : SeenHeld(s, l)' <=> SeenHeld(s, l) BY <1>1, <2>1, <2>2, SeenHoldsStay
    <3> QED BY <2>1, <3>1 DEF SweepOrder
  <2>3. CASE sweep[s].step # "delete" BY <2>1, <2>3 DEF SweepOrder
  <2> QED BY <2>2, <2>3
<1>2. ASSUME NEW n \in Entries, Append(n) PROVE SweepOrder(s)'
  <2>1. entries' = entries \cup {n} /\ hold' = hold /\ sweep' = sweep /\ n \notin sweep[s].seen
    BY <1>2 DEF Append
  <2>2. \A k : SeenHeld(s, k)' <=> SeenHeld(s, k) BY <2>1 DEF SeenHeld, HoldRange
  <2>3. entries' \cap sweep[s].seen = entries \cap sweep[s].seen BY <2>1
  <2> QED BY <2>1, <2>2, <2>3 DEF SweepOrder
<1>3. ASSUME NEW r \in Sweepers, NEW option \in Options, NEW cutoff \in Times,
             DeleteAuditLogsBefore(r, option, cutoff)
      PROVE  SweepOrder(s)'
  <2>1. PICK C \in Choose(option, cutoff) :
          sweep' = [q \in Sweepers |->
                      IF q = r THEN [step |-> "delete", option |-> option, cutoff |-> cutoff,
                                     seen |-> entries, chosen |-> C,
                                     inForce |-> {h \in Holds : hold[h].active},
                                     alone |-> Sweeping = {}]
                      ELSE IF q \in Sweeping THEN [sweep[q] EXCEPT !.alone = FALSE] ELSE sweep[q]]
    BY <1>3 DEF DeleteAuditLogsBefore
  <2>u. entries' = entries /\ hold' = hold BY <1>3 DEF DeleteAuditLogsBefore
  <2>2. CASE s = r
    <3>1. /\ sweep'[s].chosen = C /\ sweep'[s].cutoff = cutoff /\ sweep'[s].option = option
          /\ sweep'[s].inForce = {h \in Holds : hold[h].active}
      BY <2>1, <2>2
    <3>2. \A k : exemption(option, k) \/ (option = "table" /\ SeenHeld(s, k)')
      BY <2>u, <3>1 DEF SeenHeld, HoldRange, exemption
    <3>3. /\ Cardinality(C) =< BatchSize
          /\ \A l \in C : CreatedAt[l] < cutoff
          /\ \A l \in C, k \in entries \ C :
                CreatedAt[l] =< CreatedAt[k] \/ ~exemption(option, k)
      BY <1>i, ChosenInOrder
    <3> QED BY <2>u, <3>1, <3>2, <3>3 DEF SweepOrder
  <2>3. CASE s # r
    <3>1. sweep[s] \in Sweeps BY <1>i DEF RetentionType
    <3>2. /\ sweep'[s].step = sweep[s].step /\ sweep'[s].chosen = sweep[s].chosen
          /\ sweep'[s].cutoff = sweep[s].cutoff /\ sweep'[s].option = sweep[s].option
          /\ sweep'[s].inForce = sweep[s].inForce /\ sweep'[s].seen = sweep[s].seen
      <4>1. sweep'[s] = sweep[s] \/ sweep'[s] = [sweep[s] EXCEPT !.alone = FALSE]
        BY <2>1, <2>3
      <4>2. CASE sweep'[s] = sweep[s] BY <4>2
      <4>3. CASE sweep'[s] = [sweep[s] EXCEPT !.alone = FALSE] BY <3>1, <4>3 DEF Sweeps
      <4> QED BY <4>1, <4>2, <4>3
    <3>3. \A k : SeenHeld(s, k)' <=> SeenHeld(s, k) BY <2>u, <3>2 DEF SeenHeld, HoldRange
    <3> QED BY <2>u, <3>2, <3>3 DEF SweepOrder
  <2> QED BY <2>2, <2>3
<1>4. ASSUME NEW r \in Sweepers, DeleteChosen(r) \/ SweepFails(r) PROVE SweepOrder(s)'
  <2>1. /\ sweep' = [sweep EXCEPT ![r] = NoSweep] /\ entries' \subseteq entries /\ hold' = hold
    BY <1>4 DEF DeleteChosen, SweepFails
  <2>2. CASE s = r
    <3>1. sweep'[s] = NoSweep BY <1>i, <2>1, <2>2 DEF RetentionType
    <3> QED BY <3>1, NoSweepIdle DEF SweepOrder
  <2>3. CASE s # r
    <3>1. sweep'[s] = sweep[s] BY <1>i, <2>1, <2>3 DEF RetentionType
    <3>2. \A k : SeenHeld(s, k)' <=> SeenHeld(s, k) BY <2>1, <3>1 DEF SeenHeld, HoldRange
    <3> QED BY <2>1, <3>1, <3>2 DEF SweepOrder
  <2> QED BY <2>2, <2>3
<1> QED BY <1>0, <1>1, <1>2, <1>3, <1>4 DEF RetentionNext, LegalHoldTableDDL, retentionVars

(* DeleteAuditLogsBefore stays within its batch and its cutoff, and never     *)
(* deletes a row while an older one stays that it saw free to delete.        *)
THEOREM RetentionGoesOldestFirst == RetentionSpec => OldestGoFirst
<1> DEFINE Ordered == \A s \in Sweepers : SweepOrder(s)
<1>1. RetentionInit => Ordered
  <2> SUFFICES ASSUME RetentionInit, NEW s \in Sweepers PROVE SweepOrder(s)
    OBVIOUS
  <2>1. sweep[s] = NoSweep BY DEF RetentionInit
  <2> QED BY <2>1, NoSweepIdle DEF SweepOrder
<1>2. RetentionInv /\ Ordered /\ [RetentionNext]_retentionVars => Ordered'
  BY OrderKept
<1>3. RetentionInv /\ [RetentionNext]_retentionVars => RetentionInv'
  BY RetentionStep
<1>4. ASSUME RetentionInv, Ordered, NEW s \in Sweepers, DeleteChosen(s)
      PROVE  LET gone == entries \ entries'
                 held == {k \in Entries : \E h \in sweep[s].inForce : CreatedAt[k] \in HoldRange(h)}
             IN  /\ Cardinality(gone) =< BatchSize
                 /\ \A l \in gone :
                      /\ CreatedAt[l] < sweep[s].cutoff
                      /\ \A k \in entries' \cap sweep[s].seen :
                            \/ CreatedAt[l] =< CreatedAt[k]
                            \/ sweep[s].option = "table" /\ k \in held
  <2>i. RetentionType /\ SweepOrder(s) BY <1>4 DEF RetentionInv
  <2>1. sweep[s].step = "delete" /\ entries' = entries \ sweep[s].chosen BY <1>4 DEF DeleteChosen
  <2>2. sweep[s].chosen \subseteq Entries /\ entries' \subseteq Entries
    BY <2>i, <2>1 DEF RetentionType, Sweeps
  <2>3. entries \ entries' \subseteq sweep[s].chosen BY <2>1
  <2>4. Cardinality(entries \ entries') =< BatchSize
    <3> DEFINE gone == entries \ entries'
               C == sweep[s].chosen
    <3>1. IsFiniteSet(C) BY <2>2, FS_Subset, RetentionAssumption
    <3>2. gone \subseteq C BY <2>3
    <3>3. Cardinality(C) =< BatchSize BY <2>i, <2>1 DEF SweepOrder
    <3> HIDE DEF gone, C
    <3>4. /\ IsFiniteSet(gone) /\ Cardinality(gone) =< Cardinality(C)
      BY <3>1, <3>2, FS_Subset
    <3>5. Cardinality(gone) \in Nat /\ Cardinality(C) \in Nat BY <3>1, <3>4, FS_CardinalityType
    <3>6. Cardinality(gone) =< BatchSize BY <3>3, <3>4, <3>5, RetentionAssumption
    <3> QED BY <3>6 DEF gone
  <2>5. ASSUME NEW l \in entries \ entries'
        PROVE  /\ CreatedAt[l] < sweep[s].cutoff
               /\ \A k \in entries' \cap sweep[s].seen :
                     \/ CreatedAt[l] =< CreatedAt[k]
                     \/ sweep[s].option = "table" /\ SeenHeld(s, k)
    BY <2>i, <2>1, <2>3 DEF SweepOrder
  <2> QED BY <2>2, <2>4, <2>5 DEF SeenHeld
<1>5. RetentionInv /\ Ordered =>
        [\A s \in Sweepers : DeleteChosen(s) =>
          LET gone == entries \ entries'
              held == {k \in Entries : \E h \in sweep[s].inForce : CreatedAt[k] \in HoldRange(h)}
          IN  /\ Cardinality(gone) =< BatchSize
              /\ \A l \in gone :
                   /\ CreatedAt[l] < sweep[s].cutoff
                   /\ \A k \in entries' \cap sweep[s].seen :
                         \/ CreatedAt[l] =< CreatedAt[k]
                         \/ sweep[s].option = "table" /\ k \in held
        ]_retentionVars
  BY <1>4, Zenon
<1> HIDE DEF Ordered
<1> QED BY <1>1, <1>2, <1>3, <1>5, RetentionStart, PTL DEF RetentionSpec, OldestGoFirst
-----------------------------------------------------------------------------
(* Notify's deliveries. *)
RunType ==
    run \in [Notifiers -> [step : {"idle", "won", "lost", "deliver", "down"},
                           listed : SUBSET Channels, tried : SUBSET Channels]]

\* One notifier's own step, as the others and its own fields see it.
LEMMA RunMoves ==
    ASSUME RunType, NotifyNext, NEW n \in Notifiers
    PROVE  \/ run'[n] = run[n]
           \/ ~On(n, "deliver")
           \/ On(n, "down")'
           \/ run[n].listed = run[n].tried /\ ~On(n, "deliver")'
           \/ \E c \in run[n].listed \ run[n].tried :
                 run'[n] = [run[n] EXCEPT !.tried = run[n].tried \cup {c}]
<1>1. CASE run' = run BY <1>1
<1>2. ASSUME NEW m \in Notifiers, m # n,
             \E x : run' = [run EXCEPT ![m] = x]
      PROVE  run'[n] = run[n]
  BY <1>2 DEF RunType
<1>3. ASSUME NEW c \in Channels, Deliver(n, c)
      PROVE  \E d \in run[n].listed \ run[n].tried :
                 run'[n] = [run[n] EXCEPT !.tried = run[n].tried \cup {d}]
  <2>1. c \in run[n].listed \ run[n].tried /\ run' = [run EXCEPT ![n].tried = @ \cup {c}]
    BY <1>3 DEF Deliver, deliver
  <2>2. run'[n] = [run[n] EXCEPT !.tried = run[n].tried \cup {c}] BY <2>1 DEF RunType
  <2> QED BY <2>1, <2>2
<1>4. ASSUME Crash(n) PROVE On(n, "down")'
  BY <1>4 DEF Crash, RunType, Rest, On
<1>5. ASSUME NEW m \in Notifiers,
             \/ ClaimWon(m) \/ ClaimLost(m) \/ Unclaimed(m) \/ ListFails(m) \/ Crash(m) \/ Restart(m)
             \/ Skip(m) \/ ListEnabledForEvent(m) \/ Finish(m)
             \/ \E c \in Channels : SendTest(m, c) \/ Deliver(m, c)
      PROVE  \E x : run' = [run EXCEPT ![m] = x]
  BY <1>5 DEF ClaimWon, ClaimLost, Unclaimed, ListFails, Crash, Restart, Skip,
              ListEnabledForEvent, Finish, SendTest, Deliver, deliver, Goto
<1>6. ASSUME NEW m \in Notifiers, PruneChooses(m) \/ PruneDeletes(m) PROVE run' = run
  BY <1>6 DEF PruneChooses, PruneDeletes
<1>7. CASE NotifyTick BY <1>7 DEF NotifyTick
<1>8. CASE \/ ClaimWon(n) \/ ClaimLost(n) \/ Unclaimed(n) \/ ListFails(n) \/ Restart(n)
           \/ Skip(n) \/ ListEnabledForEvent(n) \/ \E c \in Channels : SendTest(n, c)
  BY <1>8 DEF ClaimWon, ClaimLost, Unclaimed, ListFails, Restart, Skip, ListEnabledForEvent,
              SendTest, On
<1>9. CASE Finish(n) BY <1>9 DEF Finish, Goto, RunType, On
<1>10. PICK m \in Notifiers :
          \/ ClaimWon(m) \/ ClaimLost(m) \/ Unclaimed(m) \/ PruneChooses(m)
          \/ ListFails(m) \/ Crash(m) \/ Restart(m) \/ Proceed(m)
          \/ (\E c \in Channels : SendTest(m, c))
          \/ NotifyTick
  BY DEF NotifyNext
<1>11. CASE m # n BY <1>1, <1>2, <1>5, <1>6, <1>7, <1>10, <1>11 DEF Proceed
<1>12. CASE m = n BY <1>1, <1>3, <1>4, <1>6, <1>7, <1>8, <1>9, <1>10, <1>12 DEF Proceed
<1> QED BY <1>11, <1>12

LEMMA RunTypeStep == RunType /\ [NotifyNext]_notifyVars => RunType'
<1> SUFFICES ASSUME RunType, [NotifyNext]_notifyVars PROVE RunType'
  OBVIOUS
<1> DEFINE Runs == [step : {"idle", "won", "lost", "deliver", "down"},
                    listed : SUBSET Channels, tried : SUBSET Channels]
<1>1. CASE run' = run BY <1>1 DEF RunType
<1>2. ASSUME NEW n \in Notifiers, NEW x \in Runs, run' = [run EXCEPT ![n] = x] PROVE RunType'
  BY <1>2 DEF RunType
<1>r. Rest \in Runs /\ run \in [Notifiers -> Runs] BY DEF Rest, RunType
<1>3. ASSUME NEW n \in Notifiers, NEW s \in {"won", "lost", "down"},
             run' = [run EXCEPT ![n] = [Rest EXCEPT !.step = s]]
      PROVE  RunType'
  <2>1. [Rest EXCEPT !.step = s] \in Runs BY DEF Rest
  <2> QED BY <1>2, <1>3, <2>1
<1>4. ASSUME NEW n \in Notifiers, Goto(n, "idle") PROVE RunType'
  <2>1. run[n] \in Runs BY <1>r
  <2>2. [run[n] EXCEPT !.step = "idle"] \in Runs BY <2>1
  <2>3. run' = [run EXCEPT ![n] = [run[n] EXCEPT !.step = "idle"]] BY <1>4 DEF Goto
  <2> QED BY <1>2, <2>2, <2>3
<1>5. ASSUME NEW n \in Notifiers, NEW c \in Channels, Deliver(n, c) PROVE RunType'
  <2>1. run[n] \in Runs BY <1>r
  <2>2. [run[n] EXCEPT !.tried = run[n].tried \cup {c}] \in Runs BY <2>1
  <2>3. run' = [run EXCEPT ![n] = [run[n] EXCEPT !.tried = run[n].tried \cup {c}]]
    BY <1>5 DEF Deliver, deliver
  <2> QED BY <1>2, <2>2, <2>3
<1>6. ASSUME NEW n \in Notifiers, ListEnabledForEvent(n) PROVE RunType'
  <2>1. PICK C \in SUBSET Channels :
            run' = [run EXCEPT ![n] = [step |-> "deliver", listed |-> C, tried |-> {}]]
    BY <1>6 DEF ListEnabledForEvent
  <2>2. [step |-> "deliver", listed |-> C, tried |-> {}] \in Runs OBVIOUS
  <2> QED BY <1>2, <2>1, <2>2
<1>7. ASSUME NEW n \in Notifiers, NEW c \in Channels, SendTest(n, c) PROVE RunType'
  <2>1. [step |-> "deliver", listed |-> {c}, tried |-> {}] \in Runs OBVIOUS
  <2> QED BY <1>2, <1>7, <2>1 DEF SendTest
<1>8. CASE NotifyTick \/ UNCHANGED notifyVars
  BY <1>1, <1>8 DEF NotifyTick, notifyVars
<1>9. ASSUME NEW n \in Notifiers,
             \/ ClaimWon(n) \/ ClaimLost(n) \/ Unclaimed(n) \/ Crash(n) \/ PruneChooses(n)
             \/ ListFails(n) \/ Restart(n) \/ PruneDeletes(n) \/ Skip(n) \/ Finish(n)
      PROVE  RunType'
  BY <1>1, <1>3, <1>4, <1>9
  DEF ClaimWon, ClaimLost, Unclaimed, Crash, PruneChooses, ListFails, Restart, PruneDeletes, Skip, Finish
<1> QED BY <1>5, <1>6, <1>7, <1>8, <1>9 DEF NotifyNext, Proceed

(* Notify leaves no channel of its list out and tries none twice, whatever    *)
(* fails or interleaves, unless its process dies.                            *)
THEOREM DeliveriesAreComplete == NotifySpec => NoChannelSkipped
<1>1. NotifyInit => RunType
  BY DEF NotifyInit, RunType, Rest
<1>2. ASSUME RunType, NotifyNext, NEW n \in Notifiers, On(n, "deliver")
      PROVE  IF On(n, "deliver")'
             THEN /\ run'[n].listed = run[n].listed
                  /\ \/ run'[n].tried = run[n].tried
                     \/ \E c \in run[n].listed \ run[n].tried : run'[n].tried = run[n].tried \cup {c}
             ELSE On(n, "down")' \/ run[n].tried = run[n].listed
  <2>1. CASE run'[n] = run[n] BY <1>2, <2>1 DEF On
  <2>2. CASE On(n, "down")' BY <2>2 DEF On
  <2>3. CASE run[n].listed = run[n].tried /\ ~On(n, "deliver")' BY <2>3
  <2>4. ASSUME NEW c \in run[n].listed \ run[n].tried,
               run'[n] = [run[n] EXCEPT !.tried = run[n].tried \cup {c}]
        PROVE  /\ On(n, "deliver")'
               /\ run'[n].listed = run[n].listed
               /\ run'[n].tried = run[n].tried \cup {c}
    BY <1>2, <2>4 DEF On, RunType
  <2> QED BY <1>2, <2>1, <2>2, <2>3, <2>4, RunMoves
<1>3. RunType /\ [NotifyNext]_notifyVars =>
        [\A n \in Notifiers : On(n, "deliver") =>
          IF On(n, "deliver")'
          THEN /\ run'[n].listed = run[n].listed
               /\ \/ run'[n].tried = run[n].tried
                  \/ \E c \in run[n].listed \ run[n].tried : run'[n].tried = run[n].tried \cup {c}
          ELSE On(n, "down")' \/ run[n].tried = run[n].listed
        ]_notifyVars
  BY <1>2
<1> QED BY <1>1, <1>3, RunTypeStep, PTL DEF NotifySpec, NoChannelSkipped
===============================================================================
