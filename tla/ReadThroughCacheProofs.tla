----------------------- MODULE ReadThroughCacheProofs -----------------------
(***************************************************************************)
(* Theorems about ReadThroughCache, for every number of callers and keys,  *)
(* every TTL set and every bound; the last part shows that the cache       *)
(* honours CacheContract.                                                  *)
(***************************************************************************)
EXTENDS ReadThroughCache, TLAPS

USE DEF Modes, Errs, LeaderPcs, Pcs, KeyOf, cacheVars, callVars, envVars, vars

(* The default call of an idle goroutine is a call.                         *)
LEMMA NoCallType == NoCall \in Call
BY CacheAssumption DEF NoCall, Call, Versions

LEMMA NoEntryType == NoEntry \in Entry /\ NoAnswer \in Answer
BY CacheAssumption DEF NoEntry, Entry, NoAnswer, Answer, Versions

(* What a store writes is an entry.                                         *)
LEMMA StoredType ==
  ASSUME TypeOK, NEW c \in Callers
  PROVE  Stored(c) \in Entry
<1>1. now \in Nat /\ Forever \in Nat
  BY CacheAssumption DEF TypeOK
<1>2. call[c].ttl \in Nat
  BY CacheAssumption DEF TypeOK, Call
<1>3. hand[c].ver \in Versions
  BY DEF TypeOK, Entry
<1>4. ExpiryOf(now, call[c].ttl) \in Nat
  BY <1>1, <1>2 DEF ExpiryOf
<1> QED BY <1>3, <1>4 DEF Stored, Entry

(* What a refill writes is an entry.                                        *)
LEMMA RefillType ==
  ASSUME TypeOK, NEW row \in Entry
  PROVE  [row EXCEPT !.exp = RefillExpiry(row)] \in Entry
BY CacheAssumption DEF TypeOK, Entry, RefillExpiry

(* Recording a reply keeps the type of the history of replies.              *)
LEMMA ServedType ==
  ASSUME TypeOK, NEW k \in Keys, NEW v \in Versions, NoteServed(k, v)
  PROVE  served' \in [Keys -> Versions]
BY DEF TypeOK, NoteServed, Larger

LEMMA HitType ==
  ASSUME TypeOK, NEW c \in Callers, NEW e \in Entry, NEW b \in BOOLEAN,
         NEW err \in Errs, NEW src \in {"l1", "l2", "fetch"},
         Hit(c, e, b, err, src)
  PROVE  answer' \in [Callers -> Answer]
BY DEF TypeOK, Hit, Answer, Entry

LEMMA FailType ==
  ASSUME TypeOK, NEW c \in Callers, NEW err \in Errs, Fail(c, err)
  PROVE  answer' \in [Callers -> Answer]
BY NoEntryType DEF TypeOK, Fail, Answer, NoAnswer

LEMMA InitTypeOK == Init => TypeOK
BY CacheAssumption, NoCallType, NoEntryType DEF Init, TypeOK, Versions

LEMMA EnvironmentTypeOK == TypeOK /\ Environment => TypeOK'
<1> SUFFICES ASSUME TypeOK, Environment PROVE TypeOK'
  OBVIOUS
<1> USE CacheAssumption DEF TypeOK
<1>1. CASE Tick
  BY <1>1 DEF Tick
<1>2. ASSUME NEW k \in Keys, Publish(k) PROVE TypeOK'
  BY <1>2 DEF Publish, Versions
<1>3. ASSUME NEW k \in Keys, Evict(k) PROVE TypeOK'
  BY <1>3, NoEntryType DEF Evict
<1>4. ASSUME NEW c \in Callers, Cancel(c) PROVE TypeOK'
  BY <1>4 DEF Cancel
<1>5. CASE Restart
  BY <1>5, NoEntryType, NoCallType DEF Restart
<1>6. ASSUME NEW p \in CronPatterns, CronRefresh(p) PROVE TypeOK'
  BY <1>6, NoEntryType DEF CronRefresh
<1> QED BY <1>1, <1>2, <1>3, <1>4, <1>5, <1>6 DEF Environment

LEMMA CallerTypeOK ==
  ASSUME TypeOK, NEW c \in Callers,
         Step(c) \/ Return(c) \/ \E k \in Keys, t \in Ttls, m \in Modes : Begin(c, k, t, m)
  PROVE  TypeOK'
<1> USE CacheAssumption DEF TypeOK
<1>0. KeyOf(c) \in Keys /\ call[c] \in Call /\ hand[c] \in Entry
  BY DEF Call
<1>1. ASSUME NEW k \in Keys, NEW t \in Ttls, NEW m \in Modes, Begin(c, k, t, m)
      PROVE TypeOK'
  <2>1. call' \in [Callers -> Call]
    BY <1>1 DEF Begin, Call
  <2>2. l1[k].ver \in Versions
    BY DEF Entry
  <2>3. answer' \in [Callers -> Answer]
    <3> DEFINE a == [ver |-> l1[k].ver, cached |-> TRUE, err |-> "none",
                     src |-> "l1", overdue |-> l1[k].due <= now]
    <3>1. (l1[k].due <= now) \in BOOLEAN
      OBVIOUS
    <3>2. a \in Answer
      BY <2>2, <3>1 DEF Answer
    <3>3. answer' = [answer EXCEPT ![c] = a] \/ answer' = answer
      BY <1>1 DEF Begin
    <3> HIDE DEF a
    <3> QED BY <3>2, <3>3
  <2>4. served' \in [Keys -> Versions]
    <3>1. CASE Live(l1[k])
      BY <1>1, <2>2, <3>1, ServedType DEF Begin
    <3>2. CASE ~Live(l1[k])
      BY <1>1, <3>2 DEF Begin
    <3> QED BY <3>1, <3>2
  <2>5. pc' \in [Callers -> Pcs]
    BY <1>1 DEF Begin, Goto
  <2>6. UNCHANGED <<cacheVars, hand, cancelled, envVars, flight>>
    BY <1>1 DEF Begin
  <2> QED BY <2>1, <2>3, <2>4, <2>5, <2>6
<1>2. CASE ReadL2(c)
  <2>1. answer' \in [Callers -> Answer]
    BY <1>2, FailType DEF ReadL2, PassL2
  <2> QED BY <1>2, <1>0, <2>1 DEF ReadL2, PassL2, Goto
<1>3. CASE Refill(c)
  <2>1. answer' \in [Callers -> Answer]
    BY <1>3, <1>0, HitType DEF Refill
  <2>2. hand[c].ver \in Versions
    BY <1>0 DEF Entry
  <2>3. served' \in [Keys -> Versions]
    BY <1>3, <1>0, <2>2, ServedType DEF Refill
  <2>4. l1' \in [Keys -> Entry]
    BY <1>3, <1>0, RefillType DEF Refill, FillL1
  <2> QED BY <1>3, <2>1, <2>3, <2>4, NoEntryType DEF Refill, Goto
<1>4. CASE Join(c)
  BY <1>4, <1>0 DEF Join, Goto
<1>5. CASE CheckL1(c)
  <2>1. answer' \in [Callers -> Answer]
    BY <1>5, <1>0, HitType DEF CheckL1
  <2> QED BY <1>5, <2>1 DEF CheckL1, Goto
<1>6. CASE CheckL2(c)
  <2>1. answer' \in [Callers -> Answer]
    BY <1>6, FailType DEF CheckL2
  <2> QED BY <1>6, <1>0, <2>1 DEF CheckL2, Goto
<1>7. CASE CheckRefill(c)
  <2>1. answer' \in [Callers -> Answer]
    BY <1>7, <1>0, HitType DEF CheckRefill
  <2>2. l1' \in [Keys -> Entry]
    BY <1>7, <1>0, RefillType DEF CheckRefill, FillL1
  <2> QED BY <1>7, <2>1, <2>2, NoEntryType DEF CheckRefill, Goto
<1>8. CASE FetchOk(c)
  <2>1. [NoEntry EXCEPT !.ver = upstream[KeyOf(c)]] \in Entry
    BY <1>0 DEF NoEntry, Entry
  <2> QED BY <1>8, <2>1 DEF FetchOk, Goto
<1>9. CASE FetchFail(c)
  <2>1. answer' \in [Callers -> Answer]
    BY <1>9, FailType DEF FetchFail
  <2> QED BY <1>9, <2>1 DEF FetchFail, Goto
<1>10. CASE Fallback(c)
  <2>1. answer' \in [Callers -> Answer]
    BY <1>10, <1>0, HitType DEF Fallback
  <2> QED BY <1>10, <2>1 DEF Fallback, Goto
<1>11. CASE StoreL1(c)
  <2>1. answer' \in [Callers -> Answer]
    BY <1>11, StoredType, HitType DEF StoreL1
  <2>2. l1' \in [Keys -> Entry]
    BY <1>11, StoredType DEF StoreL1
  <2> QED BY <1>11, <2>1, <2>2 DEF StoreL1, Goto
<1>12. CASE StoreL2(c)
  <2>1. l2' \in [Keys -> Entry]
    BY <1>12, StoredType DEF StoreL2
  <2> QED BY <1>12, <2>1 DEF StoreL2, Goto
<1>13. CASE Finish(c)
  <2>1. answer[c].ver \in Versions
    BY DEF Answer
  <2>2. served' \in [Keys -> Versions]
    BY <1>13, <1>0, <2>1, ServedType DEF Finish
  <2>3. answer' \in [Callers -> Answer]
    BY <1>13 DEF Finish
  <2>4. pc' \in [Callers -> Pcs]
    BY <1>13 DEF Finish
  <2>5. hand' \in [Callers -> Entry] /\ flight' \in [Keys -> Callers \cup {NoCaller}]
    BY <1>13, NoEntryType DEF Finish
  <2> QED BY <1>13, <2>2, <2>3, <2>4, <2>5 DEF Finish
<1>14. CASE Return(c)
  BY <1>14, NoEntryType, NoCallType DEF Return, Goto
<1>15. CASE LeaderStep(c)
  BY <1>5, <1>6, <1>7, <1>8, <1>9, <1>10, <1>11, <1>12, <1>13, <1>15 DEF LeaderStep
<1>16. CASE Step(c)
  BY <1>2, <1>3, <1>4, <1>15, <1>16 DEF Step
<1> HIDE DEF TypeOK
<1>17. CASE \E k \in Keys, t \in Ttls, m \in Modes : Begin(c, k, t, m)
  BY <1>1, <1>17
<1> QED
  BY <1>14, <1>16, <1>17

LEMMA NextTypeOK == TypeOK /\ [Next]_vars => TypeOK'
<1>1. TypeOK /\ UNCHANGED vars => TypeOK'
  BY DEF TypeOK
<1>2. TypeOK /\ Next => TypeOK'
  BY EnvironmentTypeOK, CallerTypeOK DEF Next
<1> QED BY <1>1, <1>2

(* Every variable of the cache keeps its type: entries, replies and the     *)
(* singleflight registry of cache.go are well formed in every state.        *)
THEOREM TypeCorrect == Spec => []TypeOK
BY InitTypeOK, NextTypeOK, PTL DEF Spec
-----------------------------------------------------------------------------
(* Singleflight: a goroutine that runs the leader's function is the one the *)
(* group has registered for its key.                                        *)
LeaderHoldsFlight ==
  \A c \in Callers : pc[c] \in LeaderPcs => flight[KeyOf(c)] = c

LEMMA InitLeader == Init => LeaderHoldsFlight
BY DEF Init, LeaderHoldsFlight

LEMMA NextLeader == TypeOK /\ LeaderHoldsFlight /\ [Next]_vars => LeaderHoldsFlight'
<1> SUFFICES ASSUME TypeOK, LeaderHoldsFlight, [Next]_vars, NEW d \in Callers,
                    pc'[d] \in LeaderPcs
             PROVE  flight'[call'[d].key] = d
  BY DEF LeaderHoldsFlight
<1> USE CacheAssumption DEF TypeOK, LeaderHoldsFlight
<1>1. CASE UNCHANGED vars
  BY <1>1
<1>2. CASE Environment
  BY <1>2 DEF Environment, Tick, Publish, Evict, Cancel, Restart, CronRefresh
<1>3. ASSUME NEW c \in Callers, NEW k \in Keys, NEW t \in Ttls, NEW m \in Modes,
             Begin(c, k, t, m)
      PROVE  flight'[call'[d].key] = d
  BY <1>3 DEF Begin, Goto
<1>4. ASSUME NEW c \in Callers, Return(c)
      PROVE  flight'[call'[d].key] = d
  BY <1>4 DEF Return, Goto
<1>5. ASSUME NEW c \in Callers, ReadL2(c) \/ Refill(c)
      PROVE  flight'[call'[d].key] = d
  <2>1. CASE ReadL2(c)
    BY <2>1 DEF ReadL2, PassL2, Goto
  <2>2. CASE Refill(c)
    BY <2>2 DEF Refill, Goto
  <2> QED BY <1>5, <2>1, <2>2
<1>6. ASSUME NEW c \in Callers, Join(c)
      PROVE  flight'[call'[d].key] = d
  <2>1. KeyOf(c) \in Keys /\ KeyOf(d) \in Keys
    BY DEF Call
  <2>2. CASE d = c
    BY <1>6, <2>1, <2>2 DEF Join, Goto
  <2>3. CASE d # c
    BY <1>6, <2>1, <2>3 DEF Join, Goto
  <2> QED BY <2>2, <2>3
<1>7. ASSUME NEW c \in Callers, LeaderStep(c), ~Finish(c)
      PROVE  flight'[call'[d].key] = d
  BY <1>7 DEF LeaderStep, CheckL1, CheckL2, CheckRefill, FetchOk, FetchFail,
              Fallback, StoreL1, StoreL2, Goto
<1>8. ASSUME NEW c \in Callers, Finish(c)
      PROVE  flight'[call'[d].key] = d
  <2>1. KeyOf(c) \in Keys /\ KeyOf(d) \in Keys
    BY DEF Call
  <2>2. d # c /\ pc[d] \in LeaderPcs
    BY <1>8 DEF Finish
  <2>3. KeyOf(d) # KeyOf(c)
    BY <1>8, <2>2 DEF Finish
  <2> QED BY <1>8, <2>1, <2>2, <2>3 DEF Finish
<1> HIDE DEF TypeOK, LeaderHoldsFlight
<1>9. ASSUME NEW c \in Callers, Step(c)
      PROVE  flight'[call'[d].key] = d
  BY <1>5, <1>6, <1>7, <1>8, <1>9 DEF Step
<1> QED
  BY <1>1, <1>2, <1>3, <1>4, <1>9 DEF Next

(* At most one request per key is at the official source, however many      *)
(* callers miss at once (cache.go 137, 162).                                *)
THEOREM Singleflight == Spec => []OneUpstreamRequestPerKey
<1>1. LeaderHoldsFlight => OneUpstreamRequestPerKey
  BY DEF LeaderHoldsFlight, OneUpstreamRequestPerKey
<1> QED
  BY <1>1, InitLeader, NextLeader, TypeCorrect, PTL DEF Spec
-----------------------------------------------------------------------------
(* Why a fresh answer is unexpired.  No entry outlives the promise made at  *)
(* its store; a row on its way to L1 is still alive, because no time passes *)
(* during a refill; calls began in the past; and an answer without an error *)
(* was not overdue when it was decided, also while it waits in the flight.  *)
Within(e) == e.exp <= e.due
Answered  == {"store2", "finish", "done"}

LifetimeInv ==
  /\ \A k \in Keys : Within(l1[k]) /\ Within(l2[k])
  /\ \A c \in Callers :
       /\ call[c].since <= now
       /\ pc[c] \in {"refill", "chkRefill"} => Within(hand[c]) /\ now < hand[c].exp
       /\ pc[c] = "fallback" => answer[c].err # "none"
       /\ pc[c] \in Answered /\ answer[c].err = "none" => ~answer[c].overdue

LEMMA InitLifetime == Init => LifetimeInv
BY DEF Init, LifetimeInv, Within, NoEntry, NoCall, Answered

(* A live entry was promised to live beyond every call that has begun.      *)
LEMMA LiveNotOverdue ==
  ASSUME TypeOK, LifetimeInv, NEW c \in Callers, NEW e \in Entry, Within(e), Live(e)
  PROVE  ~(e.due <= call[c].since)
<1>1. now \in Nat /\ call[c].since \in Nat /\ e.exp \in Nat /\ e.due \in Nat
  BY CacheAssumption DEF TypeOK, Call, Entry
<1> QED BY <1>1 DEF LifetimeInv, Within, Live

(* What is stored now lives beyond every call that has begun.               *)
LEMMA StoredLives ==
  ASSUME TypeOK, NEW c \in Callers
  PROVE  /\ Stored(c) \in Entry
         /\ Within(Stored(c))
         /\ LifetimeInv => ~(Stored(c).due <= call[c].since)
<1>1. now \in 0..MaxTime /\ call[c].ttl \in Nat /\ call[c].since \in Nat
      /\ hand[c].ver \in Versions
  BY CacheAssumption DEF TypeOK, Call, Entry
<1>2. ExpiryOf(now, call[c].ttl) \in Nat /\ ExpiryOf(now, call[c].ttl) > now
  BY <1>1, CacheAssumption DEF ExpiryOf
<1>3. Stored(c).exp = Stored(c).due /\ Stored(c).due = ExpiryOf(now, call[c].ttl)
  BY DEF Stored
<1>4. LifetimeInv => call[c].since <= now
  BY DEF LifetimeInv
<1> QED BY <1>1, <1>2, <1>3, <1>4, StoredType DEF Within

(* A refill of a row that is still alive keeps the row's expiry.            *)
LEMMA RefillKeepsExpiry ==
  ASSUME TypeOK, NEW row \in Entry, now < row.exp
  PROVE  [row EXCEPT !.exp = RefillExpiry(row)] = row
<1>1. now \in Nat /\ row.exp \in Nat
  BY CacheAssumption DEF TypeOK, Entry
<1>2. RefillExpiry(row) = row.exp
  BY <1>1, CacheAssumption DEF RefillExpiry
<1> QED BY <1>2 DEF Entry

LEMMA EnvironmentLifetime ==
  ASSUME InstantRefill, TypeOK, LifetimeInv, Environment
  PROVE  LifetimeInv'
<1> USE CacheAssumption DEF LifetimeInv
<1>1. CASE Tick
  <2>1. now \in Nat /\ now' = now + 1
    BY <1>1 DEF Tick, TypeOK
  <2>2. \A c \in Callers : call[c].since \in Nat /\ pc[c] \notin {"refill", "chkRefill"}
    BY <1>1 DEF Tick, TypeOK, Call
  <2> QED BY <1>1, <2>1, <2>2 DEF Tick, Within
<1>2. ASSUME NEW k \in Keys, Publish(k) PROVE LifetimeInv'
  BY <1>2 DEF Publish, Within
<1>3. ASSUME NEW k \in Keys, Evict(k) PROVE LifetimeInv'
  BY <1>3 DEF Evict, Within, NoEntry, TypeOK
<1>4. ASSUME NEW c \in Callers, Cancel(c) PROVE LifetimeInv'
  BY <1>4 DEF Cancel, Within
<1>5. CASE Restart
  BY <1>5 DEF Restart, Within, NoEntry, NoCall, TypeOK, Answered
<1>6. ASSUME NEW p \in CronPatterns, CronRefresh(p) PROVE LifetimeInv'
  BY <1>6 DEF CronRefresh, Within, NoEntry
<1> HIDE DEF LifetimeInv
<1> QED BY <1>1, <1>2, <1>3, <1>4, <1>5, <1>6 DEF Environment

LEMMA CallerLifetime ==
  ASSUME TypeOK, LifetimeInv, NEW c \in Callers,
         Step(c) \/ Return(c) \/ \E k \in Keys, t \in Ttls, m \in Modes : Begin(c, k, t, m)
  PROVE  LifetimeInv'
<1> USE CacheAssumption
<1>0. /\ KeyOf(c) \in Keys /\ call[c] \in Call /\ hand[c] \in Entry
      /\ now \in Nat /\ pc \in [Callers -> Pcs] /\ answer \in [Callers -> Answer]
      /\ l1[KeyOf(c)] \in Entry /\ l2[KeyOf(c)] \in Entry
  BY DEF TypeOK, Call
<1>1. ASSUME NEW k \in Keys, NEW t \in Ttls, NEW m \in Modes, Begin(c, k, t, m)
      PROVE LifetimeInv'
  <2>1. Live(l1[k]) => ~(l1[k].due <= now)
    <3>1. l1[k] \in Entry
      BY DEF TypeOK
    <3> QED BY <1>0, <3>1 DEF LifetimeInv, Within, Live, Entry
  <2>2. /\ now' = now /\ l1' = l1 /\ l2' = l2 /\ hand' = hand
        /\ call'[c].since = now
        /\ \A d \in Callers \ {c} :
             call'[d] = call[d] /\ pc'[d] = pc[d] /\ answer'[d] = answer[d]
    BY <1>0, <1>1 DEF Begin, Goto, TypeOK
  <2>3. CASE Live(l1[k])
    <3>1. pc'[c] = "done" /\ ~answer'[c].overdue
      <4>1. pc' = [pc EXCEPT ![c] = "done"]
        BY <1>1, <2>3 DEF Begin, Goto
      <4>2. ~(l1[k].due <= now)
        BY <2>1, <2>3
      <4>3. ~answer'[c].overdue
        <5> DEFINE late == l1[k].due <= now
        <5>1. answer' = [answer EXCEPT ![c] =
                [ver |-> l1[k].ver, cached |-> TRUE, err |-> "none", src |-> "l1", overdue |-> late]]
          BY <1>1, <2>3 DEF Begin
        <5>2. late = FALSE
          BY <4>2
        <5> HIDE DEF late
        <5> QED BY <1>0, <5>1, <5>2
      <4> QED BY <1>0, <4>1, <4>3
    <3> QED BY <1>0, <2>2, <3>1 DEF LifetimeInv, Within, Answered
  <2>4. CASE ~Live(l1[k])
    <3>1. pc'[c] = "l2"
      BY <1>0, <1>1, <2>4 DEF Begin, Goto
    <3> QED BY <1>0, <2>2, <3>1 DEF LifetimeInv, Within, Answered
  <2> QED BY <2>3, <2>4
<1>2. CASE ReadL2(c)
  BY <1>0, <1>2 DEF ReadL2, PassL2, Fail, NoAnswer, Goto, LifetimeInv, Live, TypeOK, Answered
<1>3. CASE Refill(c)
  <2>1. Live(hand[c]) /\ Within(hand[c])
    BY <1>3 DEF Refill, LifetimeInv, Live
  <2>2. l1' = [l1 EXCEPT ![KeyOf(c)] = hand[c]]
    BY <1>0, <1>3, <2>1, RefillKeepsExpiry DEF Refill, FillL1, Live
  <2>3. ~(hand[c].due <= call[c].since)
    BY <1>0, <2>1, LiveNotOverdue
  <2>4. \A k \in Keys : Within(l1'[k]) /\ Within(l2'[k])
    <3>1. l2' = l2
      BY <1>3 DEF Refill
    <3> QED BY <1>0, <2>1, <2>2, <3>1 DEF LifetimeInv, TypeOK
  <2>5. /\ now' = now /\ call' = call /\ \A d \in Callers \ {c} :
             pc'[d] = pc[d] /\ hand'[d] = hand[d] /\ answer'[d] = answer[d]
        /\ pc'[c] \in Answered /\ pc'[c] # "store2" /\ ~answer'[c].overdue
    BY <1>0, <1>3, <2>3 DEF Refill, Hit, Goto, TypeOK, Answered
  <2> QED BY <2>4, <2>5 DEF LifetimeInv, Within, Answered
<1>4. CASE Join(c)
  BY <1>0, <1>4 DEF Join, Goto, LifetimeInv, TypeOK, Answered
<1>5. CASE CheckL1(c)
  <2>1. Live(l1[KeyOf(c)]) => ~(l1[KeyOf(c)].due <= call[c].since)
    BY <1>0, LiveNotOverdue DEF LifetimeInv
  <2>2. /\ now' = now /\ l1' = l1 /\ l2' = l2 /\ hand' = hand /\ call' = call
        /\ \A d \in Callers \ {c} : pc'[d] = pc[d] /\ answer'[d] = answer[d]
    BY <1>0, <1>5 DEF CheckL1, Hit, Goto, TypeOK
  <2>3. pc'[c] = "chk2" \/ (pc'[c] = "finish" /\ ~answer'[c].overdue)
    <3>1. CASE Live(l1[KeyOf(c)])
      <4>1. pc' = [pc EXCEPT ![c] = "finish"]
        BY <1>5, <3>1 DEF CheckL1, Goto
      <4>2. ~(l1[KeyOf(c)].due <= call[c].since)
        BY <2>1, <3>1
      <4>3. ~answer'[c].overdue
        <5> DEFINE late == l1[KeyOf(c)].due <= call[c].since
        <5>1. answer' = [answer EXCEPT ![c] =
                [ver |-> l1[KeyOf(c)].ver, cached |-> FALSE, err |-> "none", src |-> "l1", overdue |-> late]]
          BY <1>5, <3>1 DEF CheckL1, Hit
        <5>2. late = FALSE
          BY <4>2
        <5> HIDE DEF late
        <5> QED BY <1>0, <5>1, <5>2
      <4> QED BY <1>0, <4>1, <4>3
    <3>2. CASE ~Live(l1[KeyOf(c)])
      BY <1>0, <1>5, <3>2 DEF CheckL1, Goto
    <3> QED BY <3>1, <3>2
  <2> QED BY <2>2, <2>3 DEF LifetimeInv, Within, Answered
<1>6. CASE CheckL2(c)
  BY <1>0, <1>6 DEF CheckL2, Fail, NoAnswer, Goto, LifetimeInv, Live, TypeOK, Answered
<1>7. CASE CheckRefill(c)
  <2>1. Live(hand[c]) /\ Within(hand[c])
    BY <1>7 DEF CheckRefill, LifetimeInv, Live
  <2>2. l1' = [l1 EXCEPT ![KeyOf(c)] = hand[c]]
    BY <1>0, <1>7, <2>1, RefillKeepsExpiry DEF CheckRefill, FillL1, Live
  <2>3. ~(hand[c].due <= call[c].since)
    BY <1>0, <2>1, LiveNotOverdue
  <2>4. \A k \in Keys : Within(l1'[k]) /\ Within(l2'[k])
    <3>1. l2' = l2
      BY <1>7 DEF CheckRefill
    <3> QED BY <1>0, <2>1, <2>2, <3>1 DEF LifetimeInv, TypeOK
  <2>5. /\ now' = now /\ call' = call /\ \A d \in Callers \ {c} :
             pc'[d] = pc[d] /\ hand'[d] = hand[d] /\ answer'[d] = answer[d]
        /\ pc'[c] \in Answered /\ pc'[c] # "store2" /\ ~answer'[c].overdue
    BY <1>0, <1>7, <2>3 DEF CheckRefill, Hit, Goto, TypeOK, Answered
  <2> QED BY <2>4, <2>5 DEF LifetimeInv, Within, Answered
<1>8. CASE FetchOk(c)
  BY <1>0, <1>8 DEF FetchOk, Goto, LifetimeInv, TypeOK, Answered
<1>9. CASE FetchFail(c)
  BY <1>0, <1>9 DEF FetchFail, Fail, NoAnswer, Goto, LifetimeInv, TypeOK, Answered
<1>10. CASE Fallback(c)
  BY <1>0, <1>10 DEF Fallback, Hit, Goto, LifetimeInv, TypeOK, Answered
<1>11. CASE StoreL1(c)
  BY <1>0, <1>11, StoredLives DEF StoreL1, Hit, Goto, LifetimeInv, TypeOK, Answered
<1>12. CASE StoreL2(c)
  <2>1. /\ now' = now /\ l1' = l1 /\ hand' = hand /\ call' = call /\ answer' = answer
        /\ \A d \in Callers : \/ pc'[d] = pc[d]
                              \/ (d = c /\ pc[d] = "store2" /\ pc'[d] = "finish")
    <3>1. now' = now /\ l1' = l1 /\ hand' = hand /\ call' = call /\ answer' = answer
      BY <1>12 DEF StoreL2
    <3>2. pc[c] = "store2" /\ pc' = [pc EXCEPT ![c] = "finish"]
      BY <1>12 DEF StoreL2, Goto
    <3> QED BY <1>0, <3>1, <3>2
  <2>2. \A k \in Keys : Within(l2'[k])
    <3>1. l2' = l2 \/ l2' = [l2 EXCEPT ![KeyOf(c)] = Stored(c)]
      BY <1>12 DEF StoreL2
    <3>2. \A k \in Keys : Within(l2[k])
      BY DEF LifetimeInv
    <3>3. Within(Stored(c))
      BY StoredLives
    <3> HIDE DEF Within
    <3> QED BY <1>0, <3>1, <3>2, <3>3 DEF TypeOK
  <2> QED BY <2>1, <2>2 DEF LifetimeInv, Within, Answered
<1>13. CASE Finish(c)
  <2>1. /\ now' = now /\ call' = call /\ l1' = l1 /\ l2' = l2
        /\ \A d \in Callers : \/ (pc'[d] = "done" /\ answer'[d] = answer[c])
                               \/ (pc'[d] = pc[d] /\ answer'[d] = answer[d])
        /\ \A d \in Callers : pc'[d] # "done" => hand'[d] = hand[d]
    <3> HIDE DEF TypeOK
    <3>1. now' = now /\ call' = call /\ l1' = l1 /\ l2' = l2
      BY <1>13 DEF Finish
    <3>2. \A d \in Callers : \/ (pc'[d] = "done" /\ answer'[d] = answer[c])
                             \/ (pc'[d] = pc[d] /\ answer'[d] = answer[d])
      BY <1>13 DEF Finish
    <3>3. pc'[c] = "done" /\ \A d \in Callers \ {c} : hand'[d] = hand[d]
      BY <1>13 DEF Finish, TypeOK
    <3>4. \A d \in Callers : pc'[d] # "done" => hand'[d] = hand[d]
      BY <3>3
    <3> QED BY <3>1, <3>2, <3>4, Zenon
  <2>2. answer[c].err = "none" => ~answer[c].overdue
    BY <1>13 DEF Finish, LifetimeInv, Answered
  <2> QED BY <2>1, <2>2 DEF LifetimeInv, Within, Answered
<1>14. CASE Return(c)
  BY <1>0, <1>14 DEF Return, NoCall, NoAnswer, Goto, LifetimeInv, TypeOK, Answered
<1>15. CASE LeaderStep(c)
  BY <1>5, <1>6, <1>7, <1>8, <1>9, <1>10, <1>11, <1>12, <1>13, <1>15 DEF LeaderStep
<1>16. CASE Step(c)
  BY <1>2, <1>3, <1>4, <1>15, <1>16 DEF Step
<1>17. CASE \E k \in Keys, t \in Ttls, m \in Modes : Begin(c, k, t, m)
  BY <1>1, <1>17
<1> QED
  BY <1>14, <1>16, <1>17

LEMMA NextLifetime ==
  ASSUME InstantRefill
  PROVE  TypeOK /\ LifetimeInv /\ [Next]_vars => LifetimeInv'
<1>1. LifetimeInv /\ UNCHANGED vars => LifetimeInv'
  BY DEF LifetimeInv, Within
<1>2. TypeOK /\ LifetimeInv /\ Next => LifetimeInv'
  BY EnvironmentLifetime, CallerLifetime DEF Next
<1> QED BY <1>1, <1>2

(* When a refill takes less than the clock's resolution, no call is served  *)
(* as fresh a value whose lifetime had ended when the deciding call began   *)
(* (cache.go 139-140, 245).                                                 *)
THEOREM FreshUnderInstantRefill ==
  ASSUME InstantRefill
  PROVE  Spec => []FreshMeansUnexpired
<1>1. LifetimeInv => FreshMeansUnexpired
  BY DEF LifetimeInv, FreshMeansUnexpired, Answered
<1> QED
  BY <1>1, InitLifetime, NextLifetime, TypeCorrect, PTL DEF Spec
-----------------------------------------------------------------------------
(* A leader that found no live row in L2 is the only one who could store   *)
(* one until its flight ends, so there is none while it fetches.           *)
PastCheck == {"fetch", "fallback", "store1", "store2"}

ColdInv ==
  \A c \in Callers :
    /\ pc[c] \in PastCheck /\ AllowL2(KeyOf(c)) => ~Live(l2[KeyOf(c)])
    /\ pc[c] = "store2" => AllowL2(KeyOf(c)) /\ answer[c].err = "none"

LEMMA InitCold == Init => ColdInv
BY DEF Init, ColdInv, PastCheck

(* Each caller's key is a key, and a change of one entry changes no other. *)
LEMMA KeyType ==
  ASSUME TypeOK, NEW c \in Callers
  PROVE  KeyOf(c) \in Keys /\ call[c] \in Call /\ hand[c] \in Entry /\ answer[c] \in Answer
         /\ l1[KeyOf(c)] \in Entry /\ l2[KeyOf(c)] \in Entry
BY DEF TypeOK, Call

(* A store's answer is no error, and it goes on to L2 only when admitted.  *)
LEMMA StoreL1Moves ==
  ASSUME TypeOK, NEW c \in Callers, StoreL1(c)
  PROVE  /\ l1' = [l1 EXCEPT ![KeyOf(c)] = Stored(c)]
         /\ pc'[c] \in {"store2", "finish"} /\ (pc'[c] = "store2" => AllowL2(KeyOf(c)))
         /\ answer'[c].ver = hand[c].ver /\ answer'[c].err = "none" /\ answer'[c].src = "fetch"
         /\ \A d \in Callers \ {c} : pc'[d] = pc[d] /\ answer'[d] = answer[d]
         /\ UNCHANGED <<l2, call, hand, cancelled, envVars, flight, served>>
<1>1. Stored(c).ver = hand[c].ver
  BY DEF Stored
<1>2. pc' = [pc EXCEPT ![c] = IF AllowL2(KeyOf(c)) /\ (call[c].ttl = 0 \/ call[c].ttl >= MinL2Ttl)
                               THEN "store2" ELSE "finish"]
  BY DEF StoreL1, Goto
<1>3. PICK late : answer' = [answer EXCEPT ![c] =
        [ver |-> hand[c].ver, cached |-> FALSE, err |-> "none", src |-> "fetch", overdue |-> late]]
  BY <1>1 DEF StoreL1, Hit
<1>4. l1' = [l1 EXCEPT ![KeyOf(c)] = Stored(c)]
      /\ UNCHANGED <<l2, call, hand, cancelled, envVars, flight, served>>
  BY DEF StoreL1
<1> QED BY <1>2, <1>3, <1>4 DEF TypeOK

LEMMA NextCold == TypeOK /\ LeaderHoldsFlight /\ ColdInv /\ [Next]_vars => ColdInv'
<1> SUFFICES ASSUME TypeOK, LeaderHoldsFlight, ColdInv, [Next]_vars, NEW d \in Callers,
                    pc'[d] \in PastCheck
             PROVE  /\ AllowL2(call'[d].key) => ~(now' < l2'[call'[d].key].exp)
                    /\ pc'[d] = "store2" => AllowL2(call'[d].key) /\ answer'[d].err = "none"
  BY DEF ColdInv, Live, PastCheck, AllowL2
<1> DEFINE Goal == /\ AllowL2(call'[d].key) => ~(now' < l2'[call'[d].key].exp)
                   /\ pc'[d] = "store2" => AllowL2(call'[d].key) /\ answer'[d].err = "none"
<1> SUFFICES Goal
  OBVIOUS
<1> USE DEF PastCheck, Live
<1>0. KeyOf(d) \in Keys /\ now \in Nat /\ \A k \in Keys : l2[k].exp \in Nat
  BY CacheAssumption, KeyType DEF TypeOK, Entry
<1>1. CASE UNCHANGED vars
  BY <1>1 DEF ColdInv
<1>2. CASE Environment
  <2>1. CASE Tick
    BY <1>0, <2>1 DEF Tick, ColdInv
  <2>2. ASSUME NEW p \in CronPatterns, CronRefresh(p) PROVE Goal
    BY <1>0, <2>2 DEF CronRefresh, ColdInv, NoEntry
  <2>3. CASE Restart
    BY <2>3 DEF Restart, TypeOK
  <2>4. ASSUME NEW k \in Keys, Publish(k) \/ Evict(k) PROVE Goal
    BY <2>4 DEF Publish, Evict, ColdInv
  <2>5. ASSUME NEW c \in Callers, Cancel(c) PROVE Goal
    BY <2>5 DEF Cancel, ColdInv
  <2> QED BY <1>2, <2>1, <2>2, <2>3, <2>4, <2>5 DEF Environment
<1>3. ASSUME NEW c \in Callers, NEW k \in Keys, NEW t \in Ttls, NEW m \in Modes, Begin(c, k, t, m)
      PROVE  Goal
  BY <1>3 DEF Begin, Goto, ColdInv, TypeOK
<1>4. ASSUME NEW c \in Callers, Return(c)
      PROVE  Goal
  BY <1>4 DEF Return, Goto, ColdInv, TypeOK
<1>5. ASSUME NEW c \in Callers, ReadL2(c) \/ Refill(c) \/ Join(c)
      PROVE  Goal
  <2>1. CASE ReadL2(c)
    BY <2>1 DEF ReadL2, PassL2, Fail, Goto, ColdInv, TypeOK
  <2>2. CASE Refill(c)
    BY <2>2 DEF Refill, Hit, Goto, ColdInv, TypeOK
  <2>3. CASE Join(c)
    BY <2>3 DEF Join, Goto, ColdInv, TypeOK
  <2> QED BY <1>5, <2>1, <2>2, <2>3
<1>6. ASSUME NEW c \in Callers, CheckL1(c) \/ CheckL2(c) \/ CheckRefill(c)
      PROVE  Goal
  <2>1. CASE CheckL1(c)
    BY <2>1 DEF CheckL1, Hit, Goto, ColdInv, TypeOK
  <2>2. CASE CheckL2(c)
    BY <2>2 DEF CheckL2, Fail, Goto, ColdInv, TypeOK
  <2>3. CASE CheckRefill(c)
    BY <2>3 DEF CheckRefill, Hit, Goto, ColdInv, TypeOK
  <2> QED BY <1>6, <2>1, <2>2, <2>3
<1>7. ASSUME NEW c \in Callers, FetchOk(c) \/ FetchFail(c) \/ Fallback(c)
      PROVE  Goal
  BY <1>7 DEF FetchOk, FetchFail, Fallback, Fail, Hit, Goto, ColdInv, TypeOK
<1>8. ASSUME NEW c \in Callers, StoreL1(c)
      PROVE  Goal
  BY <1>8, StoreL1Moves DEF ColdInv, StoreL1
<1>9. ASSUME NEW c \in Callers, StoreL2(c)
      PROVE  Goal
  <2>1. d # c /\ pc[d] \in PastCheck /\ pc[c] = "store2"
    BY <1>9 DEF StoreL2, Goto, TypeOK
  <2>2. KeyOf(d) # KeyOf(c)
    BY <2>1 DEF LeaderHoldsFlight
  <2> QED BY <1>0, <1>9, <2>1, <2>2, KeyType DEF StoreL2, Goto, ColdInv, TypeOK
<1>10. ASSUME NEW c \in Callers, Finish(c)
       PROVE  Goal
  BY <1>10 DEF Finish, ColdInv
<1>11. ASSUME NEW c \in Callers, Step(c)
       PROVE  Goal
  BY <1>5, <1>6, <1>7, <1>8, <1>9, <1>10, <1>11 DEF Step, LeaderStep
<1> HIDE DEF Goal
<1>12. CASE Next
  BY <1>2, <1>3, <1>4, <1>11, <1>12 DEF Next
<1>13. Goal
  BY <1>1, <1>12
<1> QED BY <1>13 DEF Goal

(* While a leader fetches, L2 holds nothing alive for its key              *)
(* (GetOrFetch, cache.go 162-196).                                         *)
THEOREM ColdWhileFetching == Spec => [](TypeOK /\ LeaderHoldsFlight /\ ColdInv)
<1>1. Init => TypeOK /\ LeaderHoldsFlight /\ ColdInv
  BY InitTypeOK, InitLeader, InitCold
<1>2. (TypeOK /\ LeaderHoldsFlight /\ ColdInv) /\ [Next]_vars => (TypeOK /\ LeaderHoldsFlight /\ ColdInv)'
  BY NextTypeOK, NextLeader, NextCold
<1> QED BY <1>1, <1>2, PTL DEF Spec

LEMMA NextStaleIfError ==
  ASSUME ~L2Faults
  PROVE  TypeOK /\ LeaderHoldsFlight /\ ColdInv /\ UpstreamErrorMeansNoRow /\ [Next]_vars
           => UpstreamErrorMeansNoRow'
<1> SUFFICES ASSUME TypeOK, LeaderHoldsFlight, ColdInv, UpstreamErrorMeansNoRow, [Next]_vars,
                    NEW d \in Callers,
                    pc'[d] = "finish", d \notin cancelled', answer'[d].err = "upstream",
                    call'[d].key \in StaleKeys \cap L2Keys
             PROVE  l2'[call'[d].key] = NoEntry
  BY DEF UpstreamErrorMeansNoRow
<1> DEFINE Goal == l2'[call'[d].key] = NoEntry
<1> SUFFICES Goal
  OBVIOUS
<1>0. KeyOf(d) \in Keys
  BY KeyType
<1>1. CASE UNCHANGED vars
  BY <1>1 DEF UpstreamErrorMeansNoRow
<1>2. CASE Environment
  BY <1>0, <1>2 DEF Environment, Tick, Publish, Evict, Cancel, Restart, CronRefresh,
                    UpstreamErrorMeansNoRow, TypeOK
<1>3. ASSUME NEW c \in Callers, NEW k \in Keys, NEW t \in Ttls, NEW m \in Modes, Begin(c, k, t, m)
      PROVE  Goal
  BY <1>3 DEF Begin, Goto, UpstreamErrorMeansNoRow, TypeOK
<1>4. ASSUME NEW c \in Callers, Return(c)
      PROVE  Goal
  BY <1>4 DEF Return, Goto, UpstreamErrorMeansNoRow, TypeOK
<1>5. ASSUME NEW c \in Callers, ReadL2(c) \/ Refill(c) \/ Join(c)
      PROVE  Goal
  BY <1>5 DEF ReadL2, Refill, Join, PassL2, Fail, Hit, Goto, UpstreamErrorMeansNoRow, TypeOK
<1>6. ASSUME NEW c \in Callers, CheckL1(c) \/ CheckL2(c) \/ CheckRefill(c)
      PROVE  Goal
  BY <1>6 DEF CheckL1, CheckL2, CheckRefill, Fail, Hit, NoAnswer, Goto, UpstreamErrorMeansNoRow, TypeOK
<1>7. ASSUME NEW c \in Callers, FetchOk(c) \/ FetchFail(c)
      PROVE  Goal
  BY <1>7 DEF FetchOk, FetchFail, Fail, Goto, AllowL2, UpstreamErrorMeansNoRow, TypeOK
<1>8. ASSUME NEW c \in Callers, Fallback(c)
      PROVE  Goal
  <2>1. CASE c = d
    <3>1. pc[c] = "fallback" /\ UNCHANGED <<l2, call, cancelled>>
      BY <1>8 DEF Fallback
    <3>2. AllowL2(KeyOf(c)) /\ ~Live(l2[KeyOf(c)]) /\ ~ReadMayFail(c)
      BY <2>1, <3>1 DEF ColdInv, PastCheck, AllowL2, ReadMayFail
    <3>3. CASE l2[KeyOf(c)] = NoEntry
      BY <2>1, <3>1, <3>3
    <3>4. CASE Hit(c, l2[KeyOf(c)], TRUE, "stale", "l2")
      BY <2>1, <3>4 DEF Hit, TypeOK
    <3> QED BY <1>8, <3>2, <3>3, <3>4 DEF Fallback
  <2>2. CASE c # d
    BY <1>8, <2>2 DEF Fallback, Hit, Goto, UpstreamErrorMeansNoRow, TypeOK
  <2> QED BY <2>1, <2>2
<1>9. ASSUME NEW c \in Callers, StoreL1(c)
      PROVE  Goal
  BY <1>9, StoreL1Moves DEF UpstreamErrorMeansNoRow
<1>10. ASSUME NEW c \in Callers, StoreL2(c)
      PROVE  Goal
  <2>1. d # c /\ pc[d] = "finish" /\ pc[c] = "store2" /\ UNCHANGED <<call, answer, cancelled>>
    BY <1>10 DEF StoreL2, Goto, ColdInv, TypeOK
  <2>2. KeyOf(d) # KeyOf(c)
    BY <2>1 DEF LeaderHoldsFlight
  <2>3. l2[KeyOf(d)] = NoEntry
    BY <2>1 DEF UpstreamErrorMeansNoRow
  <2> QED BY <1>0, <1>10, <2>1, <2>2, <2>3, KeyType DEF StoreL2, TypeOK
<1>11. ASSUME NEW c \in Callers, Finish(c)
       PROVE  Goal
  BY <1>11 DEF Finish, UpstreamErrorMeansNoRow
<1>12. ASSUME NEW c \in Callers, Step(c)
       PROVE  Goal
  BY <1>5, <1>6, <1>7, <1>8, <1>9, <1>10, <1>11, <1>12 DEF Step, LeaderStep
<1> HIDE DEF Goal
<1>13. CASE Next
  BY <1>2, <1>3, <1>4, <1>12, <1>13 DEF Next
<1> QED BY <1>1, <1>13

(* When L2 can be read, no flight ends with the upstream's error while a    *)
(* row is there to answer for it, unless the leader's own context was       *)
(* cancelled (cache.go 19-22, 172-181).                                     *)
THEOREM StaleIfError ==
  ASSUME ~L2Faults
  PROVE  Spec => []UpstreamErrorMeansNoRow
<1>1. Init => UpstreamErrorMeansNoRow
  BY DEF Init, UpstreamErrorMeansNoRow
<1> QED
  BY <1>1, NextStaleIfError, ColdWhileFetching, PTL DEF Spec
-----------------------------------------------------------------------------
(* Why a request goes out only for a cold key, although a refill from      *)
(* outside the flight may fill L1 after the leader has looked there: the   *)
(* row it carries is the row that is in L2, so the leader finds it when it *)
(* looks in L2, and none can be on its way once the leader found none.     *)
WarmInv ==
  \A c \in Callers :
    /\ pc[c] \in {"refill", "chkRefill"} => AllowL2(KeyOf(c)) /\ hand[c] = l2[KeyOf(c)]
    /\ pc[c] = "chk2" /\ Live(l1[KeyOf(c)]) =>
         AllowL2(KeyOf(c)) /\ l1[KeyOf(c)].exp <= l2[KeyOf(c)].exp
    /\ pc[c] \in {"fetch", "fallback", "store1"} => ~Live(l1[KeyOf(c)])

LEMMA InitWarm == Init => WarmInv
BY DEF Init, WarmInv

(* What a refill brings to L1 is the row of L2, unchanged and alive.       *)
LEMMA RefillBringsRow ==
  ASSUME TypeOK, LifetimeInv, WarmInv, NEW c \in Callers,
         pc[c] \in {"refill", "chkRefill"}, FillL1(KeyOf(c), hand[c])
  PROVE  /\ l1' = [l1 EXCEPT ![KeyOf(c)] = l2[KeyOf(c)]]
         /\ AllowL2(KeyOf(c)) /\ Live(l2[KeyOf(c)]) /\ hand[c] = l2[KeyOf(c)]
<1>1. hand[c] \in Entry /\ now < hand[c].exp /\ hand[c] = l2[KeyOf(c)] /\ AllowL2(KeyOf(c))
  BY KeyType DEF LifetimeInv, WarmInv
<1> QED BY <1>1, RefillKeepsExpiry DEF FillL1, Live

LEMMA NextWarm ==
  ASSUME "all" \notin CronPatterns
  PROVE  TypeOK /\ LeaderHoldsFlight /\ LifetimeInv /\ ColdInv /\ WarmInv /\ [Next]_vars => WarmInv'
<1> DEFINE Goal(d) ==
      /\ pc'[d] \in {"refill", "chkRefill"} => AllowL2(call'[d].key) /\ hand'[d] = l2'[call'[d].key]
      /\ pc'[d] = "chk2" /\ now' < l1'[call'[d].key].exp =>
           AllowL2(call'[d].key) /\ l1'[call'[d].key].exp <= l2'[call'[d].key].exp
      /\ pc'[d] \in {"fetch", "fallback", "store1"} => ~(now' < l1'[call'[d].key].exp)
<1> SUFFICES ASSUME TypeOK, LeaderHoldsFlight, LifetimeInv, ColdInv, WarmInv, [Next]_vars, NEW d \in Callers
             PROVE  Goal(d)
  BY DEF WarmInv, Live, AllowL2
<1> USE DEF Live
<1>0. /\ KeyOf(d) \in Keys /\ now \in Nat
      /\ \A k \in Keys : l1[k] \in Entry /\ l2[k] \in Entry /\ l1[k].exp \in Nat /\ l2[k].exp \in Nat
  BY CacheAssumption, KeyType DEF TypeOK, Entry
<1>1. CASE UNCHANGED vars
  BY <1>1 DEF WarmInv
<1>2. CASE Environment
  <2>1. CASE Tick
    BY <1>0, <2>1 DEF Tick, WarmInv
  <2>2. ASSUME NEW p \in CronPatterns, CronRefresh(p) PROVE Goal(d)
    <3>1. \A k \in Keys : l2'[k] = l2[k]
      BY <2>2 DEF CronRefresh, KeyLike
    <3> QED BY <1>0, <2>2, <3>1 DEF CronRefresh, WarmInv
  <2>3. CASE Restart
    BY <2>3 DEF Restart, TypeOK
  <2>4. ASSUME NEW k \in Keys, Publish(k) PROVE Goal(d)
    BY <2>4 DEF Publish, WarmInv
  <2>5. ASSUME NEW k \in Keys, Evict(k) PROVE Goal(d)
    <3>1. l1'[KeyOf(d)] = l1[KeyOf(d)] \/ l1'[KeyOf(d)].exp = 0
      BY <1>0, <2>5 DEF Evict, NoEntry, TypeOK
    <3> QED BY <1>0, <2>5, <3>1 DEF Evict, WarmInv
  <2>6. ASSUME NEW c \in Callers, Cancel(c) PROVE Goal(d)
    BY <2>6 DEF Cancel, WarmInv
  <2> QED BY <1>2, <2>1, <2>2, <2>3, <2>4, <2>5, <2>6 DEF Environment
<1>3. ASSUME NEW c \in Callers, NEW k \in Keys, NEW t \in Ttls, NEW m \in Modes, Begin(c, k, t, m)
      PROVE  Goal(d)
  BY <1>3 DEF Begin, Goto, WarmInv, TypeOK
<1>4. ASSUME NEW c \in Callers, Return(c)
      PROVE  Goal(d)
  BY <1>4 DEF Return, Goto, WarmInv, TypeOK
<1>5. ASSUME NEW c \in Callers, ReadL2(c)
      PROVE  Goal(d)
  BY <1>5 DEF ReadL2, PassL2, Goto, WarmInv, TypeOK
<1>6. ASSUME NEW c \in Callers, Refill(c)
      PROVE  Goal(d)
  <2>1. /\ l1' = [l1 EXCEPT ![KeyOf(c)] = l2[KeyOf(c)]]
        /\ AllowL2(KeyOf(c)) /\ Live(l2[KeyOf(c)])
    BY <1>6, RefillBringsRow DEF Refill
  <2>2. /\ UNCHANGED <<l2, call, now>> /\ pc'[c] = "done"
        /\ \A e \in Callers \ {c} : pc'[e] = pc[e] /\ hand'[e] = hand[e]
    BY <1>6 DEF Refill, Goto, TypeOK
  <2>3. CASE d # c /\ KeyOf(d) = KeyOf(c)
    <3>1. l1'[KeyOf(d)] = l2[KeyOf(d)]
      BY <1>0, <2>1, <2>3 DEF TypeOK
    <3>2. pc[d] \notin {"fetch", "fallback", "store1"}
      BY <2>1, <2>3 DEF ColdInv, PastCheck
    <3> QED BY <1>0, <2>1, <2>2, <2>3, <3>1, <3>2 DEF WarmInv
  <2>4. CASE d # c /\ KeyOf(d) # KeyOf(c)
    <3>1. l1'[KeyOf(d)] = l1[KeyOf(d)]
      BY <1>0, <2>1, <2>4 DEF TypeOK
    <3> QED BY <2>2, <2>4, <3>1 DEF WarmInv
  <2> QED BY <2>2, <2>3, <2>4
<1>7. ASSUME NEW c \in Callers, Join(c)
      PROVE  Goal(d)
  BY <1>7 DEF Join, Goto, WarmInv, TypeOK
<1>8. ASSUME NEW c \in Callers, CheckL1(c)
      PROVE  Goal(d)
  BY <1>8 DEF CheckL1, Goto, WarmInv, TypeOK
<1>9. ASSUME NEW c \in Callers, CheckL2(c)
      PROVE  Goal(d)
  <2>1. CASE d = c
    <3>1. /\ pc[c] = "chk2" /\ pc'[c] \in {"fetch", "finish", "chkRefill"} /\ UNCHANGED <<l1, l2, now, call>>
          /\ pc'[c] = "fetch" => ~AllowL2(KeyOf(c)) \/ ~Live(l2[KeyOf(c)])
          /\ pc'[c] = "chkRefill" => AllowL2(KeyOf(c)) /\ hand'[c] = l2[KeyOf(c)]
      BY <1>9 DEF CheckL2, Goto, TypeOK
    <3> QED BY <1>0, <2>1, <3>1 DEF WarmInv
  <2>2. CASE d # c
    BY <1>9, <2>2 DEF CheckL2, Goto, WarmInv, TypeOK
  <2> QED BY <2>1, <2>2
<1>10. ASSUME NEW c \in Callers, CheckRefill(c) \/ StoreL1(c)
       PROVE  Goal(d)
  <2>1. /\ \E e : l1' = [l1 EXCEPT ![KeyOf(c)] = e]
        /\ UNCHANGED <<l2, call, now>> /\ pc'[c] \in {"finish", "store2"} /\ pc[c] \in LeaderPcs
        /\ \A e \in Callers \ {c} : pc'[e] = pc[e] /\ hand'[e] = hand[e]
    BY <1>10 DEF CheckRefill, StoreL1, FillL1, Goto, TypeOK
  <2>2. CASE d # c /\ pc[d] \in LeaderPcs
    <3>1. l1'[KeyOf(d)] = l1[KeyOf(d)]
      BY <1>0, <2>1, <2>2 DEF LeaderHoldsFlight, TypeOK
    <3> QED BY <2>1, <2>2, <3>1 DEF WarmInv
  <2>3. CASE d # c /\ pc[d] \notin LeaderPcs
    BY <2>1, <2>3 DEF WarmInv
  <2> QED BY <2>1, <2>2, <2>3
<1>11. ASSUME NEW c \in Callers, FetchOk(c) \/ FetchFail(c) \/ Fallback(c)
       PROVE  Goal(d)
  BY <1>11 DEF FetchOk, FetchFail, Fallback, Goto, WarmInv, TypeOK
<1>12. ASSUME NEW c \in Callers, StoreL2(c)
       PROVE  Goal(d)
  <2>1. /\ UNCHANGED <<l1, call, hand, now>> /\ pc[c] = "store2" /\ pc' = [pc EXCEPT ![c] = "finish"]
        /\ \A k \in Keys \ {KeyOf(c)} : l2'[k] = l2[k]
    BY <1>12 DEF StoreL2, Goto, TypeOK
  <2>2. pc'[c] = "finish" /\ \A e \in Callers \ {c} : pc'[e] = pc[e]
    BY <2>1 DEF TypeOK
  <2>3. AllowL2(KeyOf(c)) /\ ~Live(l2[KeyOf(c)])
    BY <2>1 DEF ColdInv, PastCheck
  <2>4. CASE d # c /\ pc[d] \in {"refill", "chkRefill", "chk2", "fetch", "fallback", "store1"}
    <3>1. KeyOf(d) # KeyOf(c)
      BY <2>1, <2>3, <2>4 DEF LeaderHoldsFlight, LifetimeInv, WarmInv
    <3> QED BY <1>0, <2>1, <2>2, <3>1, <2>4 DEF WarmInv
  <2> QED BY <2>2, <2>4
<1>13. ASSUME NEW c \in Callers, Finish(c)
       PROVE  Goal(d)
  BY <1>13 DEF Finish, WarmInv, TypeOK
<1>14. ASSUME NEW c \in Callers, Step(c)
       PROVE  Goal(d)
  <2> HIDE DEF Goal
  <2> QED BY <1>5, <1>6, <1>7, <1>8, <1>9, <1>10, <1>11, <1>12, <1>13, <1>14 DEF Step, LeaderStep
<1> HIDE DEF Goal
<1>15. CASE Next
  BY <1>2, <1>3, <1>4, <1>14, <1>15 DEF Next
<1> QED BY <1>1, <1>15

(* The levels together: what L1 and L2 hold and what is on its way between. *)
WholeInv == TypeOK /\ LeaderHoldsFlight /\ LifetimeInv /\ ColdInv /\ WarmInv

(* While a leader fetches, L1 holds nothing alive for its key either.      *)
THEOREM WarmUnderInstantRefill ==
  ASSUME InstantRefill, "all" \notin CronPatterns
  PROVE  Spec => []WholeInv
<1>1. Init => WholeInv
  BY InitTypeOK, InitLeader, InitLifetime, InitCold, InitWarm DEF WholeInv
<1>2. WholeInv /\ [Next]_vars => WholeInv'
  BY NextTypeOK, NextLeader, NextLifetime, NextCold, NextWarm DEF WholeInv
<1> QED BY <1>1, <1>2, PTL DEF Spec

(* A leader goes from its second check to the request by CheckL2 only.     *)
LEMMA OnlyCheckSends ==
  ASSUME TypeOK, Next, NEW d \in Callers, pc[d] = "chk2", pc'[d] = "fetch"
  PROVE  CheckL2(d)
<1> SUFFICES ASSUME ~CheckL2(d) PROVE FALSE
  OBVIOUS
<1>1. ASSUME Environment PROVE FALSE
  BY <1>1 DEF Environment, Tick, Publish, Evict, Cancel, Restart, CronRefresh, TypeOK
<1>2. ASSUME NEW c \in Callers, NEW k \in Keys, NEW t \in Ttls, NEW m \in Modes, Begin(c, k, t, m)
      PROVE  FALSE
  BY <1>2 DEF Begin, Goto, TypeOK
<1>3. ASSUME NEW c \in Callers, Step(c) \/ Return(c)
      PROVE  FALSE
  BY <1>3 DEF Step, LeaderStep, Return, ReadL2, PassL2, Refill, Join, CheckL1, CheckL2, CheckRefill,
              FetchOk, FetchFail, Fallback, StoreL1, StoreL2, Finish, Goto, TypeOK
<1> QED BY <1>1, <1>2, <1>3 DEF Next

(* A request goes out only for a key that neither level holds alive        *)
(* (cache.go 162-170), whatever refills, stores, evictions and restarts     *)
(* came between the looks, as long as a refill takes less than the clock's  *)
(* resolution and no script empties L2.                                     *)
THEOREM RequestOnlyWhenCold ==
  ASSUME InstantRefill, "all" \notin CronPatterns
  PROVE  Spec => FetchOnlyWhenCold
<1>1. WholeInv /\ [Next]_vars =>
        [\A c \in Callers : (pc[c] = "chk2" /\ pc'[c] = "fetch") =>
           /\ ~Live(l1[KeyOf(c)])
           /\ KeyOf(c) \in L2Keys => ~Live(l2[KeyOf(c)])]_vars
  <2> SUFFICES ASSUME WholeInv, Next, NEW c \in Callers, pc[c] = "chk2", pc'[c] = "fetch"
               PROVE  ~Live(l1[KeyOf(c)]) /\ (KeyOf(c) \in L2Keys => ~Live(l2[KeyOf(c)]))
    OBVIOUS
  <2>1. CheckL2(c) /\ pc \in [Callers -> Pcs]
    BY OnlyCheckSends DEF WholeInv, TypeOK
  <2>2. ~AllowL2(KeyOf(c)) \/ ~Live(l2[KeyOf(c)])
    BY <2>1 DEF CheckL2, Goto
  <2>3. now \in Nat /\ l1[KeyOf(c)].exp \in Nat /\ l2[KeyOf(c)].exp \in Nat
    BY CacheAssumption, KeyType DEF WholeInv, TypeOK, Entry
  <2> QED BY <2>2, <2>3 DEF WholeInv, WarmInv, Live, AllowL2
<1> QED BY <1>1, WarmUnderInstantRefill, PTL DEF Spec, FetchOnlyWhenCold
-----------------------------------------------------------------------------
(* Why a key never goes back in time: at any moment there is one version   *)
(* of it that can still be given out as fresh.  What is alive in L1, alive *)
(* in L2, on its way from L2 to L1, fetched and being stored, or the       *)
(* result of a flight is of that version, and nothing newer was given out. *)
(* Only an answer of the source replaces it, and then nothing else is      *)
(* alive.                                                                  *)
Levels(k, v) ==
  /\ served[k] <= v /\ v <= upstream[k]
  /\ Live(l1[k]) => l1[k].ver = v
  /\ AllowL2(k) /\ Live(l2[k]) => l2[k].ver = v
Carries(c, v) ==
  /\ pc[c] \in {"refill", "chkRefill", "store1", "store2"} => hand[c].ver = v
  /\ pc[c] \in {"store2", "finish"} /\ answer[c].err = "none" => answer[c].ver = v
Current(k, v) == Levels(k, v) /\ \A c \in Callers : KeyOf(c) = k => Carries(c, v)

OneVersion == \A k \in Keys : \E v \in Versions : Current(k, v)
ToldBefore == \A c \in Callers : call[c].servedBefore <= served[KeyOf(c)]

LEMMA InitVersions == Init => OneVersion /\ ToldBefore /\ NeverOlder
<1> SUFFICES ASSUME Init PROVE OneVersion /\ ToldBefore /\ NeverOlder
  OBVIOUS
<1>1. ASSUME NEW k \in Keys PROVE 0 \in Versions /\ Current(k, 0)
  BY <1>1, CacheAssumption DEF Init, Current, Levels, Carries, Live, NoEntry, NoAnswer, Versions
<1>2. OneVersion
  BY <1>1 DEF OneVersion
<1>3. ToldBefore
  <2>1. NoCall.servedBefore = 0 /\ NoCall.key \in Keys
    BY NoCallType DEF NoCall, Call
  <2>2. \A c \in Callers : call[c] = NoCall
    BY DEF Init
  <2>3. served[NoCall.key] = 0
    BY <2>1 DEF Init
  <2>4. NoCall.servedBefore <= served[NoCall.key]
    BY <2>1, <2>3
  <2> QED BY <2>2, <2>4 DEF ToldBefore
<1> QED BY <1>2, <1>3 DEF Init, NeverOlder

LEMMA VersionTypes ==
  ASSUME TypeOK, NEW k \in Keys
  PROVE  /\ now \in Nat /\ served[k] \in Nat /\ upstream[k] \in Nat
         /\ l1[k] \in Entry /\ l1[k].ver \in Nat /\ l1[k].exp \in Nat
         /\ l2[k] \in Entry /\ l2[k].ver \in Nat /\ l2[k].exp \in Nat
BY CacheAssumption DEF TypeOK, Entry, Versions

(* Giving out the current version leaves nothing newer given out.          *)
LEMMA TellCurrent ==
  ASSUME TypeOK, NEW k \in Keys, NEW v \in Nat, NEW j \in Keys, NEW w \in Nat,
         served[k] <= v, NoteServed(j, w), j = k => w = v
  PROVE  served'[k] <= v /\ served[k] <= served'[k]
BY VersionTypes DEF NoteServed, Larger, TypeOK

LEMMA EnvironmentVersions ==
  ASSUME "all" \notin CronPatterns, TypeOK, Environment, NEW k \in Keys, NEW v \in Versions, Current(k, v)
  PROVE  Current(k, v)'
<1> USE VersionTypes DEF Current, Levels, Carries, Live
<1>0. v \in Nat
  BY CacheAssumption DEF Versions
<1>1. CASE Tick
  BY <1>0, <1>1 DEF Tick
<1>2. ASSUME NEW p \in CronPatterns, CronRefresh(p) PROVE Current(k, v)'
  <2>1. l2'[k] = l2[k]
    BY <1>2 DEF CronRefresh, KeyLike
  <2> QED BY <1>2, <2>1 DEF CronRefresh
<1>3. CASE Restart
  <2>1. l1'[k] = NoEntry /\ \A c \in Callers : pc'[c] = "idle"
    BY <1>3 DEF Restart
  <2> QED BY <1>3, <2>1 DEF Restart, NoEntry
<1>4. ASSUME NEW j \in Keys, Publish(j) PROVE Current(k, v)'
  BY <1>0, <1>4 DEF Publish, TypeOK
<1>5. ASSUME NEW j \in Keys, Evict(j) PROVE Current(k, v)'
  <2>1. l1'[k] = l1[k] \/ l1'[k].exp = 0
    BY <1>5 DEF Evict, NoEntry, TypeOK
  <2> QED BY <1>5, <2>1 DEF Evict
<1>6. ASSUME NEW c \in Callers, Cancel(c) PROVE Current(k, v)'
  BY <1>6 DEF Cancel
<1> QED BY <1>1, <1>2, <1>3, <1>4, <1>5, <1>6 DEF Environment

(* A step of one caller leaves what the others carry.                      *)
LEMMA OthersCarry ==
  ASSUME TypeOK, NEW c \in Callers, NEW k \in Keys, NEW v \in Versions, Current(k, v),
         \A d \in Callers \ {c} : pc'[d] = pc[d] /\ call'[d] = call[d] /\ hand'[d] = hand[d] /\ answer'[d] = answer[d],
         Levels(k, v)', call'[c].key = k => Carries(c, v)'
  PROVE  Current(k, v)'
BY DEF Current, Carries
LEMMA StepVersions ==
  ASSUME WholeInv, NEW c \in Callers, Step(c), NEW k \in Keys, NEW v \in Versions, Current(k, v)
  PROVE  \E w \in Versions : Current(k, w)'
<1> USE DEF Live
<1>0. /\ TypeOK /\ v \in Nat /\ Levels(k, v) /\ (KeyOf(c) = k => Carries(c, v))
      /\ KeyOf(c) \in Keys /\ hand[c].ver \in Nat
  BY CacheAssumption, KeyType DEF WholeInv, Versions, Current, Entry
<1>1. CASE ReadL2(c)
  <2>1. Levels(k, v)'
    BY <1>0, <1>1 DEF ReadL2, Levels
  <2>2. call'[c].key = k => Carries(c, v)'
    BY <1>0, <1>1 DEF ReadL2, PassL2, Goto, TypeOK, Levels, Carries
  <2>3. \A d \in Callers \ {c} : pc'[d] = pc[d] /\ call'[d] = call[d] /\ hand'[d] = hand[d] /\ answer'[d] = answer[d]
    BY <1>0, <1>1 DEF ReadL2, PassL2, Fail, Goto, TypeOK
  <2> QED BY <1>0, <2>1, <2>2, <2>3, OthersCarry
<1>2. CASE Refill(c)
  <2>1. /\ l1' = [l1 EXCEPT ![KeyOf(c)] = l2[KeyOf(c)]] /\ AllowL2(KeyOf(c)) /\ Live(l2[KeyOf(c)])
        /\ hand[c] = l2[KeyOf(c)]
    BY <1>2, RefillBringsRow DEF Refill, WholeInv
  <2>2. NoteServed(KeyOf(c), hand[c].ver) /\ UNCHANGED <<l2, call, now, upstream>>
    BY <1>2 DEF Refill
  <2>3. KeyOf(c) = k => hand[c].ver = v
    BY <1>0, <2>1 DEF Levels
  <2>4. served'[k] <= v
    BY <1>0, <2>2, <2>3, TellCurrent DEF Levels
  <2>5. l1'[k] = l1[k] \/ (KeyOf(c) = k /\ l1'[k] = hand[c])
    BY <1>0, <2>1 DEF TypeOK
  <2>6. Levels(k, v)'
    BY <1>0, <2>2, <2>3, <2>4, <2>5 DEF Levels
  <2>7. /\ pc'[c] = "done"
        /\ \A d \in Callers \ {c} : pc'[d] = pc[d] /\ call'[d] = call[d] /\ hand'[d] = hand[d] /\ answer'[d] = answer[d]
    BY <1>0, <1>2 DEF Refill, Hit, Goto, TypeOK
  <2> QED BY <1>0, <2>6, <2>7, OthersCarry DEF Carries
<1>3. CASE Join(c)
  <2>1. Levels(k, v)'
    BY <1>0, <1>3 DEF Join, Levels
  <2>2. /\ pc'[c] \in {"chk1", "wait"}
        /\ \A d \in Callers \ {c} : pc'[d] = pc[d] /\ call'[d] = call[d] /\ hand'[d] = hand[d] /\ answer'[d] = answer[d]
    BY <1>0, <1>3 DEF Join, Goto, TypeOK
  <2> QED BY <1>0, <2>1, <2>2, OthersCarry DEF Carries
<1>4. CASE CheckL1(c)
  <2>1. Levels(k, v)'
    BY <1>0, <1>4 DEF CheckL1, Levels
  <2>2. pc'[c] = "chk2" \/ (pc'[c] = "finish" /\ Live(l1[KeyOf(c)]) /\ answer'[c].ver = l1[KeyOf(c)].ver)
    BY <1>0, <1>4 DEF CheckL1, Hit, Goto, TypeOK
  <2>3. /\ call' = call
        /\ \A d \in Callers \ {c} : pc'[d] = pc[d] /\ call'[d] = call[d] /\ hand'[d] = hand[d] /\ answer'[d] = answer[d]
    BY <1>0, <1>4 DEF CheckL1, Hit, Goto, TypeOK
  <2>4. call'[c].key = k => Carries(c, v)'
    BY <1>0, <2>2, <2>3 DEF Levels, Carries
  <2> QED BY <1>0, <2>1, <2>3, <2>4, OthersCarry
<1>5. CASE CheckL2(c)
  <2>1. Levels(k, v)'
    BY <1>0, <1>5 DEF CheckL2, Levels
  <2>2. call'[c].key = k => Carries(c, v)'
    BY <1>0, <1>5 DEF CheckL2, Fail, NoAnswer, Goto, TypeOK, Levels, Carries
  <2>3. \A d \in Callers \ {c} : pc'[d] = pc[d] /\ call'[d] = call[d] /\ hand'[d] = hand[d] /\ answer'[d] = answer[d]
    BY <1>0, <1>5 DEF CheckL2, Fail, Goto, TypeOK
  <2> QED BY <1>0, <2>1, <2>2, <2>3, OthersCarry
<1>6. CASE CheckRefill(c)
  <2>1. /\ l1' = [l1 EXCEPT ![KeyOf(c)] = l2[KeyOf(c)]] /\ AllowL2(KeyOf(c)) /\ Live(l2[KeyOf(c)])
        /\ hand[c] = l2[KeyOf(c)]
    BY <1>6, RefillBringsRow DEF CheckRefill, WholeInv
  <2>2. UNCHANGED <<l2, call, now, upstream, served>>
    BY <1>6 DEF CheckRefill
  <2>3. KeyOf(c) = k => hand[c].ver = v
    BY <1>0, <2>1 DEF Levels
  <2>4. l1'[k] = l1[k] \/ (KeyOf(c) = k /\ l1'[k] = hand[c])
    BY <1>0, <2>1 DEF TypeOK
  <2>5. Levels(k, v)'
    BY <1>0, <2>2, <2>3, <2>4 DEF Levels
  <2>6. /\ pc'[c] = "finish" /\ answer'[c].ver = hand[c].ver
        /\ \A d \in Callers \ {c} : pc'[d] = pc[d] /\ call'[d] = call[d] /\ hand'[d] = hand[d] /\ answer'[d] = answer[d]
    BY <1>0, <1>6 DEF CheckRefill, Hit, Goto, TypeOK
  <2> QED BY <1>0, <2>2, <2>3, <2>5, <2>6, OthersCarry DEF Carries
<1>7. CASE FetchOk(c)
  <2>1. UNCHANGED <<l1, l2, call, answer, now, upstream, served>> /\ pc[c] = "fetch"
    BY <1>7 DEF FetchOk
  <2>2. /\ pc'[c] = "store1" /\ hand'[c].ver = upstream[KeyOf(c)]
        /\ \A d \in Callers \ {c} : pc'[d] = pc[d] /\ call'[d] = call[d] /\ hand'[d] = hand[d] /\ answer'[d] = answer[d]
    BY <1>0, <1>7 DEF FetchOk, NoEntry, Goto, TypeOK
  <2>3. CASE KeyOf(c) # k
    BY <1>0, <2>1, <2>2, <2>3, OthersCarry DEF Levels
  <2>4. CASE KeyOf(c) = k
    <3> DEFINE w == upstream[k]
    <3>1. w \in Versions /\ w \in Nat /\ served[k] <= w
      BY <1>0, VersionTypes DEF Levels, TypeOK
    <3>2. ~Live(l1[k]) /\ ~(AllowL2(k) /\ Live(l2[k]))
      BY <2>1, <2>4 DEF WholeInv, WarmInv, ColdInv, PastCheck
    <3>3. \A d \in Callers \ {c} : KeyOf(d) = k =>
            pc[d] \notin {"refill", "chkRefill", "store1", "store2", "finish"}
      BY <2>1, <2>4, <3>2 DEF WholeInv, LeaderHoldsFlight, WarmInv, LifetimeInv
    <3>4. \A d \in Callers : call'[d].key = k =>
            /\ pc'[d] \in {"refill", "chkRefill", "store1", "store2"} => hand'[d].ver = w
            /\ pc'[d] \notin {"store2", "finish"}
      BY <2>1, <2>2, <2>4, <3>3
    <3>5. /\ served'[k] <= w /\ w <= upstream'[k]
          /\ ~(now' < l1'[k].exp) /\ ~(AllowL2(k) /\ now' < l2'[k].exp)
      BY <2>1, <3>1, <3>2
    <3> HIDE DEF w
    <3>6. \A u : u = w => Current(k, u)'
      BY <3>4, <3>5 DEF Current, Levels, Carries
    <3> QED BY <3>1, <3>6
  <2> QED BY <2>3, <2>4
<1>8. CASE FetchFail(c)
  <2>1. Levels(k, v)'
    BY <1>0, <1>8 DEF FetchFail, Levels
  <2>2. /\ pc'[c] \in {"finish", "fallback"} /\ answer'[c].err # "none"
        /\ \A d \in Callers \ {c} : pc'[d] = pc[d] /\ call'[d] = call[d] /\ hand'[d] = hand[d] /\ answer'[d] = answer[d]
    BY <1>0, <1>8 DEF FetchFail, Fail, NoAnswer, Goto, TypeOK
  <2> QED BY <1>0, <2>1, <2>2, OthersCarry DEF Carries
<1>9. CASE Fallback(c)
  <2>1. Levels(k, v)'
    BY <1>0, <1>9 DEF Fallback, Levels
  <2>2. /\ pc'[c] = "finish" /\ answer'[c].err # "none"
        /\ \A d \in Callers \ {c} : pc'[d] = pc[d] /\ call'[d] = call[d] /\ hand'[d] = hand[d] /\ answer'[d] = answer[d]
    BY <1>0, <1>9 DEF Fallback, Hit, Goto, TypeOK, WholeInv, LifetimeInv
  <2> QED BY <1>0, <2>1, <2>2, OthersCarry DEF Carries
<1>10. CASE StoreL1(c)
  <2>1. /\ l1' = [l1 EXCEPT ![KeyOf(c)] = Stored(c)] /\ Stored(c).ver = hand[c].ver /\ pc[c] = "store1"
        /\ UNCHANGED <<l2, call, now, upstream, served, hand>>
        /\ pc'[c] \in {"store2", "finish"} /\ answer'[c].ver = hand[c].ver
        /\ \A d \in Callers \ {c} : pc'[d] = pc[d] /\ answer'[d] = answer[d]
    BY <1>0, <1>10, StoreL1Moves DEF StoreL1, Stored
  <2>2. l1'[k] = l1[k] \/ (KeyOf(c) = k /\ l1'[k] = Stored(c))
    BY <1>0, <2>1 DEF TypeOK
  <2>3. Levels(k, v)'
    BY <1>0, <2>1, <2>2 DEF Levels, Carries
  <2> QED BY <1>0, <2>1, <2>3, OthersCarry DEF Carries
<1>11. CASE StoreL2(c)
  <2>1. /\ Stored(c).ver = hand[c].ver /\ pc[c] = "store2"
        /\ UNCHANGED <<l1, call, now, upstream, served, hand, answer>>
    BY <1>11 DEF StoreL2, Stored
  <2>2. l2'[k] = l2[k] \/ (KeyOf(c) = k /\ l2'[k] = Stored(c))
    BY <1>0, <1>11 DEF StoreL2, TypeOK
  <2>3. Levels(k, v)'
    BY <1>0, <2>1, <2>2 DEF Levels, Carries
  <2>4. /\ pc'[c] = "finish"
        /\ \A d \in Callers \ {c} : pc'[d] = pc[d]
    BY <1>0, <1>11 DEF StoreL2, Goto, TypeOK
  <2> QED BY <1>0, <2>1, <2>3, <2>4, OthersCarry DEF Carries
<1>12. CASE Finish(c)
  <2>1. UNCHANGED <<l1, l2, call, now, upstream>> /\ pc[c] = "finish"
    BY <1>12 DEF Finish
  <2>2. \A d \in Callers : pc'[d] = "done" \/ (pc'[d] = pc[d] /\ answer'[d] = answer[d] /\ hand'[d] = hand[d])
    BY <1>0, <1>12 DEF Finish, TypeOK
  <2>3. served'[k] <= v
    <3>1. CASE answer[c].err = "none"
      <4>1. answer[c].ver \in Nat /\ (KeyOf(c) = k => answer[c].ver = v)
        BY <1>0, <2>1, <3>1, KeyType, CacheAssumption DEF Carries, Answer, Versions
      <4> QED BY <1>0, <1>12, <3>1, <4>1, TellCurrent DEF Finish, Levels
    <3>2. CASE answer[c].err # "none"
      BY <1>0, <1>12, <3>2 DEF Finish, Levels
    <3> QED BY <3>1, <3>2
  <2>4. Levels(k, v)'
    BY <1>0, <2>1, <2>3 DEF Levels
  <2> QED BY <2>1, <2>2, <2>4 DEF Current, Carries
<1> QED
  BY <1>1, <1>2, <1>3, <1>4, <1>5, <1>6, <1>7, <1>8, <1>9, <1>10, <1>11, <1>12 DEF Step, LeaderStep
LEMMA NextVersions ==
  ASSUME "all" \notin CronPatterns
  PROVE  WholeInv /\ OneVersion /\ [Next]_vars => OneVersion'
<1> SUFFICES ASSUME WholeInv, OneVersion, [Next]_vars, NEW k \in Keys
             PROVE  \E w \in Versions : Current(k, w)'
  BY DEF OneVersion, Current, Levels, Carries, Live, AllowL2
<1>0. PICK v \in Versions : Current(k, v)
  BY DEF OneVersion
<1>1. TypeOK /\ v \in Nat /\ Levels(k, v)
  BY <1>0, CacheAssumption DEF WholeInv, Versions, Current
<1>2. CASE UNCHANGED vars
  <2>1. Current(k, v)'
    BY <1>0, <1>2 DEF Current, Levels, Carries, Live
  <2> QED BY <2>1
<1>3. CASE Environment
  BY <1>0, <1>1, <1>3, EnvironmentVersions
<1>4. ASSUME NEW c \in Callers, NEW j \in Keys, NEW t \in Ttls, NEW m \in Modes, Begin(c, j, t, m)
      PROVE  Current(k, v)'
  <2>1. /\ UNCHANGED <<l1, l2, now, upstream, hand>> /\ pc'[c] \in {"done", "l2"}
        /\ \A d \in Callers \ {c} : pc'[d] = pc[d] /\ call'[d] = call[d] /\ hand'[d] = hand[d] /\ answer'[d] = answer[d]
    BY <1>1, <1>4 DEF Begin, Goto, TypeOK
  <2>2. served'[k] <= v
    <3>1. CASE Live(l1[j])
      <4>1. l1[j].ver \in Nat /\ (j = k => l1[j].ver = v)
        BY <1>1, <3>1, VersionTypes DEF Levels
      <4> QED BY <1>1, <1>4, <3>1, <4>1, TellCurrent DEF Begin, Levels
    <3>2. CASE ~Live(l1[j])
      BY <1>1, <1>4, <3>2 DEF Begin, Levels
    <3> QED BY <3>1, <3>2
  <2>3. Levels(k, v)'
    BY <1>1, <2>1, <2>2 DEF Levels, Live
  <2> QED BY <1>0, <1>1, <2>1, <2>3, OthersCarry DEF Carries
<1>5. ASSUME NEW c \in Callers, Return(c)
      PROVE  Current(k, v)'
  <2>1. /\ UNCHANGED <<l1, l2, now, upstream, served>> /\ pc'[c] = "idle"
        /\ \A d \in Callers \ {c} : pc'[d] = pc[d] /\ call'[d] = call[d] /\ hand'[d] = hand[d] /\ answer'[d] = answer[d]
    BY <1>1, <1>5 DEF Return, Goto, TypeOK
  <2>2. Levels(k, v)'
    BY <1>1, <2>1 DEF Levels, Live
  <2> QED BY <1>0, <1>1, <2>1, <2>2, OthersCarry DEF Carries
<1>6. CASE Next
  BY <1>0, <1>3, <1>4, <1>5, <1>6, StepVersions DEF Next
<1> QED BY <1>2, <1>6

(* No step makes what was given out older.                                 *)
LEMMA ServedGrows ==
  ASSUME TypeOK, [Next]_vars
  PROVE  \A k \in Keys : served[k] <= served'[k]
<1>0. \A k \in Keys : served[k] \in Nat
  BY VersionTypes
<1>1. ASSUME NEW j \in Keys, NEW w \in Nat, NoteServed(j, w), NEW k \in Keys
      PROVE  served[k] <= served'[k]
  BY <1>0, <1>1 DEF NoteServed, Larger, TypeOK
<1>2. CASE UNCHANGED served
  BY <1>0, <1>2
<1>3. ASSUME NEW c \in Callers, NEW k \in Keys, NEW t \in Ttls, NEW m \in Modes, Begin(c, k, t, m)
      PROVE  UNCHANGED served \/ NoteServed(k, l1[k].ver)
  BY <1>3 DEF Begin
<1>4. ASSUME NEW c \in Callers, Refill(c)
      PROVE  NoteServed(KeyOf(c), hand[c].ver)
  BY <1>4 DEF Refill
<1>5. ASSUME NEW c \in Callers, Finish(c)
      PROVE  UNCHANGED served \/ NoteServed(KeyOf(c), answer[c].ver)
  BY <1>5 DEF Finish
<1>6. ASSUME NEW c \in Callers, Step(c), ~Refill(c), ~Finish(c)
      PROVE  UNCHANGED served
  BY <1>6 DEF Step, LeaderStep, ReadL2, Join, CheckL1, CheckL2, CheckRefill, FetchOk, FetchFail,
              Fallback, StoreL1, StoreL2
<1>7. ASSUME Environment PROVE UNCHANGED served
  BY <1>7 DEF Environment, Tick, Publish, Evict, Cancel, Restart, CronRefresh
<1>8. ASSUME NEW c \in Callers, Return(c) PROVE UNCHANGED served
  BY <1>8 DEF Return
<1>9. ASSUME NEW c \in Callers
      PROVE  hand[c].ver \in Nat /\ answer[c].ver \in Nat /\ KeyOf(c) \in Keys
  BY CacheAssumption, KeyType DEF Entry, Answer, Versions
<1>10. CASE Next
  BY <1>1, <1>2, <1>3, <1>4, <1>5, <1>6, <1>7, <1>8, <1>9, <1>10, VersionTypes DEF Next
<1> QED BY <1>2, <1>10

(* A reply without an error is the current version of its key.             *)
LEMMA NextNeverOlder ==
  WholeInv /\ OneVersion /\ ToldBefore /\ NeverOlder /\ [Next]_vars => ToldBefore' /\ NeverOlder'
<1> DEFINE Goal(d) ==
      /\ call'[d].servedBefore <= served'[call'[d].key]
      /\ pc'[d] = "done" /\ answer'[d].err = "none" => answer'[d].ver >= call'[d].servedBefore
<1> SUFFICES ASSUME WholeInv, OneVersion, ToldBefore, NeverOlder, [Next]_vars, NEW d \in Callers
             PROVE  Goal(d)
  BY DEF ToldBefore, NeverOlder
<1>0. /\ TypeOK /\ KeyOf(d) \in Keys /\ call[d].servedBefore \in Nat /\ answer[d].ver \in Nat
      /\ \A k \in Keys : served[k] \in Nat /\ served[k] <= served'[k] /\ served'[k] \in Nat
  <2>1. TypeOK /\ TypeOK'
    BY NextTypeOK DEF WholeInv
  <2>2. \A k \in Keys : served[k] \in Nat /\ served'[k] \in Nat
    BY <2>1, CacheAssumption DEF TypeOK, Versions
  <2>3. KeyOf(d) \in Keys /\ call[d].servedBefore \in Nat /\ answer[d].ver \in Nat
    BY <2>1, CacheAssumption, KeyType DEF Call, Answer, Versions
  <2> QED BY <2>1, <2>2, <2>3, ServedGrows
<1>1. call[d].servedBefore <= served[KeyOf(d)]
      /\ (pc[d] = "done" /\ answer[d].err = "none" => answer[d].ver >= call[d].servedBefore)
  BY DEF ToldBefore, NeverOlder
<1>2. CASE call'[d] = call[d] /\ pc'[d] = pc[d] /\ answer'[d] = answer[d]
  BY <1>0, <1>1, <1>2
<1>3. CASE call'[d] = call[d] /\ pc'[d] # "done"
  BY <1>0, <1>1, <1>3
<1>4. CASE call'[d] = call[d] /\ answer'[d].err # "none"
  BY <1>0, <1>1, <1>4
<1>5. CASE call'[d] = NoCall /\ pc'[d] # "done"
  <2>1. NoCall.servedBefore = 0 /\ NoCall.key \in Keys
    BY NoCallType DEF NoCall, Call
  <2> QED BY <1>0, <1>5, <2>1
<1> HIDE DEF Goal
<1>6. CASE UNCHANGED vars
  BY <1>2, <1>6
<1>7. CASE Environment
  BY <1>0, <1>2, <1>5, <1>7 DEF Environment, Tick, Publish, Evict, Cancel, Restart, CronRefresh
<1>8. ASSUME NEW c \in Callers, Return(c)
      PROVE  Goal(d)
  BY <1>0, <1>2, <1>5, <1>8 DEF Return, Goto, TypeOK
<1>9. ASSUME NEW c \in Callers, NEW k \in Keys, NEW t \in Ttls, NEW m \in Modes, Begin(c, k, t, m)
      PROVE  Goal(d)
  <2>1. CASE d # c
    BY <1>0, <1>2, <1>9, <2>1 DEF Begin, Goto, TypeOK
  <2>2. CASE d = c
    <3>1. call'[d].key = k /\ call'[d].servedBefore = served[k]
      BY <1>0, <1>9, <2>2 DEF Begin, TypeOK
    <3>2. CASE ~Live(l1[k])
      <4>1. pc'[d] = "l2"
        BY <1>0, <1>9, <2>2, <3>2 DEF Begin, Goto, TypeOK
      <4> QED BY <1>0, <3>1, <4>1 DEF Goal
    <3>3. CASE Live(l1[k])
      <4>1. answer'[d].ver = l1[k].ver
        BY <1>0, <1>9, <2>2, <3>3 DEF Begin, TypeOK
      <4>2. PICK v \in Versions : Current(k, v)
        BY DEF OneVersion
      <4>3. l1[k].ver = v /\ served[k] <= v /\ v \in Nat
        BY <3>3, <4>2, CacheAssumption DEF Current, Levels, Versions
      <4> QED BY <1>0, <3>1, <4>1, <4>3 DEF Goal
    <3> QED BY <3>2, <3>3
  <2> QED BY <2>1, <2>2
<1>10. ASSUME NEW c \in Callers, Refill(c)
       PROVE  Goal(d)
  <2>1. CASE d # c
    BY <1>0, <1>2, <1>10, <2>1 DEF Refill, Hit, Goto, TypeOK
  <2>2. CASE d = c
    <3>1. call' = call /\ answer'[d].ver = hand[d].ver /\ pc[d] = "refill"
      BY <1>0, <1>10, <2>2 DEF Refill, Hit, Goto, TypeOK
    <3>2. PICK v \in Versions : Current(KeyOf(d), v)
      BY <1>0 DEF OneVersion
    <3>3. hand[d].ver = v /\ served[KeyOf(d)] <= v /\ v \in Nat
      BY <3>1, <3>2, CacheAssumption DEF Current, Carries, Levels, Versions
    <3> QED BY <1>0, <1>1, <3>1, <3>3 DEF Goal
  <2> QED BY <2>1, <2>2
<1>11. ASSUME NEW c \in Callers, Finish(c)
       PROVE  Goal(d)
  <2>1. CASE d \notin {c} \cup Waiters(KeyOf(c))
    BY <1>0, <1>2, <1>11, <2>1 DEF Finish, TypeOK
  <2>2. CASE d \in {c} \cup Waiters(KeyOf(c))
    <3>1. call' = call /\ answer'[d] = answer[c] /\ pc[c] = "finish"
      BY <1>11, <2>2 DEF Finish
    <3>2. KeyOf(d) = KeyOf(c)
      BY <2>2 DEF Waiters
    <3>3. PICK v \in Versions : Current(KeyOf(d), v)
      BY <1>0 DEF OneVersion
    <3>4. CASE answer[c].err = "none"
      <4>1. answer[c].ver = v /\ served[KeyOf(d)] <= v /\ v \in Nat
        BY <3>1, <3>2, <3>3, <3>4, CacheAssumption DEF Current, Carries, Levels, Versions
      <4> QED BY <1>0, <1>1, <3>1, <4>1 DEF Goal
    <3>5. CASE answer[c].err # "none"
      BY <1>4, <3>1, <3>5
    <3> QED BY <3>4, <3>5
  <2> QED BY <2>1, <2>2
<1>12. ASSUME NEW c \in Callers, ReadL2(c)
       PROVE  Goal(d)
  BY <1>0, <1>2, <1>3, <1>4, <1>12 DEF ReadL2, PassL2, Fail, NoAnswer, Goto, TypeOK
<1>13. ASSUME NEW c \in Callers, Step(c), ~ReadL2(c), ~Refill(c), ~Finish(c)
       PROVE  Goal(d)
  BY <1>0, <1>2, <1>3, <1>13 DEF Step, LeaderStep, Join, CheckL1, CheckL2, CheckRefill, FetchOk, FetchFail,
         Fallback, StoreL1, StoreL2, Fail, Hit, Goto, TypeOK
<1>14. CASE Next
  BY <1>7, <1>8, <1>9, <1>10, <1>11, <1>12, <1>13, <1>14 DEF Next
<1> QED BY <1>6, <1>14

(* At any moment one version of a key can still be given out as fresh.      *)
THEOREM VersionsUnderInstantRefill ==
  ASSUME InstantRefill, "all" \notin CronPatterns
  PROVE  Spec => [](WholeInv /\ OneVersion /\ ToldBefore /\ NeverOlder)
<1>1. Init => WholeInv /\ OneVersion /\ ToldBefore /\ NeverOlder
  BY InitTypeOK, InitLeader, InitLifetime, InitCold, InitWarm, InitVersions DEF WholeInv
<1>2. WholeInv /\ [Next]_vars => WholeInv'
  BY NextTypeOK, NextLeader, NextLifetime, NextCold, NextWarm DEF WholeInv
<1>3. (WholeInv /\ OneVersion /\ ToldBefore /\ NeverOlder) /\ [Next]_vars
        => (WholeInv /\ OneVersion /\ ToldBefore /\ NeverOlder)'
  BY <1>2, NextVersions, NextNeverOlder
<1> QED BY <1>1, <1>3, PTL DEF Spec

(* A key never goes back in time: what a call is given as fresh is at       *)
(* least as new as all that was given out before the call began, whatever   *)
(* evictions, restarts, flights and refills came between (GetOrFetch, Get), *)
(* as long as a refill takes less than the clock's resolution and no script *)
(* empties L2.                                                              *)
THEOREM NeverBackInTime ==
  ASSUME InstantRefill, "all" \notin CronPatterns
  PROVE  Spec => []NeverOlder
BY VersionsUnderInstantRefill, PTL

-----------------------------------------------------------------------------
(* The contract: every step of ReadThroughCache is a step of CacheContract *)
(* or invisible to it, for every number of callers and keys, when a refill *)
(* takes less than the clock's resolution and no script empties L2.        *)

(* A version the source has published.                                     *)
Known(r, k) == r.ver \in 1..upstream[k]

(* Everything the levels hold and everything a call is told was published, *)
(* and a failed call is told nothing.                                      *)
Told(c) ==
  /\ answer[c].err = "none" => answer[c].src # "nowhere"
  /\ answer[c].err \in {"none", "stale"} => Known(answer[c], KeyOf(c))
  /\ answer[c].err \notin {"none", "stale"} => answer[c].ver = 0

PublishedKey(k) ==
  /\ upstream[k] >= 1
  /\ l1[k] = NoEntry \/ Known(l1[k], k)
  /\ l2[k] = NoEntry \/ Known(l2[k], k)
PublishedCall(c) ==
  /\ pc[c] \in {"refill", "chkRefill", "store1", "store2"} => Known(hand[c], KeyOf(c))
  /\ pc[c] \in {"store2", "finish", "done"} => Told(c)
  /\ pc[c] = "fallback" => answer[c].err \in {"upstream", "cancelled"} /\ answer[c].ver = 0
Published == (\A k \in Keys : PublishedKey(k)) /\ (\A c \in Callers : PublishedCall(c))

LEMMA InitPublished ==
  ASSUME MaxVer # 0
  PROVE  Init => Published
BY CacheAssumption DEF Init, Published, PublishedKey, PublishedCall

(* What is published stays published.                                      *)
LEMMA UpstreamGrows ==
  ASSUME TypeOK, [Next]_vars
  PROVE  /\ \A k \in Keys : upstream[k] \in Nat /\ upstream'[k] \in Nat /\ upstream[k] <= upstream'[k]
         /\ \A k \in Keys : \A r : Known(r, k) => Known(r, k)'
<1>1. TypeOK'
  BY NextTypeOK
<1>2. \A k \in Keys : upstream[k] \in Nat /\ upstream'[k] \in Nat
  BY <1>1, CacheAssumption DEF TypeOK, Versions
<1>3. upstream' = upstream \/ \E j \in Keys : upstream' = [upstream EXCEPT ![j] = @ + 1]
  <2>1. CASE Environment
    BY <2>1 DEF Environment, Tick, Publish, Evict, Cancel, Restart, CronRefresh
  <2>2. ASSUME NEW c \in Callers, NEW k \in Keys, NEW t \in Ttls, NEW m \in Modes, Begin(c, k, t, m)
        PROVE  upstream' = upstream
    BY <2>2 DEF Begin
  <2>3. ASSUME NEW c \in Callers, Step(c) \/ Return(c)
        PROVE  upstream' = upstream
    BY <2>3 DEF Return, Step, LeaderStep, ReadL2, Refill, Join, CheckL1, CheckL2, CheckRefill, FetchOk,
                FetchFail, Fallback, StoreL1, StoreL2, Finish
  <2>4. CASE UNCHANGED vars
    BY <2>4
  <2> QED BY <2>1, <2>2, <2>3, <2>4 DEF Next
<1>4. \A k \in Keys : upstream[k] <= upstream'[k]
  BY <1>2, <1>3 DEF TypeOK
<1> QED BY <1>2, <1>4 DEF Known
(* What the levels get is the version some caller carries for the key.     *)
LEMMA LevelWrites ==
  ASSUME TypeOK, [Next]_vars, NEW k \in Keys
  PROVE  /\ l1'[k] \in {l1[k], NoEntry} \/
              \E c \in Callers : /\ KeyOf(c) = k /\ l1'[k].ver = hand[c].ver
                               /\ pc[c] \in {"refill", "chkRefill", "store1", "store2"}
         /\ l2'[k] \in {l2[k], NoEntry} \/
              \E c \in Callers : /\ KeyOf(c) = k /\ l2'[k].ver = hand[c].ver
                               /\ pc[c] \in {"refill", "chkRefill", "store1", "store2"}
<1> DEFINE Written(e, f) ==
      f \in {e, NoEntry} \/
        \E c \in Callers : /\ KeyOf(c) = k /\ f.ver = hand[c].ver
                         /\ pc[c] \in {"refill", "chkRefill", "store1", "store2"}
           Goal == Written(l1[k], l1'[k]) /\ Written(l2[k], l2'[k])
<1> SUFFICES Goal
  OBVIOUS
<1>1. CASE UNCHANGED <<l1, l2>>
  BY <1>1
<1>2. CASE Environment
  BY <1>2 DEF Environment, Tick, Publish, Evict, Cancel, Restart, CronRefresh, TypeOK
<1>3. ASSUME NEW c \in Callers, NEW row \in Entry, FillL1(KeyOf(c), row), row = hand[c],
             pc[c] \in {"refill", "chkRefill"}, UNCHANGED l2
      PROVE  Goal
  <2>1. CASE KeyOf(c) = k
    <3>1. l1'[k].ver = hand[c].ver
      BY <1>3, <2>1 DEF FillL1, TypeOK, Entry
    <3> QED BY <1>3, <2>1, <3>1
  <2>2. CASE KeyOf(c) # k
    BY <1>3, <2>2 DEF FillL1, TypeOK
  <2> QED BY <2>1, <2>2
<1>4. ASSUME NEW c \in Callers, StoreL1(c) \/ StoreL2(c)
      PROVE  Goal
  <2>1. Stored(c).ver = hand[c].ver
    BY DEF Stored
  <2> QED BY <1>4, <2>1 DEF StoreL1, StoreL2, TypeOK
<1>5. ASSUME NEW c \in Callers, Refill(c) \/ CheckRefill(c)
      PROVE  Goal
  <2> HIDE DEF Goal
  <2> QED BY <1>3, <1>5, KeyType DEF Refill, CheckRefill
<1>6. ASSUME NEW c \in Callers, NEW j \in Keys, NEW t \in Ttls, NEW m \in Modes, Begin(c, j, t, m)
      PROVE  Goal
  BY <1>1, <1>6 DEF Begin
<1>7. ASSUME NEW c \in Callers, Return(c)
      PROVE  Goal
  BY <1>1, <1>7 DEF Return
<1> HIDE DEF Goal
<1>8. ASSUME NEW c \in Callers, Step(c)
      PROVE  Goal
  BY <1>1, <1>4, <1>5, <1>8 DEF Step, LeaderStep, ReadL2, Join, CheckL1, CheckL2, FetchOk, FetchFail,
                                Fallback, Finish
<1>9. CASE Next
  BY <1>2, <1>6, <1>7, <1>8, <1>9 DEF Next
<1> QED BY <1>1, <1>9

LEMMA NextPublishedKey ==
  ASSUME TypeOK, Published, [Next]_vars, NEW k \in Keys
  PROVE  PublishedKey(k)'
<1>1. \A c \in Callers : KeyOf(c) = k /\ pc[c] \in {"refill", "chkRefill", "store1", "store2"} =>
        hand[c].ver \in 1..upstream'[k]
  BY UpstreamGrows, KeyType DEF Published, PublishedCall, Known
<1>2. upstream'[k] >= 1
  BY UpstreamGrows DEF Published, PublishedKey
<1>3. ASSUME NEW e, NEW f, e = NoEntry \/ Known(e, k),
             \/ f \in {e, NoEntry}
             \/ \E c \in Callers : /\ KeyOf(c) = k /\ f.ver = hand[c].ver
                                  /\ pc[c] \in {"refill", "chkRefill", "store1", "store2"}
      PROVE  f = NoEntry \/ f.ver \in 1..upstream'[k]
  BY <1>1, <1>3, UpstreamGrows DEF Known
<1> QED BY <1>2, <1>3, LevelWrites DEF Published, PublishedKey, Known

(* The answers a step may give are told of what was published.             *)
LEMMA LiveIsKnown ==
  ASSUME TypeOK, Published, NEW k \in Keys, NEW e \in {l1[k], l2[k]}, e # NoEntry \/ Live(e)
  PROVE  Known(e, k) /\ e.ver \in Nat
<1>1. ~Live(NoEntry)
  BY CacheAssumption DEF Live, NoEntry, TypeOK
<1>2. Known(e, k)
  BY <1>1 DEF Published, PublishedKey
<1> QED BY <1>2, VersionTypes DEF Known

LEMMA NextPublishedCall ==
  ASSUME TypeOK, LifetimeInv, ColdInv, Published, [Next]_vars, NEW d \in Callers
  PROVE  PublishedCall(d)'
<1> DEFINE Goal ==
      /\ pc'[d] \in {"refill", "chkRefill", "store1", "store2"} => Known(hand'[d], call'[d].key)
      /\ pc'[d] \in {"store2", "finish", "done"} =>
           /\ answer'[d].err = "none" => answer'[d].src # "nowhere"
           /\ answer'[d].err \in {"none", "stale"} => Known(answer'[d], call'[d].key)
           /\ answer'[d].err \notin {"none", "stale"} => answer'[d].ver = 0
      /\ pc'[d] = "fallback" => answer'[d].err \in {"upstream", "cancelled"} /\ answer'[d].ver = 0
<1> SUFFICES Goal /\ call'[d].key \in Keys
  BY UpstreamGrows DEF PublishedCall, Told, Known
<1>0. KeyOf(d) \in Keys /\ call'[d].key \in Keys /\ PublishedCall(d)
      /\ \A c \in Callers : KeyOf(c) \in Keys
  BY NextTypeOK, KeyType DEF TypeOK, Call, Published
<1> SUFFICES Goal
  BY <1>0
<1>1. CASE pc'[d] \in {"idle", "l2", "join", "wait", "chk1", "chk2", "fetch"}
  BY <1>1
<1>2. CASE call'[d] = call[d] /\ pc'[d] = pc[d] /\ hand'[d] = hand[d] /\ answer'[d] = answer[d]
  BY <1>0, <1>2 DEF PublishedCall, Told
<1> HIDE DEF Goal
<1>3. CASE UNCHANGED vars
  BY <1>2, <1>3
<1>4. CASE Environment
  BY <1>1, <1>2, <1>4 DEF Environment, Tick, Publish, Evict, Cancel, Restart, CronRefresh
<1>5. ASSUME NEW c \in Callers, Return(c)
      PROVE  Goal
  BY <1>1, <1>2, <1>5 DEF Return, Goto, TypeOK
<1>6. ASSUME NEW c \in Callers, NEW k \in Keys, NEW t \in Ttls, NEW m \in Modes, Begin(c, k, t, m)
      PROVE  Goal
  <2>1. CASE d # c
    BY <1>2, <1>6, <2>1 DEF Begin, Goto, TypeOK
  <2>2. CASE d = c /\ ~Live(l1[k])
    BY <1>1, <1>6, <2>2 DEF Begin, Goto, TypeOK
  <2>3. CASE d = c /\ Live(l1[k])
    <3>1. pc'[d] = "done" /\ call'[d].key = k
      BY <1>6, <2>3 DEF Begin, Goto, TypeOK
    <3>2. answer'[d].ver = l1[k].ver /\ answer'[d].err = "none" /\ answer'[d].src = "l1"
      BY <1>6, <2>3 DEF Begin, TypeOK
    <3> QED BY <2>3, <3>1, <3>2, LiveIsKnown DEF Goal, Known
  <2> QED BY <2>1, <2>2, <2>3
<1>7. ASSUME NEW c \in Callers, c # d, Step(c), ~Finish(c)
      PROVE  Goal
  BY <1>2, <1>7 DEF Step, LeaderStep, ReadL2, PassL2, Refill, Join, CheckL1, CheckL2, CheckRefill, FetchOk,
                    FetchFail, Fallback, StoreL1, StoreL2, Fail, Hit, Goto, TypeOK
<1>8. ASSUME NEW c \in Callers, Finish(c)
      PROVE  Goal
  <2>1. CASE d \notin {c} \cup Waiters(KeyOf(c))
    BY <1>2, <1>8, <2>1 DEF Finish, TypeOK
  <2>2. CASE d \in {c} \cup Waiters(KeyOf(c))
    <3>1. answer'[d] = answer[c] /\ pc'[d] = "done" /\ call'[d].key = KeyOf(c) /\ pc[c] = "finish"
      BY <1>8, <2>2 DEF Finish, Waiters
    <3>2. Told(c)
      BY <3>1 DEF Published, PublishedCall
    <3> QED BY <3>1, <3>2 DEF Goal, Told
  <2> QED BY <2>1, <2>2
<1>9. CASE ReadL2(d)
  <2>1. \/ pc'[d] = "refill" /\ hand'[d] = l2[KeyOf(d)] /\ Live(l2[KeyOf(d)])
        \/ pc'[d] = "done" /\ answer'[d].err \in {"miss", "l2"} /\ answer'[d].ver = 0
        \/ pc'[d] = "join"
    BY <1>9 DEF ReadL2, PassL2, Fail, NoAnswer, Goto, TypeOK
  <2>2. call'[d] = call[d]
    BY <1>9 DEF ReadL2
  <2> QED BY <1>0, <2>1, <2>2, LiveIsKnown DEF Goal
<1>10. CASE Refill(d) \/ CheckRefill(d)
  <2>1. /\ pc[d] \in {"refill", "chkRefill"} /\ pc'[d] \in {"done", "finish"} /\ call' = call
        /\ answer'[d].ver = hand[d].ver /\ answer'[d].err = "none" /\ answer'[d].src = "l2"
    BY <1>10 DEF Refill, CheckRefill, Hit, Goto, TypeOK
  <2> QED BY <1>0, <2>1 DEF Goal, PublishedCall, Known
<1>11. CASE Join(d)
  BY <1>1, <1>11 DEF Join, Goto, TypeOK
<1>12. CASE CheckL1(d)
  <2>1. CASE ~Live(l1[KeyOf(d)])
    BY <1>1, <1>12, <2>1 DEF CheckL1, Goto, TypeOK
  <2>2. CASE Live(l1[KeyOf(d)])
    <3>1. /\ pc'[d] = "finish" /\ call' = call
          /\ answer'[d].ver = l1[KeyOf(d)].ver /\ answer'[d].err = "none" /\ answer'[d].src = "l1"
      BY <1>12, <2>2 DEF CheckL1, Hit, Goto, TypeOK
    <3> QED BY <1>0, <2>2, <3>1, LiveIsKnown DEF Goal, Known
  <2> QED BY <2>1, <2>2
<1>13. CASE CheckL2(d)
  <2>1. \/ pc'[d] = "chkRefill" /\ hand'[d] = l2[KeyOf(d)] /\ Live(l2[KeyOf(d)])
        \/ pc'[d] = "finish" /\ answer'[d].err = "l2" /\ answer'[d].ver = 0
        \/ pc'[d] = "fetch"
    BY <1>13 DEF CheckL2, Fail, NoAnswer, Goto, TypeOK
  <2>2. call'[d] = call[d]
    BY <1>13 DEF CheckL2
  <2> QED BY <1>0, <2>1, <2>2, LiveIsKnown DEF Goal
<1>14. CASE FetchOk(d)
  <2>1. pc'[d] = "store1" /\ hand'[d].ver = upstream[KeyOf(d)] /\ call' = call
    BY <1>14 DEF FetchOk, NoEntry, Goto, TypeOK
  <2>2. upstream[KeyOf(d)] \in 1..upstream[KeyOf(d)]
    BY <1>0, UpstreamGrows DEF Published, PublishedKey
  <2> QED BY <2>1, <2>2 DEF Goal, Known
<1>15. CASE FetchFail(d)
  <2>1. /\ pc'[d] \in {"finish", "fallback"}
        /\ answer'[d].err \in {"upstream", "cancelled"} /\ answer'[d].ver = 0
    BY <1>15 DEF FetchFail, Fail, NoAnswer, Goto, TypeOK
  <2> QED BY <2>1 DEF Goal
<1>16. CASE Fallback(d)
  <2>1. pc[d] = "fallback" /\ pc'[d] = "finish" /\ call' = call
    BY <1>16 DEF Fallback, Goto, TypeOK
  <2>2. \/ answer'[d] = answer[d]
        \/ answer'[d].err = "stale" /\ answer'[d].ver = l2[KeyOf(d)].ver /\ l2[KeyOf(d)] # NoEntry
    BY <1>16 DEF Fallback, Hit, TypeOK
  <2> QED BY <1>0, <2>1, <2>2, LiveIsKnown DEF Goal, PublishedCall, Known
<1>17. CASE StoreL1(d)
  <2>1. /\ pc[d] = "store1" /\ pc'[d] \in {"store2", "finish"} /\ UNCHANGED <<call, hand>>
        /\ answer'[d].ver = hand[d].ver /\ answer'[d].err = "none" /\ answer'[d].src = "fetch"
    BY <1>17, StoreL1Moves DEF StoreL1
  <2> QED BY <1>0, <2>1 DEF Goal, PublishedCall, Known
<1>18. CASE StoreL2(d)
  <2>1. pc[d] = "store2" /\ pc'[d] = "finish" /\ UNCHANGED <<call, hand, answer>>
    BY <1>18 DEF StoreL2, Goto, TypeOK
  <2> QED BY <1>0, <2>1 DEF Goal, PublishedCall, Told
<1>19. ASSUME NEW c \in Callers, Step(c)
       PROVE  Goal
  BY <1>7, <1>8, <1>9, <1>10, <1>11, <1>12, <1>13, <1>14, <1>15, <1>16, <1>17, <1>18, <1>19
     DEF Step, LeaderStep
<1>20. CASE Next
  BY <1>4, <1>5, <1>6, <1>19, <1>20 DEF Next
<1> QED BY <1>3, <1>20

(* The state in which every step is a step of the contract: the invariants  *)
(* of the levels, of the versions and of what was published.               *)
ContractInv == WholeInv /\ OneVersion /\ ToldBefore /\ NeverOlder /\ Published

(* It holds always, when the source publishes something at all.            *)
THEOREM ContractInvariant ==
  ASSUME InstantRefill, "all" \notin CronPatterns, MaxVer # 0
  PROVE  Spec => []ContractInv
<1>1. Init => Published
  BY InitPublished
<1>2. WholeInv /\ Published /\ [Next]_vars => Published'
  BY NextPublishedKey, NextPublishedCall DEF Published, WholeInv
<1>3. Spec => []WholeInv
  BY WarmUnderInstantRefill
<1>4. Spec => [](WholeInv /\ OneVersion /\ ToldBefore /\ NeverOlder)
  BY VersionsUnderInstantRefill
<1>5. Spec => []Published
  BY <1>1, <1>2, <1>3, PTL DEF Spec
<1> QED BY <1>4, <1>5, PTL DEF ContractInv

-----------------------------------------------------------------------------
(* What the contract sees of the cache.                                    *)
Fetching == {k \in Keys : \E c \in Callers : pc[c] = "fetch" /\ KeyOf(c) = k}
StateOf(c) == IF pc[c] = "idle" THEN "free" ELSE IF pc[c] = "done" THEN "closed" ELSE "open"
AskedBy(c) == [key |-> KeyOf(c), toldBefore |-> call[c].servedBefore]
SeenBy(c) == ReplyOf(IF pc[c] = "done" THEN answer[c] ELSE NoAnswer)
State == [c \in Callers |-> StateOf(c)]
Ask == [c \in Callers |-> AskedBy(c)]
Seen == [c \in Callers |-> SeenBy(c)]

LEMMA ContractInit == Init => Contract!Init
<1> SUFFICES ASSUME Init PROVE Contract!Init
  OBVIOUS
<1>1. now = 0 /\ upstream \in [Keys -> Nat]
  BY CacheAssumption DEF Init
<1>2. Fetching = {} /\ served = [k \in Keys |-> 0] /\ State = [c \in Callers |-> "free"]
  BY DEF Init, Fetching, State, StateOf
<1>3. Ask \in [Callers -> [key : Keys, toldBefore : {0}]]
  <2>1. NoCall.key \in Keys /\ NoCall.servedBefore = 0
    BY NoCallType DEF NoCall, Call
  <2>2. \A c \in Callers : call[c] = NoCall
    BY DEF Init
  <2> QED BY <2>1, <2>2 DEF Ask, AskedBy
<1>4. Seen \in [Callers -> {[kind |-> "nothing", ver |-> 0, overdue |-> FALSE]}]
  BY DEF Init, Seen, SeenBy, ReplyOf, NoAnswer
<1> QED
  BY <1>1, <1>2, <1>3, <1>4
  DEF Contract!Init, Fetching, State, StateOf, Ask, AskedBy, Seen, SeenBy

(* A step the contract does not see.                                       *)
LEMMA Unseen ==
  ASSUME UNCHANGED <<now, upstream, served, Fetching, State, Ask, Seen>>
  PROVE  UNCHANGED Contract!vars
BY DEF Contract!vars, Fetching, State, StateOf, Ask, AskedBy, Seen, SeenBy

(* What the contract asks of a reply r that closes the calls C on key k.   *)
Fits(r, C, k) ==
  /\ r.kind \in {"fresh", "stale", "nothing"}
  /\ r.kind = "fresh" => /\ ~r.overdue /\ r.ver \in 1..upstream[k]
                        /\ \A c \in C : r.ver >= call'[c].servedBefore
  /\ r.kind = "stale" => r.ver \in 1..upstream[k]
  /\ r.kind = "nothing" => r.ver = 0
Closed(r, C, k) ==
  /\ Fits(r, C, k)
  /\ State' = [c \in Callers |-> IF c \in C THEN "closed" ELSE State[c]]
  /\ Seen' = [c \in Callers |-> IF c \in C THEN r ELSE Seen[c]]
  /\ served' = IF r.kind = "fresh" THEN [served EXCEPT ![k] = Larger(@, r.ver)] ELSE served

LEMMA Tells ==
  ASSUME NEW r, NEW C \in SUBSET Callers, NEW k \in Keys, Closed(r, C, k), NEW c \in C
  PROVE  Seen'[c] = r /\ Contract!Tell(Seen'[c], C, k)
<1>1. Seen'[c] = r
  BY DEF Closed
<1>2. Contract!Admissible(Seen'[c], C, k)
  BY <1>1 DEF Contract!Admissible, Closed, Fits
<1>3. served' = IF r.kind = "fresh" THEN [served EXCEPT ![k] = Contract!Max2(@, r.ver)] ELSE served
  BY DEF Closed, Contract!Max2, Larger
<1>4. /\ State' = [d \in Callers |-> IF d \in C THEN "closed" ELSE State[d]]
      /\ Seen' = [d \in Callers |-> IF d \in C THEN r ELSE Seen[d]]
  BY DEF Closed
<1> QED
  BY <1>1, <1>2, <1>3, <1>4 DEF Contract!Tell, State, StateOf, Seen, SeenBy

LEMMA ContractClose ==
  ASSUME NEW r, NEW C \in SUBSET Callers, NEW k \in Keys, C # {}, Closed(r, C, k),
         \A c \in C : StateOf(c) = "open" /\ KeyOf(c) = k,
         UNCHANGED <<now, upstream, Fetching, Ask>>
  PROVE  Contract!Next
<1>1. \A c \in C : Contract!Tell(Seen'[c], C, k)
  BY Tells
<1>2. \E c \in C : Contract!Tell(Seen'[c], C, k)
  BY <1>1
<1>3. \A d \in C : State[d] = "open" /\ Ask[d].key = k
  BY DEF State, Ask, AskedBy
<1>4. Contract!Close(C, k)
  BY <1>2, <1>3
  DEF Contract!Close, Fetching, State, StateOf, Ask, AskedBy, Seen, SeenBy
<1> QED BY <1>4 DEF Contract!Next

LEMMA ContractAsk ==
  ASSUME NEW c \in Callers, NEW k \in Keys, StateOf(c) = "free",
         Ask' = [Ask EXCEPT ![c] = [key |-> k, toldBefore |-> served[k]]],
         \/ State' = [State EXCEPT ![c] = "open"] /\ UNCHANGED <<served, Seen>>
         \/ \E r : r.kind = "fresh" /\ Closed(r, {c}, k),
         UNCHANGED <<now, upstream, Fetching>>
  PROVE  Contract!Next
<1>1. State[c] = "free"
  BY DEF State
<1>2. Ask' = [Ask EXCEPT ![c] = Contract!AskOf(k)]
  BY DEF Contract!AskOf
<1>3. \/ State' = [State EXCEPT ![c] = "open"] /\ UNCHANGED <<served, Seen>>
      \/ Seen'[c].kind = "fresh" /\ Contract!Tell(Seen'[c], {c}, k)
  BY Tells
<1>4. Contract!Ask(c, k)
  BY <1>1, <1>2, <1>3
  DEF Contract!Ask, Fetching, State, StateOf, Ask, AskedBy, Seen, SeenBy
<1> QED BY <1>4 DEF Contract!Next

LEMMA ContractRequest ==
  ASSUME NEW k \in Keys, UNCHANGED <<now, upstream, served, State, Ask, Seen>>,
         \/ /\ k \notin Fetching /\ Fetching' = Fetching \cup {k}
            /\ \E c \in Callers : StateOf(c) = "open" /\ KeyOf(c) = k
         \/ k \in Fetching /\ Fetching' = Fetching \ {k}
  PROVE  Contract!Next
<1>1. ASSUME NEW c \in Callers, StateOf(c) = "open", KeyOf(c) = k
      PROVE  State[c] = "open" /\ Ask[c].key = k
  BY <1>1 DEF State, Ask, AskedBy
<1>2. Contract!SendRequest(k) \/ Contract!EndRequest(k)
  BY <1>1
  DEF Contract!SendRequest, Contract!EndRequest, Fetching, State, StateOf, Ask, AskedBy, Seen, SeenBy
<1> QED BY <1>2 DEF Contract!Next

LEMMA ContractLeave ==
  ASSUME NEW c \in Callers, StateOf(c) = "closed", State' = [State EXCEPT ![c] = "free"],
         Ask' \in [Callers -> [key : Keys, toldBefore : Nat]], Seen' \in [Callers -> Contract!Reply],
         \A d \in Callers \ {c} : Ask'[d] = Ask[d] /\ Seen'[d] = Seen[d],
         UNCHANGED <<now, upstream, Fetching, served>>
  PROVE  Contract!Next
<1>1. State[c] = "closed"
  BY DEF State
<1>2. Contract!Leave(c)
  BY <1>1 DEF Contract!Leave, Contract!Reply, Fetching, State, StateOf, Ask, AskedBy, Seen, SeenBy
<1> QED BY <1>2 DEF Contract!Next

LEMMA ContractRestart ==
  ASSUME State' = [c \in Callers |-> "free"], Fetching' = {},
         Ask' \in [Callers -> [key : Keys, toldBefore : Nat]], Seen' \in [Callers -> Contract!Reply],
         UNCHANGED <<now, upstream, served>>
  PROVE  Contract!Next
<1>1. Contract!Restart
  BY DEF Contract!Restart, Contract!Reply, Fetching, State, StateOf, Ask, AskedBy, Seen, SeenBy
<1> QED BY <1>1 DEF Contract!Next

LEMMA ContractWorld ==
  ASSUME UNCHANGED <<served, Fetching, State, Ask, Seen>>,
         \/ now' = now + 1 /\ upstream' = upstream
         \/ now' = now /\ \E k \in Keys : upstream' = [upstream EXCEPT ![k] = @ + 1]
  PROVE  Contract!Next
<1>1. Contract!Advance \/ \E k \in Keys : Contract!Publish(k)
  BY DEF Contract!Advance, Contract!Publish, Fetching, State, StateOf, Ask, AskedBy, Seen, SeenBy
<1> QED BY <1>1 DEF Contract!Next

-----------------------------------------------------------------------------
(* What the steps of the cache change of that.                             *)

(* The views after a step, written out.                                    *)
LEMMA ViewAfter ==
  ASSUME NEW c \in Callers
  PROVE  /\ State'[c] = IF pc'[c] = "idle" THEN "free" ELSE IF pc'[c] = "done" THEN "closed" ELSE "open"
         /\ Ask'[c] = [key |-> call'[c].key, toldBefore |-> call'[c].servedBefore]
         /\ Seen'[c] = ReplyOf(IF pc'[c] = "done" THEN answer'[c] ELSE NoAnswer)
BY DEF State, StateOf, Ask, AskedBy, Seen, SeenBy

LEMMA ViewBefore ==
  ASSUME NEW c \in Callers
  PROVE  /\ State[c] = IF pc[c] = "idle" THEN "free" ELSE IF pc[c] = "done" THEN "closed" ELSE "open"
         /\ Ask[c] = [key |-> call[c].key, toldBefore |-> call[c].servedBefore]
         /\ Seen[c] = ReplyOf(IF pc[c] = "done" THEN answer[c] ELSE NoAnswer)
BY DEF State, StateOf, Ask, AskedBy, Seen, SeenBy

(* A step of one caller.                                                   *)
OthersStay(c) == \A d \in Callers \ {c} : pc'[d] = pc[d] /\ call'[d] = call[d] /\ answer'[d] = answer[d]

LEMMA OthersSeen ==
  ASSUME NEW c \in Callers, OthersStay(c)
  PROVE  /\ State' = [State EXCEPT ![c] = State'[c]]
         /\ Ask' = [Ask EXCEPT ![c] = Ask'[c]]
         /\ Seen' = [Seen EXCEPT ![c] = Seen'[c]]
         /\ \A d \in Callers \ {c} : State'[d] = State[d] /\ Ask'[d] = Ask[d] /\ Seen'[d] = Seen[d]
<1>1. \A d \in Callers \ {c} : State'[d] = State[d] /\ Ask'[d] = Ask[d] /\ Seen'[d] = Seen[d]
  <2> SUFFICES ASSUME NEW d \in Callers \ {c}
               PROVE  State'[d] = State[d] /\ Ask'[d] = Ask[d] /\ Seen'[d] = Seen[d]
    OBVIOUS
  <2>1. pc'[d] = pc[d] /\ call'[d] = call[d] /\ answer'[d] = answer[d]
    BY DEF OthersStay
  <2> QED BY <2>1 DEF State, StateOf, Ask, AskedBy, Seen, SeenBy
<1>2. State' = [d \in Callers |-> State'[d]] /\ Ask' = [d \in Callers |-> Ask'[d]] /\ Seen' = [d \in Callers |-> Seen'[d]]
  BY DEF State, StateOf, Ask, AskedBy, Seen, SeenBy
<1>3. State = [d \in Callers |-> State[d]] /\ Ask = [d \in Callers |-> Ask[d]] /\ Seen = [d \in Callers |-> Seen[d]]
  BY DEF State, StateOf, Ask, AskedBy, Seen, SeenBy
<1> QED BY <1>1, <1>2, <1>3

LEMMA NoRequest ==
  ASSUME NEW c \in Callers, OthersStay(c), pc[c] # "fetch", pc'[c] # "fetch"
  PROVE  UNCHANGED Fetching
BY DEF OthersStay, Fetching

(* Inside a call nothing is seen.                                          *)
LEMMA InnerStep ==
  ASSUME NEW c \in Callers, OthersStay(c), call'[c] = call[c], UNCHANGED <<now, upstream, served>>,
         pc[c] \notin {"idle", "done", "fetch"}, pc'[c] \notin {"idle", "done", "fetch"}
  PROVE  UNCHANGED Contract!vars
<1>1. State'[c] = State[c] /\ Ask'[c] = Ask[c] /\ Seen'[c] = Seen[c]
  BY DEF State, StateOf, Ask, AskedBy, Seen, SeenBy
<1>2. UNCHANGED <<State, Ask, Seen>>
  <2>1. State' = [d \in Callers |-> State'[d]] /\ Ask' = [d \in Callers |-> Ask'[d]] /\ Seen' = [d \in Callers |-> Seen'[d]]
    BY DEF State, StateOf, Ask, AskedBy, Seen, SeenBy
  <2>2. State = [d \in Callers |-> State[d]] /\ Ask = [d \in Callers |-> Ask[d]] /\ Seen = [d \in Callers |-> Seen[d]]
    BY DEF State, StateOf, Ask, AskedBy, Seen, SeenBy
  <2>3. \A d \in Callers : State'[d] = State[d] /\ Ask'[d] = Ask[d] /\ Seen'[d] = Seen[d]
    BY <1>1, OthersSeen
  <2> QED BY <2>1, <2>2, <2>3
<1> QED BY <1>2, NoRequest, Unseen

(* The replies that are given are of the kind the contract asks for.       *)
LEMMA ReplyFits ==
  ASSUME ContractInv', UNCHANGED upstream, NEW k \in Keys, NEW a, NEW C \in SUBSET Callers, C # {},
         \A d \in C : pc'[d] = "done" /\ answer'[d] = a /\ call'[d].key = k
  PROVE  /\ Fits(ReplyOf(a), C, k) /\ ReplyOf(a).ver = a.ver
         /\ ReplyOf(a).kind = "fresh" <=> a.err = "none"
<1>1. PICK c \in C : pc'[c] = "done" /\ answer'[c] = a /\ call'[c].key = k
  OBVIOUS
<1>2. /\ a.err = "none" => a.src # "nowhere"
      /\ a.err \in {"none", "stale"} => a.ver \in 1..upstream[k]
      /\ a.err \notin {"none", "stale"} => a.ver = 0
  BY <1>1 DEF ContractInv, Published, PublishedCall, Told, Known
<1>3. a.err = "none" => ~a.overdue
  BY <1>1 DEF ContractInv, WholeInv, LifetimeInv, Answered
<1>4. a.err = "none" => \A d \in C : a.ver >= call'[d].servedBefore
  BY DEF ContractInv, NeverOlder
<1>5. /\ ReplyOf(a).ver = a.ver /\ ReplyOf(a).overdue = a.overdue
      /\ ReplyOf(a).kind = IF a.err = "none" THEN "fresh" ELSE IF a.err = "stale" THEN "stale" ELSE "nothing"
  BY <1>2 DEF ReplyOf
<1> QED BY <1>2, <1>3, <1>4, <1>5 DEF Fits

(* A call that ends by itself closes itself.                               *)
LEMMA CallCloses ==
  ASSUME ContractInv, ContractInv', NEW c \in Callers, OthersStay(c), UNCHANGED <<now, upstream, call>>,
         pc[c] \notin {"idle", "done", "fetch"}, pc'[c] = "done",
         IF answer'[c].err = "none" THEN NoteServed(KeyOf(c), answer'[c].ver) ELSE UNCHANGED served
  PROVE  Contract!Next
<1>1. call[c].key \in Keys /\ call'[c].key = call[c].key
  BY KeyType DEF ContractInv, WholeInv
<1>2. PICK a : a = answer'[c]
  OBVIOUS
<1>4. Fits(ReplyOf(a), {c}, call[c].key) /\ ReplyOf(a).ver = a.ver /\ (ReplyOf(a).kind = "fresh" <=> a.err = "none")
  <2>1. \A d \in {c} : pc'[d] = "done" /\ answer'[d] = a /\ call'[d].key = call[c].key
    BY <1>1, <1>2
  <2>2. {c} \in SUBSET Callers /\ {c} # {}
    OBVIOUS
  <2> QED BY <1>1, <2>1, <2>2, ReplyFits
<1>5. State'[c] = "closed" /\ Seen'[c] = ReplyOf(a) /\ Ask'[c] = Ask[c]
  BY <1>2 DEF State, StateOf, Ask, AskedBy, Seen, SeenBy
<1>6. Closed(ReplyOf(a), {c}, call[c].key)
  <2>1. State' = [d \in Callers |-> IF d \in {c} THEN "closed" ELSE State[d]]
    <3>1. State' = [State EXCEPT ![c] = "closed"]
      BY <1>5, OthersSeen
    <3>2. State = [d \in Callers |-> State[d]]
      BY DEF State, StateOf
    <3> QED BY <3>1, <3>2
  <2>2. Seen' = [d \in Callers |-> IF d \in {c} THEN ReplyOf(a) ELSE Seen[d]]
    <3>1. Seen' = [Seen EXCEPT ![c] = ReplyOf(a)]
      BY <1>5, OthersSeen
    <3>2. Seen = [d \in Callers |-> Seen[d]]
      BY DEF Seen, SeenBy
    <3> QED BY <3>1, <3>2
  <2>3. served' = IF ReplyOf(a).kind = "fresh" THEN [served EXCEPT ![call[c].key] = Larger(@, ReplyOf(a).ver)] ELSE served
    BY <1>2, <1>4 DEF NoteServed
  <2> QED BY <1>4, <2>1, <2>2, <2>3 DEF Closed
<1>7. UNCHANGED Ask
  <2>1. Ask' = [Ask EXCEPT ![c] = Ask[c]]
    BY <1>5, OthersSeen
  <2>2. Ask = [d \in Callers |-> Ask[d]]
    BY DEF Ask, AskedBy
  <2> QED BY <2>1, <2>2
<1>8. UNCHANGED Fetching
  BY NoRequest
<1>9. \A d \in {c} : StateOf(d) = "open" /\ KeyOf(d) = call[c].key
  BY DEF StateOf
<1> QED BY <1>1, <1>6, <1>7, <1>8, <1>9, ContractClose

-----------------------------------------------------------------------------
(* The steps of the environment.                                           *)

LEMMA EnvironmentSeen ==
  ASSUME TypeOK, Environment
  PROVE  Contract!Next \/ UNCHANGED Contract!vars
<1>1. ASSUME pc' = pc, call' = call, answer' = answer
      PROVE  UNCHANGED <<Fetching, State, Ask, Seen>>
  BY <1>1 DEF Fetching, State, StateOf, Ask, AskedBy, Seen, SeenBy
<1>2. CASE Tick
  BY <1>1, <1>2, ContractWorld DEF Tick
<1>3. ASSUME NEW k \in Keys, Publish(k)
      PROVE  Contract!Next
  BY <1>1, <1>3, ContractWorld DEF Publish
<1>4. ASSUME NEW k \in Keys, Evict(k)
      PROVE  UNCHANGED Contract!vars
  BY <1>1, <1>4, Unseen DEF Evict
<1>5. ASSUME NEW c \in Callers, Cancel(c)
      PROVE  UNCHANGED Contract!vars
  BY <1>1, <1>5, Unseen DEF Cancel
<1>6. ASSUME NEW p \in CronPatterns, CronRefresh(p)
      PROVE  UNCHANGED Contract!vars
  BY <1>1, <1>6, Unseen DEF CronRefresh
<1>7. CASE Restart
  <2>1. \A c \in Callers : pc'[c] = "idle" /\ call'[c] = NoCall
    BY <1>7 DEF Restart
  <2>2. State' = [c \in Callers |-> "free"] /\ Fetching' = {}
    BY <2>1 DEF State, StateOf, Fetching
  <2>3. NoCall.key \in Keys /\ NoCall.servedBefore \in Nat
    BY NoCallType DEF NoCall, Call
  <2>4. Ask' \in [Callers -> [key : Keys, toldBefore : Nat]]
    BY <2>1, <2>3 DEF Ask, AskedBy
  <2>5. Seen' \in [Callers -> Contract!Reply]
    BY <2>1 DEF Seen, SeenBy, ReplyOf, NoAnswer, Contract!Reply
  <2> QED BY <1>7, <2>2, <2>4, <2>5, ContractRestart DEF Restart
<1> QED BY <1>2, <1>3, <1>4, <1>5, <1>6, <1>7 DEF Environment

-----------------------------------------------------------------------------
(* The steps of a call.                                                    *)

LEMMA BeginSeen ==
  ASSUME ContractInv, ContractInv', NEW c \in Callers, NEW k \in Keys, NEW t \in Ttls, NEW m \in Modes,
         Begin(c, k, t, m)
  PROVE  Contract!Next
<1>1. TypeOK
  BY DEF ContractInv, WholeInv
<1>2. /\ pc[c] = "idle" /\ pc'[c] \in {"l2", "done"} /\ OthersStay(c)
      /\ call'[c].key = k /\ call'[c].servedBefore = served[k]
      /\ UNCHANGED <<now, upstream>>
  BY <1>1 DEF Begin, Goto, OthersStay, TypeOK
<1>3. StateOf(c) = "free" /\ UNCHANGED Fetching
  BY <1>2, NoRequest DEF StateOf
<1>4. Ask' = [Ask EXCEPT ![c] = [key |-> k, toldBefore |-> served[k]]]
  <2>1. Ask'[c] = [key |-> k, toldBefore |-> served[k]]
    BY <1>2 DEF Ask, AskedBy
  <2> QED BY <1>2, <2>1, OthersSeen
<1>5. CASE ~Live(l1[k])
  <2>1. pc'[c] = "l2" /\ UNCHANGED served
    BY <1>1, <1>5 DEF Begin, Goto, TypeOK
  <2>2. State'[c] = "open" /\ Seen'[c] = Seen[c]
    BY <1>2, <2>1 DEF State, StateOf, Seen, SeenBy
  <2>3. State' = [State EXCEPT ![c] = "open"]
    BY <1>2, <2>2, OthersSeen
  <2>4. UNCHANGED Seen
    <3>1. Seen' = [Seen EXCEPT ![c] = Seen[c]]
      BY <1>2, <2>2, OthersSeen
    <3>2. Seen = [d \in Callers |-> Seen[d]]
      BY DEF Seen, SeenBy
    <3> QED BY <3>1, <3>2
  <2> QED BY <1>2, <1>3, <1>4, <2>1, <2>3, <2>4, ContractAsk
<1>6. CASE Live(l1[k])
  <2>1. /\ pc'[c] = "done" /\ answer'[c].err = "none" /\ answer'[c].ver = l1[k].ver
        /\ served' = [served EXCEPT ![k] = Larger(@, l1[k].ver)]
    BY <1>1, <1>6 DEF Begin, Goto, NoteServed, TypeOK
  <2>2. PICK a : a = answer'[c]
    OBVIOUS
  <2>3. Fits(ReplyOf(a), {c}, k) /\ ReplyOf(a).ver = l1[k].ver /\ ReplyOf(a).kind = "fresh"
    <3>1. \A d \in {c} : pc'[d] = "done" /\ answer'[d] = a /\ call'[d].key = k
      BY <1>2, <2>1, <2>2
    <3>2. {c} \in SUBSET Callers /\ {c} # {} /\ UNCHANGED upstream
      BY <1>2
    <3> QED BY <2>1, <2>2, <3>1, <3>2, ReplyFits
  <2>4. State'[c] = "closed" /\ Seen'[c] = ReplyOf(a)
    BY <2>1, <2>2 DEF State, StateOf, Seen, SeenBy
  <2>5. State' = [d \in Callers |-> IF d \in {c} THEN "closed" ELSE State[d]]
    <3>1. State' = [State EXCEPT ![c] = "closed"]
      BY <1>2, <2>4, OthersSeen
    <3>2. State = [d \in Callers |-> State[d]]
      BY DEF State, StateOf
    <3> QED BY <3>1, <3>2
  <2>6. Seen' = [d \in Callers |-> IF d \in {c} THEN ReplyOf(a) ELSE Seen[d]]
    <3>1. Seen' = [Seen EXCEPT ![c] = ReplyOf(a)]
      BY <1>2, <2>4, OthersSeen
    <3>2. Seen = [d \in Callers |-> Seen[d]]
      BY DEF Seen, SeenBy
    <3> QED BY <3>1, <3>2
  <2>7. served' = IF ReplyOf(a).kind = "fresh"
                    THEN [served EXCEPT ![k] = Larger(@, ReplyOf(a).ver)] ELSE served
    BY <2>1, <2>3
  <2>8. Closed(ReplyOf(a), {c}, k)
    BY <2>3, <2>5, <2>6, <2>7 DEF Closed
  <2>9. \E r : r.kind = "fresh" /\ Closed(r, {c}, k)
    BY <2>3, <2>8
  <2> QED BY <1>2, <1>3, <1>4, <2>9, ContractAsk
<1> QED BY <1>5, <1>6

LEMMA ReturnSeen ==
  ASSUME ContractInv, ContractInv', NEW c \in Callers, Return(c)
  PROVE  Contract!Next
<1>1. TypeOK /\ TypeOK'
  BY DEF ContractInv, WholeInv
<1>2. /\ pc[c] = "done" /\ pc'[c] = "idle" /\ OthersStay(c) /\ UNCHANGED <<now, upstream, served>>
  BY <1>1 DEF Return, Goto, OthersStay, TypeOK
<1>3. StateOf(c) = "closed" /\ UNCHANGED Fetching
  BY <1>2, NoRequest DEF StateOf
<1>4. State' = [State EXCEPT ![c] = "free"]
  <2>1. State'[c] = "free"
    BY <1>2 DEF State, StateOf
  <2> QED BY <1>2, <2>1, OthersSeen
<1>5. Ask' \in [Callers -> [key : Keys, toldBefore : Nat]]
  <2>1. \A d \in Callers : call'[d].key \in Keys /\ call'[d].servedBefore \in Nat
    BY <1>1, CacheAssumption DEF TypeOK, Call, Versions
  <2> QED BY <2>1 DEF Ask, AskedBy
<1>6. Seen' \in [Callers -> Contract!Reply]
  <2>1. \A d \in Callers : answer'[d] \in Answer
    BY <1>1 DEF TypeOK
  <2>2. NoAnswer \in Answer /\ Versions \subseteq Nat
    BY CacheAssumption DEF NoAnswer, Answer, Versions
  <2>3. ASSUME NEW a \in Answer
        PROVE  ReplyOf(a) \in Contract!Reply
    BY <2>2 DEF ReplyOf, Answer, Contract!Reply
  <2>4. \A d \in Callers : Seen'[d] \in Contract!Reply
    BY <2>1, <2>2, <2>3 DEF Seen, SeenBy
  <2>5. Seen' = [d \in Callers |-> Seen'[d]]
    BY DEF Seen, SeenBy
  <2> QED BY <2>4, <2>5
<1> QED BY <1>2, <1>3, <1>4, <1>5, <1>6, OthersSeen, ContractLeave

(* A leader sends the one request of its key, and ends it.                 *)
LEMMA RequestSeen ==
  ASSUME ContractInv, NEW c \in Callers, OthersStay(c), call'[c] = call[c],
         UNCHANGED <<now, upstream, served>>,
         \/ pc[c] = "chk2" /\ pc'[c] = "fetch"
         \/ pc[c] = "fetch" /\ pc'[c] \in {"store1", "fallback", "finish"}
  PROVE  Contract!Next
<1>1. TypeOK /\ LeaderHoldsFlight
  BY DEF ContractInv, WholeInv
<1>2. call[c].key \in Keys
  BY <1>1, KeyType
<1>3. \A d \in Callers \ {c} : ~(pc[d] = "fetch" /\ call[d].key = call[c].key)
  BY <1>1 DEF LeaderHoldsFlight
<1>4. \A d \in Callers \ {c} : pc'[d] = pc[d] /\ call'[d] = call[d]
  BY DEF OthersStay
<1>5. UNCHANGED <<State, Ask, Seen>>
  <2>1. State'[c] = State[c] /\ Ask'[c] = Ask[c] /\ Seen'[c] = Seen[c]
    BY DEF State, StateOf, Ask, AskedBy, Seen, SeenBy
  <2>2. \A d \in Callers : State'[d] = State[d] /\ Ask'[d] = Ask[d] /\ Seen'[d] = Seen[d]
    BY <2>1, OthersSeen
  <2>3. State' = [d \in Callers |-> State'[d]] /\ Ask' = [d \in Callers |-> Ask'[d]]
        /\ Seen' = [d \in Callers |-> Seen'[d]]
    BY DEF State, StateOf, Ask, AskedBy, Seen, SeenBy
  <2>4. State = [d \in Callers |-> State[d]] /\ Ask = [d \in Callers |-> Ask[d]]
        /\ Seen = [d \in Callers |-> Seen[d]]
    BY DEF State, StateOf, Ask, AskedBy, Seen, SeenBy
  <2> QED BY <2>2, <2>3, <2>4
<1>6. CASE pc[c] = "chk2" /\ pc'[c] = "fetch"
  <2>1. call[c].key \notin Fetching
    BY <1>3, <1>6 DEF Fetching
  <2>2. Fetching' = Fetching \cup {call[c].key}
    BY <1>2, <1>4, <1>6 DEF Fetching
  <2>3. StateOf(c) = "open" /\ KeyOf(c) = call[c].key
    BY <1>6 DEF StateOf
  <2> QED BY <1>2, <1>5, <2>1, <2>2, <2>3, ContractRequest
<1>7. CASE pc[c] = "fetch" /\ pc'[c] \in {"store1", "fallback", "finish"}
  <2>1. call[c].key \in Fetching
    BY <1>2, <1>7 DEF Fetching
  <2>2. Fetching' = Fetching \ {call[c].key}
    BY <1>3, <1>4, <1>7 DEF Fetching
  <2> QED BY <1>2, <1>5, <2>1, <2>2, ContractRequest
<1> QED BY <1>6, <1>7

(* The end of a flight closes the calls of the leader and its waiters.     *)
LEMMA FinishSeen ==
  ASSUME ContractInv, ContractInv', NEW c \in Callers, Finish(c)
  PROVE  Contract!Next
<1>1. TypeOK
  BY DEF ContractInv, WholeInv
<1>2. call[c].key \in Keys
  BY <1>1, KeyType
<1>3. PICK C : C = {c} \cup Waiters(call[c].key)
  OBVIOUS
<1>4. PICK a : a = answer[c]
  OBVIOUS
<1>5. C \in SUBSET Callers /\ C # {} /\ c \in C
  BY <1>3 DEF Waiters
<1>6. \A d \in C : pc[d] \in {"finish", "wait"} /\ call[d].key = call[c].key
  BY <1>3 DEF Waiters, Finish
<1>7. /\ \A d \in Callers : /\ pc'[d] = IF d \in C THEN "done" ELSE pc[d]
                            /\ answer'[d] = IF d \in C THEN a ELSE answer[d]
      /\ UNCHANGED <<now, upstream, call>>
      /\ served' = IF a.err = "none" THEN [served EXCEPT ![call[c].key] = Larger(@, a.ver)] ELSE served
  BY <1>3, <1>4 DEF Finish, NoteServed
<1>8. /\ Fits(ReplyOf(a), C, call[c].key) /\ ReplyOf(a).ver = a.ver
      /\ ReplyOf(a).kind = "fresh" <=> a.err = "none"
  <2>1. \A d \in C : pc'[d] = "done" /\ answer'[d] = a /\ call'[d].key = call[c].key
    BY <1>5, <1>6, <1>7
  <2>2. UNCHANGED upstream
    BY <1>7
  <2>3. C \in SUBSET Callers /\ C # {}
    BY <1>5
  <2> QED BY <1>2, <2>1, <2>2, <2>3, ReplyFits
<1>9. State' = [d \in Callers |-> IF d \in C THEN "closed" ELSE State[d]]
  BY <1>7 DEF State, StateOf
<1>10. Seen' = [d \in Callers |-> IF d \in C THEN ReplyOf(a) ELSE Seen[d]]
  <2>1. \A d \in Callers : Seen'[d] = IF d \in C THEN ReplyOf(a) ELSE Seen[d]
    BY <1>7 DEF Seen, SeenBy
  <2>2. Seen' = [d \in Callers |-> Seen'[d]]
    BY DEF Seen, SeenBy
  <2> QED BY <2>1, <2>2
<1>11. served' = IF ReplyOf(a).kind = "fresh"
                   THEN [served EXCEPT ![call[c].key] = Larger(@, ReplyOf(a).ver)] ELSE served
  BY <1>7, <1>8
<1>12. Closed(ReplyOf(a), C, call[c].key)
  BY <1>8, <1>9, <1>10, <1>11 DEF Closed
<1>13. \A d \in C : StateOf(d) = "open" /\ KeyOf(d) = call[c].key
  BY <1>6 DEF StateOf
<1>14. UNCHANGED <<Fetching, Ask>>
  <2>1. UNCHANGED Ask
    BY <1>7 DEF Ask, AskedBy
  <2>2. \A d \in Callers : pc'[d] = "fetch" <=> pc[d] = "fetch"
    BY <1>6, <1>7
  <2>3. UNCHANGED Fetching
    BY <1>7, <2>2 DEF Fetching
  <2> QED BY <2>1, <2>3
<1> QED BY <1>2, <1>5, <1>7, <1>12, <1>13, <1>14, ContractClose

LEMMA StepSeen ==
  ASSUME ContractInv, ContractInv', NEW c \in Callers, Step(c)
  PROVE  Contract!Next \/ UNCHANGED Contract!vars
<1>1. TypeOK
  BY DEF ContractInv, WholeInv
<1> DEFINE Goal == Contract!Next \/ UNCHANGED Contract!vars
<1> SUFFICES Goal
  OBVIOUS
<1>2. ASSUME OthersStay(c), UNCHANGED <<now, upstream, call, served>>,
             pc[c] \notin {"idle", "done", "fetch"}, pc'[c] \notin {"idle", "done", "fetch"}
      PROVE  Goal
  BY <1>2, InnerStep
<1>3. ASSUME OthersStay(c), UNCHANGED <<now, upstream, call>>,
             pc[c] \notin {"idle", "done", "fetch"}, pc'[c] = "done",
             IF answer'[c].err = "none" THEN NoteServed(KeyOf(c), answer'[c].ver) ELSE UNCHANGED served
      PROVE  Goal
  BY <1>3, CallCloses
<1>4. ASSUME OthersStay(c), UNCHANGED <<now, upstream, call, served>>,
             \/ pc[c] = "chk2" /\ pc'[c] = "fetch"
             \/ pc[c] = "fetch" /\ pc'[c] \in {"store1", "fallback", "finish"}
      PROVE  Goal
  BY <1>4, RequestSeen
<1>5. CASE Finish(c)
  BY <1>5, FinishSeen
<1> HIDE DEF Goal
<1>6. CASE ReadL2(c)
  <2>1. /\ OthersStay(c) /\ UNCHANGED <<now, upstream, call, served>> /\ pc[c] = "l2"
        /\ \/ pc'[c] \in {"refill", "join"}
           \/ pc'[c] = "done" /\ answer'[c].err # "none"
    BY <1>1, <1>6 DEF ReadL2, PassL2, Goto, Fail, NoAnswer, OthersStay, TypeOK
  <2> QED BY <1>2, <1>3, <2>1
<1>7. CASE Refill(c)
  <2>1. /\ OthersStay(c) /\ UNCHANGED <<now, upstream, call>> /\ pc[c] = "refill" /\ pc'[c] = "done"
        /\ answer'[c].err = "none" /\ answer'[c].ver = hand[c].ver
        /\ NoteServed(KeyOf(c), hand[c].ver)
    BY <1>1, <1>7 DEF Refill, Goto, Hit, OthersStay, TypeOK
  <2>2. NoteServed(KeyOf(c), answer'[c].ver)
    BY <2>1 DEF NoteServed
  <2> QED BY <1>3, <2>1, <2>2
<1>8. CASE Join(c) \/ CheckL1(c) \/ CheckRefill(c) \/ Fallback(c) \/ StoreL1(c) \/ StoreL2(c)
  <2>1. /\ OthersStay(c) /\ UNCHANGED <<now, upstream, call, served>>
        /\ pc[c] \in {"join", "chk1", "chkRefill", "fallback", "store1", "store2"}
        /\ pc'[c] \in {"wait", "chk1", "chk2", "store2", "finish"}
    BY <1>1, <1>8, StoreL1Moves
       DEF Join, CheckL1, CheckRefill, Fallback, StoreL2, Goto, Hit, OthersStay, StoreL1, TypeOK
  <2> QED BY <1>2, <2>1
<1>9. CASE CheckL2(c)
  <2>1. /\ OthersStay(c) /\ UNCHANGED <<now, upstream, call, served>> /\ pc[c] = "chk2"
        /\ pc'[c] \in {"fetch", "finish", "chkRefill"}
    BY <1>1, <1>9 DEF CheckL2, Goto, Fail, OthersStay, TypeOK
  <2> QED BY <1>2, <1>4, <2>1
<1>10. CASE FetchOk(c) \/ FetchFail(c)
  <2>1. /\ OthersStay(c) /\ UNCHANGED <<now, upstream, call, served>> /\ pc[c] = "fetch"
        /\ pc'[c] \in {"store1", "fallback", "finish"}
    BY <1>1, <1>10 DEF FetchOk, FetchFail, Goto, Fail, OthersStay, TypeOK
  <2> QED BY <1>4, <2>1
<1> QED BY <1>5, <1>6, <1>7, <1>8, <1>9, <1>10 DEF Step, LeaderStep

(* Every step of the cache is a step of the contract or invisible to it.   *)
LEMMA NextHonoursContract ==
  ASSUME ContractInv, ContractInv', [Next]_vars
  PROVE  [Contract!Next]_(Contract!vars)
<1> DEFINE Goal == Contract!Next \/ UNCHANGED Contract!vars
<1>1. CASE UNCHANGED vars
  <2>1. UNCHANGED <<now, upstream, served, Fetching, State, Ask, Seen>>
    BY <1>1 DEF Fetching, State, StateOf, Ask, AskedBy, Seen, SeenBy
  <2> QED BY <2>1, Unseen
<1>2. CASE Environment
  BY <1>2, EnvironmentSeen DEF ContractInv, WholeInv
<1>3. ASSUME NEW c \in Callers, NEW k \in Keys, NEW t \in Ttls, NEW m \in Modes, Begin(c, k, t, m)
      PROVE  Goal
  BY <1>3, BeginSeen
<1>4. ASSUME NEW c \in Callers, Step(c)
      PROVE  Goal
  BY <1>4, StepSeen
<1>5. ASSUME NEW c \in Callers, Return(c)
      PROVE  Goal
  BY <1>5, ReturnSeen
<1> QED BY <1>1, <1>2, <1>3, <1>4, <1>5 DEF Next

(* The cache implements its contract: whatever the levels, flights, stores  *)
(* and refills do, callers see one request per key at a time, and every    *)
(* call closed by one reply that is fresh and no older than what was told  *)
(* before it, or stale and marked as such, or empty (Get, GetOrFetch).     *)
THEOREM ContractHonoured ==
  ASSUME InstantRefill, "all" \notin CronPatterns, MaxVer # 0
  PROVE  Spec => HonoursContract
<1>1. Spec => []ContractInv
  BY ContractInvariant
<1>2. Init => Contract!Init
  BY ContractInit
<1>3. ContractInv /\ ContractInv' /\ [Next]_vars => [Contract!Next]_(Contract!vars)
  BY NextHonoursContract
<1> QED BY <1>1, <1>2, <1>3, PTL DEF Spec, HonoursContract, Contract!Spec
=============================================================================
