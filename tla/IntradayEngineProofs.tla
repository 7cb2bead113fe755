------------------------ MODULE IntradayEngineProofs ------------------------
(***************************************************************************)
(* Theorems about IntradayEngine, for every watchlist, ring size, failure  *)
(* limit and calendar, and for prices and volumes of any size.             *)
(***************************************************************************)
EXTENDS IntradayEngine, LeastNumbers, TLAPS

USE DEF vars

(* The snapshots a poll brings, apart from the empty slot's.               *)
Traded == [day : Days, last : Prices, cum : 0..MaxVol]
Hands == {<<>>} \cup {<<t>> : t \in Traded}
Worker == [pc : {"look", "send", "wait", "store"}, lastDay : Days \cup {0}, failures : 0..MaxFailures,
           asked : SUBSET Codes, snaps : Hands, updates : Hands]
Ring == [buf : [0..Capacity - 1 -> Ticks], head : 0..Capacity - 1, n : 0..Capacity]
Tracker == [day : Days \cup {0}, pv : Int, vol : Int, prev : 0..MaxVol, high : Int, low : Int]

EngineType ==
  /\ clock \in [day : Days, part : Parts]
  /\ watch \subseteq Codes /\ degraded \in BOOLEAN
  /\ worker \in Worker
  /\ ring \in Ring
  /\ tracker \in Tracker
  /\ hist \in Seq(Traded)
  /\ streak \in 0..MaxFailures

(* Where the worker stands in its poll.  It looked at the watchlist on the *)
(* day whose snapshots it has in hand, and a poll names at least one code. *)
PollInv ==
  /\ worker.pc = "send" => watch # {}
  /\ worker.pc = "wait" => worker.asked # {}
  /\ worker.lastDay <= clock.day
  /\ worker.pc # "look" => worker.lastDay = clock.day
  /\ worker.pc # "store" => worker.updates = <<>>
  /\ worker.snaps \in {<<>>, worker.updates}
  /\ worker.updates # <<>> => worker.updates[1].day = clock.day

(* The log of stored ticks is of one day, not after the worker's.          *)
LogInv ==
  /\ \A i \in 1..Len(hist) : hist[i].day = hist[1].day
  /\ hist # <<>> => hist[1].day <= worker.lastDay

(* The counter of the worker is the number of polls that failed in a row.  *)
FailuresInv ==
  /\ worker.failures = streak
  /\ degraded => streak = MaxFailures

(* The slot written j ticks before the newest one.                         *)
Slot(head, j) == IF j < head THEN head - 1 - j ELSE head - 1 - j + Capacity

Here == hist # <<>> /\ hist[1].day = worker.lastDay
RingInv ==
  /\ ring.n = IF Here THEN Smaller(Len(hist), Capacity) ELSE 0
  /\ \A j \in 0..ring.n - 1 : ring.buf[Slot(ring.head, j)] = hist[Len(hist) - j]

(* s sums the terms one by one.                                            *)
Sums(s, terms, k) == s[0] = 0 /\ \A j \in 1..k : s[j] = s[j - 1] + terms[j]

(* The average lies between the low and the high.                          *)
Between(tr) == tr.low * tr.vol <= tr.pv /\ tr.pv <= tr.high * tr.vol

(* The tracker accounts for the first k ticks of the log.                  *)
Covers(tr, log, k) ==
  /\ tr.day = log[1].day /\ tr.prev = log[k].cum
  /\ \A i \in 1..k : /\ tr.low <= log[i].last /\ log[i].last <= tr.high
                     /\ log[i].cum <= tr.vol
  /\ Between(tr)
  /\ (\A i \in 1..k - 1 : log[i].cum <= log[i + 1].cum) => tr.vol = log[k].cum
  /\ \E v \in [0..k -> Int] : Sums(v, Gains(log), k) /\ tr.vol = v[k]
  /\ \E s \in [0..k -> Int] : Sums(s, Worths(log), k) /\ tr.pv = s[k]

(* It lags behind by the tick that is in its ring and not yet in it.       *)
Lagging == worker.updates # <<>> /\ worker.snaps = <<>>
TrackerInv ==
  /\ ~Lagging /\ hist = <<>> => tracker.day = 0
  /\ ~Lagging /\ hist # <<>> => Covers(tracker, hist, Len(hist))
  /\ Lagging => /\ hist # <<>> /\ hist[Len(hist)] = worker.updates[1]
                /\ IF Len(hist) = 1 THEN tracker.day # clock.day
                   ELSE Covers(tracker, hist, Len(hist) - 1)

EngineInv == EngineType /\ PollInv /\ LogInv /\ FailuresInv /\ RingInv /\ TrackerInv
-----------------------------------------------------------------------------
(* The types.                                                              *)

LEMMA Numbers ==
  /\ MaxVol \in Nat /\ Capacity \in Nat /\ Capacity > 0 /\ MaxFailures \in Nat /\ MaxFailures > 0
  /\ LastDay \in Nat /\ Prices \subseteq Int /\ Days \subseteq Int /\ 0 \notin Days
BY EngineAssumption DEF Days

LEMMA Zeros ==
  /\ 0 \in 0..MaxFailures /\ 0 \in 0..Capacity - 1 /\ 0 \in 0..Capacity /\ 0 \in 0..MaxVol
  /\ 0 \in Int
BY EngineAssumption

LEMMA DaysAndVolumes ==
  /\ \A d \in Days \cup {0} : d \in Int
  /\ \A v \in 0..MaxVol : v \in Int
  /\ \A t \in Traded : t.day \in Int /\ t.last \in Int /\ t.cum \in Int
<1>1. \A d \in Days \cup {0} : d \in Int
  BY EngineAssumption DEF Days
<1>2. \A v \in 0..MaxVol : v \in Int
  BY EngineAssumption
<1>3. \A pr \in Prices : pr \in Int
  BY EngineAssumption
<1>4. \A t \in Traded : t.day \in Days /\ t.last \in Prices /\ t.cum \in 0..MaxVol
  BY DEF Traded
<1> QED BY <1>1, <1>2, <1>3, <1>4

LEMMA PhaseParts == Parts = 1..5 /\ Len(Phases) = 5
BY DEF Parts, Phases

LEMMA TickTypes == NoTick \in Ticks /\ Traded \subseteq Ticks
BY EngineAssumption DEF NoTick, Ticks, Traded

LEMMA RestingType == Resting \in Worker /\ EmptyRing \in Ring /\ NoTracker \in Tracker
<1>1. Resting \in Worker
  BY Zeros DEF Resting, Worker, Hands
<1>2. EmptyRing \in Ring
  BY Zeros, TickTypes DEF EmptyRing, Ring
<1>3. NoTracker \in Tracker
  BY Zeros DEF NoTracker, Tracker
<1> QED BY <1>1, <1>2, <1>3

(* A snapshot in hand is the only one, and the first.                      *)
LEMMA InHand ==
  ASSUME NEW q \in Hands, q # <<>>
  PROVE  Head(q) \in Traded /\ q = <<Head(q)>> /\ Tail(q) = <<>> /\ q[1] = Head(q)
<1>1. PICK t \in Traded : q = <<t>>
  BY DEF Hands
<1>2. Head(<<t>>) = t /\ Tail(<<t>>) = <<>> /\ <<t>>[1] = t
  OBVIOUS
<1> QED BY <1>1, <1>2

LEMMA PutType ==
  ASSUME NEW r \in Ring, NEW t \in Traded
  PROVE  Put(r, t) \in Ring
<1>1. Capacity \in Nat /\ Capacity > 0
  BY EngineAssumption
<1>2. r.head \in 0..Capacity - 1 /\ r.n \in 0..Capacity /\ r.buf \in [0..Capacity - 1 -> Ticks]
  BY DEF Ring
<1>3. (r.head + 1) % Capacity \in 0..Capacity - 1
  BY <1>1, <1>2
<1>4. [r.buf EXCEPT ![r.head] = t] \in [0..Capacity - 1 -> Ticks]
  BY <1>2, TickTypes
<1> QED BY <1>1, <1>2, <1>3, <1>4 DEF Put, Ring

LEMMA ClearedType ==
  ASSUME NEW r \in Ring
  PROVE  Cleared(r) \in Ring
BY Zeros DEF Cleared, Ring

LEMMA UpdatedType ==
  ASSUME NEW tr \in Tracker, NEW t \in Traded
  PROVE  Updated(tr, t) \in Tracker
<1> DEFINE u == OnItsDay(tr, t)
           dv == IF u.prev = 0 THEN t.cum ELSE Larger(t.cum - u.prev, 0)
<1>0. t.day \in Days /\ t.last \in Prices /\ t.cum \in 0..MaxVol
  BY DEF Traded
<1>1. t.day \in Days /\ t.last \in Int /\ t.cum \in 0..MaxVol /\ t.cum \in Int
  <2>1. t.last \in Nat
    BY <1>0, EngineAssumption
  <2>2. t.cum \in Nat
    BY <1>0, EngineAssumption
  <2> QED BY <1>0, <2>1, <2>2
<1>2. u \in Tracker
  BY <1>1, EngineAssumption DEF OnItsDay, Tracker
<1>3. /\ u.pv \in Int /\ u.vol \in Int /\ u.prev \in 0..MaxVol /\ u.prev \in Int
      /\ u.high \in Int /\ u.low \in Int
  BY <1>2, EngineAssumption DEF Tracker
<1> HIDE DEF u
<1>4. dv \in Int
  BY <1>1, <1>3 DEF Larger
<1>5. Updated(tr, t) = [u EXCEPT !.pv = @ + t.last * dv, !.vol = @ + dv, !.prev = t.cum,
                                 !.high = Larger(@, t.last), !.low = Smaller(@, t.last)]
  BY DEF Updated, u
<1> HIDE DEF dv
<1>6. /\ u.pv + t.last * dv \in Int /\ u.vol + dv \in Int
      /\ Larger(u.high, t.last) \in Int /\ Smaller(u.low, t.last) \in Int
  BY <1>1, <1>3, <1>4 DEF Larger, Smaller
<1> QED BY <1>1, <1>2, <1>5, <1>6 DEF Tracker

LEMMA LoggedType ==
  ASSUME NEW t \in Traded, hist \in Seq(Traded)
  PROVE  Logged(t) \in Seq(Traded)
BY DEF Logged

LEMMA InitType == Init => EngineType
<1> SUFFICES ASSUME Init PROVE EngineType
  OBVIOUS
<1>1. [day |-> 1, part |-> 1] \in [day : Days, part : Parts]
  <2>1. 1 \in Days
    BY EngineAssumption DEF Days
  <2> QED BY <2>1, PhaseParts
<1>2. hist \in Seq(Traded) /\ watch \subseteq Codes /\ degraded \in BOOLEAN
  <2>1. <<>> \in Seq(Traded) /\ {} \subseteq Codes /\ FALSE \in BOOLEAN
    OBVIOUS
  <2> QED BY <2>1 DEF Init
<1> QED BY <1>1, <1>2, Zeros, RestingType DEF Init, EngineType

LEMMA NextType == EngineType /\ [Next]_vars => EngineType'
<1> SUFFICES ASSUME EngineType, [Next]_vars PROVE EngineType'
  OBVIOUS
<1> USE DEF EngineType
<1>1. CASE LookIdle
  BY <1>1, Zeros DEF LookIdle, Worker
<1>2. CASE Look
  BY <1>2, ClearedType DEF Look, RingFor, Worker
<1>3. CASE Send
  BY <1>3 DEF Send, Worker
<1>4. CASE PollFails
  <2>1. \A k \in 0..MaxFailures : Smaller(k + 1, MaxFailures) \in 0..MaxFailures
    BY EngineAssumption DEF Smaller
  <2> QED BY <1>4, <2>1 DEF PollFails, Worker
<1>5. CASE PollAnswered
  <2>1. ASSUME NEW q \in Hands, Answered(q)
        PROVE  worker' \in Worker
    BY <2>1 DEF Answered, Worker
  <2>2. ASSUME NEW pr \in Prices, NEW v \in 0..MaxVol
        PROVE  <<[day |-> clock.day, last |-> pr, cum |-> v]>> \in Hands
    BY DEF Traded, Hands
  <2>3. worker' \in Worker
    BY <1>5, <2>1, <2>2 DEF PollAnswered, Hands
  <2> QED BY <1>5, <2>3 DEF PollAnswered
<1>6. CASE Store
  <2>1. Head(worker.snaps) \in Traded /\ Tail(worker.snaps) = <<>>
    BY <1>6, InHand DEF Store, Worker
  <2>2. ring' \in Ring /\ hist' \in Seq(Traded)
    BY <1>6, <2>1, PutType, LoggedType DEF Store
  <2>3. worker' \in Worker
    <3>1. <<>> \in Hands
      BY DEF Hands
    <3> QED BY <1>6, <2>1, <3>1 DEF Store, Worker
  <2> QED BY <1>6, <2>2, <2>3 DEF Store
<1>7. CASE Update
  <2>1. Head(worker.updates) \in Traded /\ Tail(worker.updates) = <<>>
    BY <1>7, InHand DEF Update, Worker
  <2>2. <<>> \in Hands
    BY DEF Hands
  <2> QED BY <1>7, <2>1, <2>2, UpdatedType DEF Update, Worker
<1>8. CASE Healthy
  BY <1>8, Zeros DEF Healthy, Worker
<1>9. CASE SetActiveWatchlist
  BY <1>9 DEF SetActiveWatchlist
<1>10. CASE Tick
  <2>1. clock'.day \in Days /\ clock'.part \in Parts
    BY <1>10, PhaseParts, Zeros, EngineAssumption DEF Tick, Days
  <2>2. clock' \in [day : Days, part : Parts]
    BY <1>10, <2>1 DEF Tick
  <2> QED BY <1>10, <2>1, <2>2 DEF Tick
<1>11. CASE Restart
  <2>1. <<>> \in Seq(Traded) /\ {} \subseteq Codes /\ FALSE \in BOOLEAN
    OBVIOUS
  <2> QED BY <1>11, <2>1, RestingType, Zeros DEF Restart
<1>12. CASE UNCHANGED vars
  BY <1>12
<1> QED
  BY <1>1, <1>2, <1>3, <1>4, <1>5, <1>6, <1>7, <1>8, <1>9, <1>10, <1>11, <1>12 DEF Next, Run
-----------------------------------------------------------------------------
(* The poll and its failures.                                              *)

LEMMA NextPoll == EngineType /\ LogInv /\ PollInv /\ [Next]_vars => PollInv'
<1> SUFFICES ASSUME EngineType, PollInv, LogInv, [Next]_vars PROVE PollInv'
  OBVIOUS
<1>0. /\ worker \in Worker /\ worker.lastDay \in Int /\ clock \in [day : Days, part : Parts] /\ clock.day \in Int
  BY EngineAssumption DEF EngineType, Worker, Days
<1> USE DEF PollInv
<1>1. CASE LookIdle
  BY <1>0, <1>1 DEF LookIdle, Worker
<1>2. CASE Look
  BY <1>0, <1>2 DEF Look, Worker
<1>3. CASE Send
  BY <1>0, <1>3 DEF Send, Worker
<1>4. CASE PollFails
  BY <1>0, <1>4 DEF PollFails, Worker
<1>5. CASE PollAnswered
  <2>1. CASE worker.asked # {Followed} /\ Answered(<<>>)
    BY <1>0, <1>5, <2>1 DEF PollAnswered, Answered, Worker
  <2>2. ASSUME NEW pr \in Prices, NEW v \in 0..MaxVol,
               Answered(<<[day |-> clock.day, last |-> pr, cum |-> v]>>)
        PROVE  PollInv'
    <3> DEFINE q == <<[day |-> clock.day, last |-> pr, cum |-> v]>>
    <3>1. q[1].day = clock.day /\ q # <<>>
      OBVIOUS
    <3> HIDE DEF q
    <3>2. /\ worker'.pc = "store" /\ worker'.snaps = q /\ worker'.updates = q
          /\ worker'.lastDay = worker.lastDay
      BY <1>0, <1>5, <2>2 DEF Answered, Worker, q
    <3> QED BY <1>0, <1>5, <2>2, <3>1, <3>2 DEF PollAnswered
  <2> QED BY <1>5, <2>1, <2>2 DEF PollAnswered
<1>6. CASE Store
  <2>1. Tail(worker.snaps) = <<>>
    BY <1>0, <1>6, InHand DEF Store, Worker
  <2> QED BY <1>0, <1>6, <2>1 DEF Store, Worker
<1>7. CASE Update
  <2>1. Tail(worker.updates) = <<>>
    BY <1>0, <1>7, InHand DEF Update, Worker
  <2> QED BY <1>0, <1>7, <2>1 DEF Update, Worker
<1>8. CASE Healthy
  BY <1>0, <1>8 DEF Healthy, Worker
<1>9. CASE SetActiveWatchlist
  BY <1>9 DEF SetActiveWatchlist
<1>10. CASE Tick
  BY <1>0, <1>10 DEF Tick
<1>11. CASE Restart
  BY <1>0, <1>11, EngineAssumption DEF Restart, Resting, Days
<1>12. CASE UNCHANGED vars
  BY <1>12
<1> HIDE DEF PollInv
<1> QED
  BY <1>1, <1>2, <1>3, <1>4, <1>5, <1>6, <1>7, <1>8, <1>9, <1>10, <1>11, <1>12 DEF Next, Run

LEMMA NextFailures == EngineType /\ FailuresInv /\ [Next]_vars => FailuresInv'
<1> SUFFICES ASSUME EngineType, FailuresInv, [Next]_vars PROVE FailuresInv'
  OBVIOUS
<1>0. worker \in Worker /\ worker.failures \in 0..MaxFailures /\ MaxFailures \in Nat /\ MaxFailures > 0
  BY EngineAssumption DEF EngineType, Worker
<1> USE DEF FailuresInv
<1>1. CASE LookIdle \/ Healthy
  BY <1>0, <1>1 DEF LookIdle, Healthy, Worker
<1>2. CASE Look \/ Send \/ Store \/ Update
  <2>1. worker'.failures = worker.failures
    BY <1>0, <1>2 DEF Look, Send, Store, Update, Worker
  <2> QED BY <1>2, <2>1 DEF Look, Send, Store, Update
<1>3. CASE PollAnswered
  <2>1. worker'.failures = worker.failures
    BY <1>0, <1>3 DEF PollAnswered, Answered, Worker
  <2> QED BY <1>3, <2>1 DEF PollAnswered
<1>4. CASE PollFails
  <2>1. worker'.failures = Smaller(worker.failures + 1, MaxFailures)
    BY <1>0, <1>4 DEF PollFails, Worker
  <2>2. worker'.failures = streak' /\ degraded' = (degraded \/ worker.failures + 1 >= MaxFailures)
    BY <1>4, <2>1 DEF PollFails
  <2>3. degraded' => degraded \/ worker.failures + 1 >= MaxFailures
    BY <2>2, Zenon
  <2>4. degraded => worker.failures = MaxFailures
    OBVIOUS
  <2> QED BY <1>0, <2>1, <2>2, <2>3, <2>4 DEF Smaller
<1>5. CASE SetActiveWatchlist \/ Tick
  BY <1>5 DEF SetActiveWatchlist, Tick
<1>6. CASE Restart
  BY <1>6 DEF Restart, Resting
<1>7. CASE UNCHANGED vars
  BY <1>7
<1> QED
  BY <1>1, <1>2, <1>3, <1>4, <1>5, <1>6, <1>7 DEF Next, Run
-----------------------------------------------------------------------------
(* The log of ticks, and what a store does to it.                          *)

LEMMA StoreLogs ==
  ASSUME EngineType, PollInv, LogInv, Store, NEW t, t = Head(worker.snaps)
  PROVE  /\ t \in Traded /\ t.day = clock.day /\ t.day = worker.lastDay
         /\ worker.updates # <<>> /\ worker.updates[1] = t
         /\ worker'.lastDay = worker.lastDay /\ worker'.updates = worker.updates /\ worker'.snaps = <<>>
         /\ hist' = IF Here THEN Append(hist, t) ELSE <<t>>
         /\ ring' = Put(ring, t)
<1>1. worker \in Worker /\ worker.snaps \in Hands /\ worker.snaps # <<>>
  BY DEF EngineType, Worker, Store
<1>2. t \in Traded /\ worker.snaps[1] = t /\ Tail(worker.snaps) = <<>>
  BY <1>1, InHand
<1>3. worker.updates = worker.snaps
  BY <1>1 DEF PollInv
<1>4. t.day = clock.day /\ worker.lastDay = clock.day
  BY <1>1, <1>2, <1>3 DEF PollInv, Store
<1>5. worker'.lastDay = worker.lastDay /\ worker'.updates = worker.updates /\ worker'.snaps = <<>>
  BY <1>1, <1>2 DEF Store, Worker
<1>6. hist' = Logged(t) /\ ring' = Put(ring, t)
  BY DEF Store
<1>7. Logged(t) = IF Here THEN Append(hist, t) ELSE <<t>>
  <2>1. Append(<<>>, t) = <<t>>
    OBVIOUS
  <2> QED BY <1>4, <2>1 DEF Logged, Here
<1> QED BY <1>1, <1>2, <1>3, <1>4, <1>5, <1>6, <1>7

(* Only a store and a restart touch the log and the ring's last day.       *)
LEMMA OnlyStoreLogs ==
  ASSUME EngineType, [Next]_vars, ~Store, ~Restart
  PROVE  hist' = hist
BY DEF Next, Run, LookIdle, Look, Send, PollFails, PollAnswered, Update, Healthy, SetActiveWatchlist, Tick

LEMMA NextLog == EngineType /\ PollInv /\ LogInv /\ [Next]_vars => LogInv'
<1> SUFFICES ASSUME EngineType, PollInv, LogInv, [Next]_vars PROVE LogInv'
  OBVIOUS
<1>0. /\ worker \in Worker /\ worker.lastDay \in Int /\ clock.day \in Int
      /\ hist \in Seq(Traded) /\ Len(hist) \in Nat
  <2>1. /\ clock.day \in Days /\ worker.lastDay \in Days \cup {0} /\ worker \in Worker
        /\ hist \in Seq(Traded)
    BY DEF EngineType, Worker
  <2> QED BY <2>1, DaysAndVolumes
<1>1. CASE Restart
  BY <1>1 DEF Restart, LogInv
<1>2. CASE Store
  <2> DEFINE t == Head(worker.snaps)
  <2>1. /\ t \in Traded /\ t.day = clock.day /\ t.day = worker.lastDay
        /\ worker'.lastDay = worker.lastDay
        /\ hist' = IF Here THEN Append(hist, t) ELSE <<t>>
    BY <1>2, StoreLogs
  <2> HIDE DEF t
  <2>3. CASE Here
    <3>1. /\ Len(hist') = Len(hist) + 1 /\ hist'[Len(hist) + 1] = t
          /\ \A i \in 1..Len(hist) : hist'[i] = hist[i]
          /\ Len(hist) > 0
      BY <1>0, <2>1, <2>3 DEF Here
    <3>2. hist[1].day = t.day
      BY <2>1, <2>3 DEF Here
    <3> QED BY <1>0, <2>1, <3>1, <3>2 DEF LogInv
  <2>4. CASE ~Here
    <3>1. Len(hist') = 1 /\ hist'[1] = t
      BY <2>1, <2>4
    <3> QED BY <1>0, <2>1, <3>1 DEF LogInv
  <2> QED BY <2>3, <2>4
<1>3. CASE ~Store /\ ~Restart
  <2>1. hist' = hist
    BY <1>3, OnlyStoreLogs
  <2>2. worker'.lastDay >= worker.lastDay /\ (hist # <<>> => hist[1].day <= worker'.lastDay)
    <3>1. worker'.lastDay = worker.lastDay \/ worker'.lastDay = clock.day
      BY <1>0, <1>3 DEF Next, Run, LookIdle, Look, Send, PollFails, PollAnswered, Answered, Update, Healthy,
                        SetActiveWatchlist, Tick, Worker
    <3>2. hist # <<>> => hist[1].day \in Int
      <4>1. hist # <<>> => hist[1] \in Traded
        BY <1>0
      <4>2. Days \subseteq Int
        BY Numbers
      <4> QED BY <4>1, <4>2 DEF Traded
    <3> QED BY <1>0, <3>1, <3>2 DEF PollInv, LogInv
  <2> QED BY <2>1, <2>2 DEF LogInv
<1> QED BY <1>1, <1>2, <1>3
-----------------------------------------------------------------------------
(* The ring: going round in it.                                            *)

LEMMA WrapAround ==
  ASSUME NEW x \in 0..2 * Capacity - 1
  PROVE  x % Capacity = IF x < Capacity THEN x ELSE x - Capacity
<1>1. Capacity \in Nat /\ Capacity > 0
  BY EngineAssumption
<1> QED BY <1>1

(* One more tick: it has the newest slot, and the others are one further.  *)
LEMMA SlotsMove ==
  ASSUME NEW h \in 0..Capacity - 1, NEW g, g = (h + 1) % Capacity
  PROVE  /\ g \in 0..Capacity - 1 /\ Slot(g, 0) = h
         /\ \A j \in 1..Capacity - 1 :
              /\ Slot(g, j) = Slot(h, j - 1) /\ Slot(h, j - 1) # h
              /\ Slot(h, j - 1) \in 0..Capacity - 1
<1>1. Capacity \in Nat /\ Capacity > 0
  BY EngineAssumption
<1>2. g = IF h + 1 < Capacity THEN h + 1 ELSE 0
  BY <1>1, WrapAround
<1> QED BY <1>1, <1>2 DEF Slot

LEMMA NextRing == EngineType /\ PollInv /\ LogInv /\ RingInv /\ [Next]_vars => RingInv'
<1> SUFFICES ASSUME EngineType, PollInv, LogInv, RingInv, [Next]_vars PROVE RingInv'
  OBVIOUS
<1>0. /\ worker \in Worker /\ ring \in Ring /\ Capacity \in Nat /\ Capacity > 0
      /\ hist \in Seq(Traded) /\ Len(hist) \in Nat
      /\ ring.head \in 0..Capacity - 1 /\ ring.n \in 0..Capacity
      /\ ring.buf \in [0..Capacity - 1 -> Ticks]
  BY EngineAssumption DEF EngineType, Ring
<1>1. CASE Restart
  BY <1>1 DEF Restart, RingInv, EmptyRing, Here
<1>2. CASE Store
  <2> DEFINE t == Head(worker.snaps)
             g == (ring.head + 1) % Capacity
  <2>1. /\ t \in Traded /\ t.day = worker.lastDay
        /\ worker'.lastDay = worker.lastDay
        /\ hist' = IF Here THEN Append(hist, t) ELSE <<t>>
        /\ ring' = Put(ring, t)
    BY <1>2, StoreLogs
  <2> HIDE DEF t
  <2>2. /\ ring'.buf = [ring.buf EXCEPT ![ring.head] = t] /\ ring'.head = g
        /\ ring'.n = IF ring.n < Capacity THEN ring.n + 1 ELSE ring.n
    BY <2>1 DEF Put
  <2>3. /\ g \in 0..Capacity - 1 /\ Slot(g, 0) = ring.head
        /\ \A j \in 1..Capacity - 1 :
             /\ Slot(g, j) = Slot(ring.head, j - 1) /\ Slot(ring.head, j - 1) # ring.head
             /\ Slot(ring.head, j - 1) \in 0..Capacity - 1
    BY <1>0, SlotsMove
  <2> HIDE DEF g
  <2>4. ring'.buf[Slot(g, 0)] = t
    BY <1>0, <2>2, <2>3
  <2>5. \A j \in 1..Capacity - 1 : ring'.buf[Slot(g, j)] = ring.buf[Slot(ring.head, j - 1)]
    BY <1>0, <2>2, <2>3
  <2>6. CASE Here
    <3>1. /\ hist' = Append(hist, t) /\ Len(hist') = Len(hist) + 1 /\ hist'[Len(hist) + 1] = t
          /\ \A i \in 1..Len(hist) : hist'[i] = hist[i]
          /\ Len(hist) > 0 /\ hist' # <<>>
      BY <1>0, <2>1, <2>6 DEF Here
    <3>2. Here'
      BY <2>1, <2>6, <3>1 DEF Here
    <3>3. ring.n = Smaller(Len(hist), Capacity) /\ ring'.n = Smaller(Len(hist'), Capacity)
      BY <1>0, <2>2, <2>6, <3>1 DEF RingInv, Smaller
    <3>4. ASSUME NEW j \in 0..ring'.n - 1 PROVE ring'.buf[Slot(g, j)] = hist'[Len(hist') - j]
      <4>1. CASE j = 0
        BY <1>0, <2>4, <3>1, <4>1
      <4>2. CASE j # 0
        <5>1. j \in 1..Capacity - 1 /\ j - 1 \in 0..ring.n - 1 /\ Len(hist) - (j - 1) \in 1..Len(hist)
          BY <1>0, <3>1, <3>3, <4>2 DEF Smaller
        <5>2. ring.buf[Slot(ring.head, j - 1)] = hist[Len(hist) - (j - 1)]
          BY <5>1 DEF RingInv
        <5>3. Len(hist') - j = Len(hist) - (j - 1)
          BY <1>0, <3>1, <5>1
        <5> QED BY <2>5, <3>1, <5>1, <5>2, <5>3
      <4> QED BY <4>1, <4>2
    <3> QED BY <2>2, <3>2, <3>3, <3>4 DEF RingInv
  <2>7. CASE ~Here
    <3>1. hist' = <<t>> /\ Len(hist') = 1 /\ hist'[1] = t /\ hist' # <<>>
      BY <2>1, <2>7
    <3>2. Here'
      BY <2>1, <3>1 DEF Here
    <3>3. ring'.n = 1 /\ Smaller(Len(hist'), Capacity) = 1
      BY <1>0, <2>2, <2>7, <3>1 DEF RingInv, Smaller
    <3> QED BY <2>2, <2>4, <3>1, <3>2, <3>3 DEF RingInv
  <2> QED BY <2>6, <2>7
<1>3. CASE Look
  <2>1. hist' = hist /\ worker'.lastDay = clock.day
    BY <1>0, <1>3 DEF Look, Worker
  <2>2. CASE clock.day = worker.lastDay
    <3>1. ring' = ring /\ (Here' <=> Here)
      BY <1>3, <2>1, <2>2 DEF Look, RingFor, Here
    <3> QED BY <2>1, <3>1 DEF RingInv
  <2>3. CASE clock.day # worker.lastDay
    <3>1. ring'.n = 0
      BY <1>0, <1>3, <2>3 DEF Look, RingFor, Cleared, Ring
    <3>2. ~Here'
      <4>1. clock.day \in Int /\ worker.lastDay \in Int
        <5>1. clock.day \in Days /\ worker.lastDay \in Days \cup {0}
          BY DEF EngineType, Worker
        <5> QED BY <5>1, DaysAndVolumes
      <4>2. hist # <<>> => hist[1].day \in Int
        BY <1>0, DaysAndVolumes
      <4> QED BY <2>1, <2>3, <4>1, <4>2 DEF Here, LogInv, PollInv
    <3> QED BY <3>1, <3>2 DEF RingInv
  <2> QED BY <2>2, <2>3
<1>4. CASE ~Restart /\ ~Store /\ ~Look
  <2>1. ring' = ring /\ hist' = hist
    BY <1>4 DEF Next, Run, LookIdle, Send, PollFails, PollAnswered, Update, Healthy, SetActiveWatchlist, Tick
  <2>2. worker'.lastDay = worker.lastDay
    BY <1>0, <1>4 DEF Next, Run, LookIdle, Send, PollFails, PollAnswered, Answered, Update, Healthy,
                      SetActiveWatchlist, Tick, Worker
  <2>3. Here' <=> Here
    BY <2>1, <2>2 DEF Here
  <2> QED BY <2>1, <2>3 DEF RingInv
<1> QED BY <1>1, <1>2, <1>3, <1>4
-----------------------------------------------------------------------------
(* The tracker.                                                            *)

(* Whether a tracker accounts for ticks depends on these ticks alone.      *)
LEMMA CoversSame ==
  ASSUME NEW tr, NEW log, NEW other, NEW k \in Nat, k > 0, \A i \in 1..k : other[i] = log[i],
         1..k \subseteq DOMAIN log, 1..k \subseteq DOMAIN other, Covers(tr, log, k)
  PROVE  Covers(tr, other, k)
<1>1. \A i \in 1..k : Gains(other)[i] = Gains(log)[i]
  <2> SUFFICES ASSUME NEW i \in 1..k PROVE Gains(other)[i] = Gains(log)[i]
    OBVIOUS
  <2>1. i # 1 => other[i - 1] = log[i - 1]
    OBVIOUS
  <2> QED BY <2>1 DEF Gains
<1>2. \A i \in 1..k : Worths(other)[i] = Worths(log)[i]
  BY <1>1 DEF Worths
<1>3. \A s : Sums(s, Gains(log), k) => Sums(s, Gains(other), k)
  BY <1>1 DEF Sums
<1>4. \A s : Sums(s, Worths(log), k) => Sums(s, Worths(other), k)
  BY <1>2 DEF Sums
<1>5. other[1] = log[1] /\ other[k] = log[k]
  OBVIOUS
<1>6. (\A i \in 1..k - 1 : other[i].cum <= other[i + 1].cum) => \A i \in 1..k - 1 : log[i].cum <= log[i + 1].cum
  <2>1. \A i \in 1..k - 1 : other[i] = log[i] /\ other[i + 1] = log[i + 1]
    OBVIOUS
  <2> QED BY <2>1
<1> QED BY <1>3, <1>4, <1>5, <1>6 DEF Covers

(* One more tick at a price within the bounds, which may be wider now, and *)
(* the average stays within them.                                          *)
LEMMA AverageBetween ==
  ASSUME NEW pv \in Int, NEW vol \in Nat, NEW dv \in Nat, NEW p \in Int, NEW a \in Int, NEW b \in Int,
         NEW lo \in Int, NEW hi \in Int, a * vol <= pv, pv <= b * vol, lo <= a, b <= hi, lo <= p, p <= hi
  PROVE  lo * (vol + dv) <= pv + p * dv /\ pv + p * dv <= hi * (vol + dv)
<1>1. \A x, y \in Int, n \in Nat : x <= y => x * n <= y * n
  OBVIOUS
<1>2. lo * vol <= a * vol /\ b * vol <= hi * vol /\ lo * dv <= p * dv /\ p * dv <= hi * dv
  BY <1>1
<1>3. lo * (vol + dv) = lo * vol + lo * dv /\ hi * (vol + dv) = hi * vol + hi * dv
  OBVIOUS
<1>4. /\ lo * vol \in Int /\ lo * dv \in Int /\ hi * vol \in Int /\ hi * dv \in Int
      /\ a * vol \in Int /\ b * vol \in Int /\ p * dv \in Int
  OBVIOUS
<1> QED BY <1>2, <1>3, <1>4

(* The first tick of a day starts the sums anew.                           *)
LEMMA CoversFirst ==
  ASSUME NEW tr \in Tracker, NEW t \in Traded, tr.day # t.day
  PROVE  Covers(Updated(tr, t), <<t>>, 1)
<1>1. t.day \in Int /\ t.last \in Int /\ t.cum \in Int /\ t.cum >= 0
  <2>1. t.cum \in 0..MaxVol
    BY DEF Traded
  <2> QED BY <2>1, DaysAndVolumes, Numbers
<1> DEFINE u == Updated(tr, t)
           w == t.last * t.cum
<1>2. /\ u.day = t.day /\ u.prev = t.cum /\ u.vol = t.cum /\ u.pv = t.last * t.cum
      /\ u.high = t.last /\ u.low = t.last
  BY <1>1 DEF Updated, OnItsDay, Larger, Smaller
<1>3. w \in Int
  BY <1>1
<1>4. Gains(<<t>>)[1] = t.cum /\ Worths(<<t>>)[1] = w
  <2>1. DOMAIN <<t>> = {1} /\ <<t>>[1] = t
    OBVIOUS
  <2>2. Gains(<<t>>)[1] = t.cum
    BY <1>1, <2>1 DEF Gains, Larger
  <2> QED BY <2>1, <2>2 DEF Worths
<1> HIDE DEF u, w
<1>5. \E v \in [0..1 -> Int] : Sums(v, Gains(<<t>>), 1) /\ u.vol = v[1]
  <2> DEFINE v == [j \in 0..1 |-> IF j = 0 THEN 0 ELSE t.cum]
  <2>1. v \in [0..1 -> Int] /\ v[0] = 0 /\ v[1] = t.cum
    BY <1>1
  <2> HIDE DEF v
  <2>2. Sums(v, Gains(<<t>>), 1)
    BY <1>1, <1>4, <2>1 DEF Sums
  <2> QED BY <1>2, <2>1, <2>2
<1>6. \E s \in [0..1 -> Int] : Sums(s, Worths(<<t>>), 1) /\ u.pv = s[1]
  <2> DEFINE s == [j \in 0..1 |-> IF j = 0 THEN 0 ELSE w]
  <2>1. s \in [0..1 -> Int] /\ s[0] = 0 /\ s[1] = w
    BY <1>3
  <2> HIDE DEF s
  <2>2. Sums(s, Worths(<<t>>), 1)
    BY <1>3, <1>4, <2>1 DEF Sums
  <2> QED BY <1>2, <2>1, <2>2 DEF w
<1>7. Between(u)
  BY <1>2, <1>3 DEF w, Between
<1>8. /\ u.day = <<t>>[1].day /\ u.prev = <<t>>[1].cum /\ u.vol = <<t>>[1].cum
      /\ \A i \in 1..1 : u.low <= <<t>>[i].last /\ <<t>>[i].last <= u.high /\ <<t>>[i].cum <= u.vol
  <2>1. <<t>>[1] = t
    OBVIOUS
  <2>2. u.low <= t.last /\ t.last <= u.high /\ t.cum <= u.vol
    BY <1>1, <1>2
  <2> QED BY <1>2, <2>1, <2>2
<1> QED BY <1>5, <1>6, <1>7, <1>8 DEF Covers, u

(* Sums of k - 1 terms and the term after them.                            *)
LEMMA OneMore ==
  ASSUME NEW k \in Nat, k > 0, NEW terms, terms[k] \in Int,
         NEW s \in [0..k - 1 -> Int], Sums(s, terms, k - 1)
  PROVE  \E z \in [0..k -> Int] : Sums(z, terms, k) /\ z[k] = s[k - 1] + terms[k]
<1> DEFINE z == [j \in 0..k |-> IF j < k THEN s[j] ELSE s[k - 1] + terms[k]]
<1>1. z \in [0..k -> Int] /\ z[k] = s[k - 1] + terms[k] /\ \A j \in 0..k - 1 : z[j] = s[j]
  OBVIOUS
<1> HIDE DEF z
<1>2. z[0] = 0 /\ \A j \in 1..k - 1 : z[j] = z[j - 1] + terms[j]
  BY <1>1 DEF Sums
<1>3. z[k] = z[k - 1] + terms[k]
  BY <1>1
<1>4. Sums(z, terms, k)
  BY <1>2, <1>3 DEF Sums
<1> QED BY <1>1, <1>4

(* A later one adds the volume since the tick before, at its own price.    *)
LEMMA CoversNext ==
  ASSUME NEW tr \in Tracker, NEW log \in Seq(Traded), NEW k \in Nat, k = Len(log), k > 1,
         Covers(tr, log, k - 1), log[k].day = log[1].day
  PROVE  Covers(Updated(tr, log[k]), log, k)
<1> DEFINE t == log[k]
           b == log[k - 1]
           u == Updated(tr, t)
<1>1. /\ t.day \in Int /\ t.last \in Int /\ t.cum \in Int /\ b.cum \in Int /\ t.cum >= 0 /\ b.cum >= 0
      /\ \A i \in 1..k : log[i].last \in Int /\ log[i].cum \in Int
  <2>1. \A i \in 1..k : log[i] \in Traded
    OBVIOUS
  <2>2. t.cum \in 0..MaxVol /\ b.cum \in 0..MaxVol
    BY <2>1 DEF Traded
  <2> QED BY <2>1, <2>2, DaysAndVolumes, Numbers
<1>2. /\ tr.day = t.day /\ tr.prev = b.cum /\ b.cum <= tr.vol
      /\ \A i \in 1..k - 1 : tr.low <= log[i].last /\ log[i].last <= tr.high /\ log[i].cum <= tr.vol
      /\ tr.pv \in Int /\ tr.vol \in Int /\ tr.high \in Int /\ tr.low \in Int
      /\ Between(tr)
  BY DEF Covers, Tracker
<1>3. PICK v \in [0..k - 1 -> Int] : Sums(v, Gains(log), k - 1) /\ tr.vol = v[k - 1]
  BY DEF Covers
<1>4. PICK s \in [0..k - 1 -> Int] : Sums(s, Worths(log), k - 1) /\ tr.pv = s[k - 1]
  BY DEF Covers
<1> DEFINE dv == IF tr.prev = 0 THEN t.cum ELSE Larger(t.cum - tr.prev, 0)
<1>5. dv = Larger(t.cum - b.cum, 0)
  BY <1>1, <1>2 DEF Larger
<1>6. u = [tr EXCEPT !.pv = @ + t.last * dv, !.vol = @ + dv, !.prev = t.cum,
                     !.high = Larger(@, t.last), !.low = Smaller(@, t.last)]
  BY <1>2 DEF Updated, OnItsDay
<1>7. Gains(log)[k] = dv /\ Worths(log)[k] = t.last * dv
  <2>1. k \in DOMAIN log /\ k # 1
    OBVIOUS
  <2>2. Gains(log)[k] = Larger(log[k].cum - log[k - 1].cum, 0)
    BY <2>1 DEF Gains
  <2>3. Worths(log)[k] = log[k].last * Gains(log)[k]
    BY <2>1 DEF Worths
  <2>4. Gains(log)[k] = dv
    BY <1>5, <2>2
  <2> QED BY <2>3, <2>4
<1> HIDE DEF dv, u, t, b
<1>8. /\ u.day = tr.day /\ u.prev = t.cum /\ u.vol = tr.vol + dv /\ u.pv = tr.pv + t.last * dv
      /\ u.high = Larger(tr.high, t.last) /\ u.low = Smaller(tr.low, t.last)
  BY <1>6 DEF Tracker
<1>9. dv \in Nat /\ tr.vol \in Nat /\ t.last * dv \in Int
  <2>1. dv \in Nat
    BY <1>1, <1>5 DEF Larger
  <2>2. t.last * dv \in Int
    BY <1>1, <2>1
  <2> QED BY <1>1, <1>2, <2>1, <2>2
<1>10. /\ u.low <= tr.low /\ tr.high <= u.high /\ u.low <= t.last /\ t.last <= u.high
       /\ tr.vol <= u.vol /\ t.cum <= u.vol
       /\ u.low \in Int /\ u.high \in Int /\ u.vol \in Int
  <2>1. tr.vol + dv >= tr.vol /\ tr.vol + dv >= t.cum
    BY <1>1, <1>2, <1>5, <1>9 DEF Larger
  <2>2. u.vol \in Int /\ u.vol >= tr.vol /\ u.vol >= t.cum
    BY <1>2, <1>8, <1>9, <2>1
  <2>4. tr.high \in Int /\ tr.low \in Int /\ t.last \in Int /\ tr.vol \in Int /\ t.cum \in Int
    BY <1>1, <1>2
  <2>5. u.high = Larger(tr.high, t.last) /\ u.low = Smaller(tr.low, t.last)
    BY <1>8
  <2>6. tr.vol <= u.vol /\ t.cum <= u.vol
    BY <2>2, <2>4
  <2>7. u.high \in Int /\ tr.high <= u.high /\ t.last <= u.high
    BY <2>4, <2>5 DEF Larger
  <2>8. u.low \in Int /\ u.low <= tr.low /\ u.low <= t.last
    BY <2>4, <2>5 DEF Smaller
  <2> QED BY <2>2, <2>6, <2>7, <2>8
<1>11. \A i \in 1..k : /\ u.low <= log[i].last /\ log[i].last <= u.high
                       /\ log[i].cum <= u.vol
  <2> SUFFICES ASSUME NEW i \in 1..k
               PROVE  u.low <= log[i].last /\ log[i].last <= u.high /\ log[i].cum <= u.vol
    OBVIOUS
  <2>1. i \in 1..k - 1 \/ log[i] = t
    BY DEF t
  <2>2. CASE i \in 1..k - 1
    <3>1. tr.low <= log[i].last /\ log[i].last <= tr.high /\ log[i].cum <= tr.vol
      BY <1>2, <2>2
    <3>2. log[i].last \in Int /\ log[i].cum \in Int
      BY <1>1
    <3>3. \A x, y, z \in Int : x <= y /\ y <= z => x <= z
      OBVIOUS
    <3>4. tr.low \in Int /\ tr.high \in Int /\ tr.vol \in Int
      BY <1>2
    <3> QED BY <1>10, <3>1, <3>2, <3>3, <3>4
  <2>3. CASE log[i] = t
    BY <1>10, <2>3
  <2> QED BY <2>1, <2>2, <2>3
<1>12. Between(u)
  <2>2. /\ u.low * (tr.vol + dv) <= tr.pv + t.last * dv
        /\ tr.pv + t.last * dv <= u.high * (tr.vol + dv)
    <3>1. tr.low * tr.vol <= tr.pv /\ tr.pv <= tr.high * tr.vol
      BY <1>2 DEF Between
    <3> QED BY <1>1, <1>2, <1>9, <1>10, <3>1, AverageBetween
  <2> QED BY <1>8, <2>2 DEF Between
<1>13. (\A i \in 1..k - 1 : log[i].cum <= log[i + 1].cum) => u.vol = t.cum
  <2> SUFFICES ASSUME \A i \in 1..k - 1 : log[i].cum <= log[i + 1].cum
               PROVE  u.vol = t.cum
    OBVIOUS
  <2>1. \A i \in 1..k - 2 : log[i].cum <= log[i + 1].cum
    OBVIOUS
  <2>2. tr.vol = b.cum
    BY <2>1 DEF Covers, b
  <2>3. b.cum <= t.cum
    BY DEF b, t
  <2> QED BY <1>1, <1>5, <1>8, <2>2, <2>3 DEF Larger
<1>14. \E z \in [0..k -> Int] : Sums(z, Gains(log), k) /\ u.vol = z[k]
  <2> DEFINE g == Gains(log)
  <2>1. g[k] \in Int /\ Sums(v, g, k - 1) /\ u.vol = v[k - 1] + g[k]
    BY <1>3, <1>7, <1>8, <1>9
  <2> HIDE DEF g
  <2>2. \E z \in [0..k -> Int] : Sums(z, g, k) /\ z[k] = v[k - 1] + g[k]
    <3>1. k > 0 /\ v \in [0..k - 1 -> Int]
      OBVIOUS
    <3> QED BY <2>1, <3>1, OneMore, Zenon
  <2> QED BY <2>1, <2>2 DEF g
<1>15. \E z \in [0..k -> Int] : Sums(z, Worths(log), k) /\ u.pv = z[k]
  <2> DEFINE w == Worths(log)
  <2>1. w[k] \in Int /\ Sums(s, w, k - 1) /\ u.pv = s[k - 1] + w[k]
    BY <1>4, <1>7, <1>8, <1>9
  <2> HIDE DEF w
  <2>2. \E z \in [0..k -> Int] : Sums(z, w, k) /\ z[k] = s[k - 1] + w[k]
    <3>1. k > 0 /\ s \in [0..k - 1 -> Int]
      OBVIOUS
    <3> QED BY <2>1, <3>1, OneMore, Zenon
  <2> QED BY <2>1, <2>2 DEF w
<1> QED BY <1>2, <1>8, <1>11, <1>12, <1>13, <1>14, <1>15 DEF Covers, t, u

LEMMA NextTracker == EngineType /\ PollInv /\ LogInv /\ TrackerInv /\ [Next]_vars => TrackerInv'
<1> SUFFICES ASSUME EngineType, PollInv, LogInv, TrackerInv, [Next]_vars PROVE TrackerInv'
  OBVIOUS
<1>0. /\ worker \in Worker /\ tracker \in Tracker /\ hist \in Seq(Traded) /\ Len(hist) \in Nat
      /\ clock.day \in Days /\ clock \in [day : Days, part : Parts]
  BY DEF EngineType
<1>1. CASE Restart
  BY <1>1 DEF Restart, TrackerInv, Lagging, Resting, NoTracker
<1>2. CASE Store
  <2> DEFINE t == Head(worker.snaps)
  <2>1. /\ t.day = clock.day /\ t.day = worker.lastDay /\ t \in Traded
        /\ worker'.updates = worker.updates /\ worker.updates # <<>> /\ worker.updates[1] = t
        /\ worker'.snaps = <<>>
        /\ hist' = IF Here THEN Append(hist, t) ELSE <<t>>
    BY <1>2, StoreLogs
  <2> HIDE DEF t
  <2>2. ~Lagging /\ tracker' = tracker /\ clock' = clock
    BY <1>2 DEF Store, Lagging
  <2>3. Lagging' /\ hist' # <<>> /\ hist'[Len(hist')] = worker'.updates[1]
    <3>1. hist' # <<>> /\ hist'[Len(hist')] = t
      BY <1>0, <2>1
    <3> QED BY <2>1, <3>1 DEF Lagging
  <2>4. CASE Here
    <3>1. /\ Len(hist') = Len(hist) + 1 /\ Len(hist) > 0
          /\ \A i \in 1..Len(hist) : hist'[i] = hist[i]
      BY <1>0, <2>1, <2>4 DEF Here
    <3>2. Covers(tracker, hist, Len(hist))
      BY <2>2, <2>4 DEF TrackerInv, Here
    <3>3. 1..Len(hist) \subseteq DOMAIN hist /\ 1..Len(hist) \subseteq DOMAIN hist'
      BY <1>0, <2>1, <2>4
    <3>4. Covers(tracker', hist', Len(hist))
      BY <1>0, <2>2, <3>1, <3>2, <3>3, CoversSame
    <3>5. Len(hist') - 1 = Len(hist) /\ Len(hist') # 1
      BY <1>0, <3>1
    <3> QED BY <2>3, <3>4, <3>5 DEF TrackerInv
  <2>5. CASE ~Here
    <3>1. Len(hist') = 1
      BY <2>1, <2>5
    <3>2. tracker.day # clock.day
      <4>1. CASE hist = <<>>
        <5>1. 0 \notin Days
          BY Numbers
        <5> QED BY <1>0, <2>2, <4>1, <5>1 DEF TrackerInv
      <4>2. CASE hist # <<>>
        BY <2>1, <2>2, <2>5, <4>2 DEF TrackerInv, Covers, Here
      <4> QED BY <4>1, <4>2
    <3> QED BY <2>2, <2>3, <3>1, <3>2 DEF TrackerInv
  <2> QED BY <2>4, <2>5
<1>3. CASE Update
  <2> DEFINE t == Head(worker.updates)
  <2>1. /\ worker.updates \in Hands /\ worker.updates # <<>> /\ worker.snaps = <<>>
    BY <1>0, <1>3 DEF Update, Worker
  <2>2. t \in Traded /\ worker.updates[1] = t /\ Tail(worker.updates) = <<>>
    BY <2>1, InHand
  <2>3. Lagging /\ tracker' = Updated(tracker, t) /\ hist' = hist
    BY <1>3, <2>1 DEF Update, Lagging
  <2>4. ~Lagging'
    BY <1>0, <1>3, <2>2 DEF Update, Lagging, Worker
  <2>5. hist # <<>> /\ hist[Len(hist)] = t /\ t.day = clock.day
    BY <2>1, <2>2, <2>3 DEF TrackerInv, PollInv
  <2> HIDE DEF t
  <2>6. CASE Len(hist) = 1
    <3>1. hist = <<t>>
      BY <1>0, <2>2, <2>5, <2>6
    <3>2. tracker.day # t.day
      BY <2>3, <2>5, <2>6 DEF TrackerInv
    <3>3. Covers(tracker', <<t>>, 1)
      BY <1>0, <2>2, <2>3, <3>2, CoversFirst
    <3> QED BY <2>3, <2>4, <2>5, <2>6, <3>1, <3>3 DEF TrackerInv
  <2>7. CASE Len(hist) # 1
    <3>1. Len(hist) > 1
      <4>1. Len(hist) # 0
        BY <1>0, <2>5
      <4>2. Len(hist) \in Nat
        BY <1>0
      <4> QED BY <2>7, <4>1, <4>2
    <3>2. Covers(tracker, hist, Len(hist) - 1)
      BY <2>3, <2>5, <2>7 DEF TrackerInv
    <3>3. hist[Len(hist)].day = hist[1].day
      BY <1>0, <3>1 DEF LogInv
    <3>4. Covers(Updated(tracker, t), hist, Len(hist))
      BY <1>0, <2>5, <3>1, <3>2, <3>3, CoversNext
    <3> QED BY <2>3, <2>4, <2>5, <3>4 DEF TrackerInv
  <2> QED BY <2>6, <2>7
<1>4. CASE PollAnswered
  <2>1. worker'.snaps = worker'.updates
    BY <1>0, <1>4 DEF PollAnswered, Answered, Worker
  <2>2. worker.updates = <<>>
    BY <1>4 DEF PollAnswered, PollInv
  <2>3. ~Lagging /\ ~Lagging'
    BY <2>1, <2>2 DEF Lagging
  <2>4. tracker' = tracker /\ hist' = hist
    BY <1>4 DEF PollAnswered
  <2> QED BY <2>3, <2>4 DEF TrackerInv
<1>5. CASE ~Restart /\ ~Store /\ ~Update /\ ~PollAnswered
  <2>1. tracker' = tracker /\ hist' = hist
    BY <1>5 DEF Next, Run, LookIdle, Look, Send, PollFails, Healthy, SetActiveWatchlist, Tick
  <2>2. worker'.updates = worker.updates /\ worker'.snaps = worker.snaps
    BY <1>0, <1>5 DEF Next, Run, LookIdle, Look, Send, PollFails, Healthy, SetActiveWatchlist, Tick, Worker
  <2>3. Lagging => clock'.day = clock.day
    <3>1. CASE Tick
      <4>1. Lagging => worker.pc # "look"
        BY DEF Lagging, PollInv
      <4> QED BY <1>0, <3>1, <4>1 DEF Tick
    <3>2. CASE ~Tick
      BY <1>5, <3>2 DEF Next, Run, LookIdle, Look, Send, PollFails, Healthy, SetActiveWatchlist
    <3> QED BY <3>1, <3>2
  <2>4. Lagging' <=> Lagging
    BY <2>2 DEF Lagging
  <2> QED BY <2>1, <2>2, <2>3, <2>4 DEF TrackerInv
<1> QED BY <1>1, <1>2, <1>3, <1>4, <1>5

LEMMA InitEngine == Init => EngineInv
<1> SUFFICES ASSUME Init PROVE EngineInv
  OBVIOUS
<1>1. EngineType
  BY InitType
<1>2. /\ worker = Resting /\ clock.day = 1 /\ hist = <<>> /\ ring = EmptyRing /\ tracker = NoTracker
      /\ streak = 0 /\ degraded = FALSE
  BY DEF Init
<1>3. /\ worker.pc = "look" /\ worker.lastDay = 0 /\ worker.updates = <<>> /\ worker.snaps = <<>>
      /\ worker.failures = 0
  BY <1>2 DEF Resting
<1>4. PollInv /\ FailuresInv
  BY <1>2, <1>3 DEF PollInv, FailuresInv
<1>5. LogInv /\ TrackerInv
  BY <1>2, <1>3 DEF LogInv, TrackerInv, Lagging, NoTracker
<1>6. RingInv
  BY <1>2 DEF RingInv, Here, EmptyRing
<1> QED BY <1>1, <1>4, <1>5, <1>6 DEF EngineInv

LEMMA EngineInvariant == Spec => []EngineInv
<1>1. EngineInv /\ [Next]_vars => EngineInv'
  BY NextType, NextPoll, NextLog, NextFailures, NextRing, NextTracker DEF EngineInv
<1> QED BY InitEngine, <1>1, PTL DEF Spec
-----------------------------------------------------------------------------
(* The types of all that the engine keeps.                                 *)
THEOREM TypeCorrect == Spec => []TypeOK
<1>1. EngineInv => TypeOK
  BY DEF EngineInv, EngineType, PollInv, TypeOK, Worker, Ring, Tracker
<1> QED BY <1>1, EngineInvariant, PTL

(* The engine is called degraded only after the limit of polls in a row    *)
(* failed, with none that worked and no idle hour between (fail, Run).     *)
THEOREM Degraded == Spec => []DegradedMeansFailures
<1>1. EngineInv => DegradedMeansFailures
  BY DEF EngineInv, FailuresInv, DegradedMeansFailures
<1> QED BY <1>1, EngineInvariant, PTL

(* Whatever the size of the ring and however often it went round, a tool   *)
(* reads the newest snapshots of one day, in their order and none missing  *)
(* (Append, Snapshots, Reset, Run).                                        *)
THEOREM NewestSnapshots == Spec => []RingIsTail
<1>1. EngineInv => RingIsTail
  <2> SUFFICES ASSUME EngineInv
               PROVE  Snapshots(ring) = IF Here THEN LastTicks(Smaller(Len(hist), Capacity)) ELSE <<>>
    BY DEF RingIsTail, Here
  <2>1. /\ Capacity \in Nat /\ Capacity > 0 /\ hist \in Seq(Traded) /\ Len(hist) \in Nat
        /\ ring.head \in 0..Capacity - 1 /\ ring.n \in 0..Capacity
    BY EngineAssumption DEF EngineInv, EngineType, Ring
  <2>2. /\ ring.n = IF Here THEN Smaller(Len(hist), Capacity) ELSE 0
        /\ \A j \in 0..ring.n - 1 : ring.buf[Slot(ring.head, j)] = hist[Len(hist) - j]
    BY DEF EngineInv, RingInv
  <2>3. ASSUME NEW i \in 1..ring.n
        PROVE  /\ (ring.head - ring.n + i - 1 + Capacity) % Capacity = Slot(ring.head, ring.n - i)
               /\ ring.n - i \in 0..ring.n - 1
    <3>1. ring.head - ring.n + i - 1 + Capacity \in 0..2 * Capacity - 1
      BY <2>1
    <3>2. ring.n - i \in 0..ring.n - 1
      BY <2>1
    <3>3. ring.head \in Int /\ ring.n \in Int /\ i \in Int /\ Capacity \in Int
      BY <2>1
    <3>4. (ring.head - ring.n + i - 1 + Capacity) % Capacity =
            IF ring.head - ring.n + i - 1 + Capacity < Capacity
            THEN ring.head - ring.n + i - 1 + Capacity
            ELSE ring.head - ring.n + i - 1 + Capacity - Capacity
      <4> DEFINE x == ring.head - ring.n + i - 1 + Capacity
      <4>1. x \in 0..2 * Capacity - 1
        BY <3>1
      <4> HIDE DEF x
      <4>2. x % Capacity = IF x < Capacity THEN x ELSE x - Capacity
        BY <4>1, WrapAround
      <4> QED BY <3>3, <4>2 DEF x
    <3> QED BY <3>2, <3>3, <3>4 DEF Slot
  <2>4. Snapshots(ring) = [i \in 1..ring.n |-> hist[Len(hist) - (ring.n - i)]]
    BY <2>2, <2>3 DEF Snapshots
  <2>5. CASE Here
    <3>1. ring.n <= Len(hist)
      BY <2>1, <2>2, <2>5 DEF Smaller
    <3>2. LastTicks(ring.n) = [i \in 1..ring.n |-> hist[i + (Len(hist) - ring.n + 1) - 1]]
      <4>1. LastTicks(ring.n) = SubSeq(hist, Len(hist) - ring.n + 1, Len(hist))
        BY DEF LastTicks
      <4>2. Len(hist) - ring.n + 1 \in 1..Len(hist) + 1 /\ Len(hist) - (Len(hist) - ring.n + 1) + 1 = ring.n
        BY <2>1, <3>1
      <4>3. SubSeq(hist, Len(hist) - ring.n + 1, Len(hist)) =
              [i \in 1..Len(hist) - (Len(hist) - ring.n + 1) + 1 |-> hist[i + (Len(hist) - ring.n + 1) - 1]]
        <5> DEFINE m == Len(hist) - ring.n + 1
        <5>1. m \in 1..Len(hist) + 1
          BY <4>2
        <5> HIDE DEF m
        <5>2. SubSeq(hist, m, Len(hist)) = [i \in 1..Len(hist) - m + 1 |-> hist[i + m - 1]]
          BY <2>1, <5>1
        <5> QED BY <5>2 DEF m
      <4> QED BY <4>1, <4>2, <4>3
    <3>3. \A i \in 1..ring.n : i + (Len(hist) - ring.n + 1) - 1 = Len(hist) - (ring.n - i)
      BY <2>1
    <3> QED BY <2>2, <2>4, <2>5, <3>2, <3>3
  <2>6. CASE ~Here
    BY <2>2, <2>4, <2>6
  <2> QED BY <2>5, <2>6
<1> QED BY <1>1, EngineInvariant, PTL
-----------------------------------------------------------------------------
(* Sums that satisfy the equations of Total are its values: by induction,  *)
(* the two first differ nowhere.                                           *)
LEMMA TotalIsSum ==
  ASSUME NEW k \in Nat, NEW terms, NEW s \in [0..k -> Int], Sums(s, terms, k)
  PROVE  Total(terms, k) = s[k]
<1> DEFINE F(f) == [j \in 0..k |-> IF j = 0 THEN 0 ELSE f[j - 1] + terms[j]]
           w == CHOOSE f : f = F(f)
<1>1. Total(terms, k) = w[k]
  BY DEF Total
<1>2. s = F(s)
  <2>1. \A j \in 0..k : s[j] = IF j = 0 THEN 0 ELSE s[j - 1] + terms[j]
    BY DEF Sums
  <2> QED BY <2>1
<1>3. w = F(w)
  BY <1>2, Zenon
<1> HIDE DEF w
<1>4. \A j \in 0..k : w[j] = IF j = 0 THEN 0 ELSE w[j - 1] + terms[j]
  BY <1>3
<1>5. \A j \in 0..k : s[j] = IF j = 0 THEN 0 ELSE s[j - 1] + terms[j]
  BY <1>2
<1> HIDE DEF F
<1> DEFINE T == {j \in 0..k : w[j] # s[j]}
<1>6. CASE T = {}
  BY <1>1, <1>6
<1>7. CASE T # {}
  <2>1. PICK m \in T : \A n \in T : m <= n
    <3>1. T \subseteq Nat
      OBVIOUS
    <3> HIDE DEF T
    <3> QED BY <1>7, <3>1, LeastNumber
  <2>2. m \in 0..k /\ m # 0
    BY <1>4, <1>5
  <2>3. m - 1 \in 0..k /\ m - 1 \notin T
    BY <2>1, <2>2
  <2>4. w[m - 1] = s[m - 1]
    BY <2>3
  <2> QED BY <1>4, <1>5, <2>2, <2>4
<1> QED BY <1>6, <1>7

(* The average price kept by increments is the one computed again from all *)
(* the day's snapshots, however many polls failed and whenever the stock   *)
(* was off the list; it lies between the day's low and high, no volume is  *)
(* lost, and volumes that only grow add up to the exchange's own (Update). *)
THEOREM AllTicks == Spec => []VwapIsOfAllTicks
<1>1. EngineInv => VwapIsOfAllTicks
  <2> SUFFICES ASSUME EngineInv, worker.pc # "store", hist # <<>>
               PROVE  /\ tracker.day = hist[1].day
                      /\ tracker.vol = Total(Gains(hist), Len(hist))
                      /\ tracker.pv = Total(Worths(hist), Len(hist))
                      /\ \A i \in DOMAIN hist : /\ hist[i].last \in tracker.low..tracker.high
                                                /\ hist[i].cum <= tracker.vol
                      /\ tracker.low * tracker.vol <= tracker.pv /\ tracker.pv <= tracker.high * tracker.vol
                      /\ InOrder(hist) => tracker.vol = hist[Len(hist)].cum
    BY DEF VwapIsOfAllTicks
  <2> DEFINE k == Len(hist)
  <2>1. hist \in Seq(Traded) /\ k \in Nat /\ tracker.low \in Int /\ tracker.high \in Int
    BY DEF EngineInv, EngineType, Tracker
  <2>2. ~Lagging
    BY DEF EngineInv, PollInv, Lagging
  <2>3. Covers(tracker, hist, k)
    BY <2>2 DEF EngineInv, TrackerInv
  <2>4. \A i \in DOMAIN hist : hist[i].last \in tracker.low..tracker.high /\ hist[i].cum <= tracker.vol
    <3>1. \A i \in DOMAIN hist : i \in 1..k /\ hist[i].last \in Int
      <4>1. DOMAIN hist = 1..k /\ \A i \in DOMAIN hist : hist[i] \in Traded
        BY <2>1
      <4> QED BY <4>1, DaysAndVolumes
    <3> QED BY <2>1, <2>3, <3>1 DEF Covers
  <2>5. InOrder(hist) => tracker.vol = hist[k].cum
    BY <2>3 DEF InOrder, Covers
  <2> HIDE DEF k
  <2>6. tracker.vol = Total(Gains(hist), k)
    <3>1. PICK v \in [0..k -> Int] : Sums(v, Gains(hist), k) /\ tracker.vol = v[k]
      BY <2>3 DEF Covers
    <3> QED BY <2>1, <3>1, TotalIsSum
  <2>7. tracker.pv = Total(Worths(hist), k)
    <3>1. PICK s \in [0..k -> Int] : Sums(s, Worths(hist), k) /\ tracker.pv = s[k]
      BY <2>3 DEF Covers
    <3> QED BY <2>1, <3>1, TotalIsSum
  <2>8. tracker.low * tracker.vol <= tracker.pv /\ tracker.pv <= tracker.high * tracker.vol
    BY <2>3 DEF Covers, Between
  <2>9. tracker.day = hist[1].day
    BY <2>3 DEF Covers
  <2> QED BY <2>4, <2>5, <2>6, <2>7, <2>8, <2>9 DEF k
<1> QED BY <1>1, EngineInvariant, PTL
=============================================================================
