--------------------------- MODULE IntradayEngine ---------------------------
(***************************************************************************)
(* The intraday engine: the watchlist and its phases (engine/watchlist.go),*)
(* the worker that polls the quote server (provider/mis_worker.go), the    *)
(* ring buffers it fills (ringbuffer.go) and the incremental VWAP          *)
(* (vwap.go).                                                              *)
(*                                                                         *)
(* The worker is one goroutine: it looks at the clock and the watchlist,   *)
(* sends one request for all codes, then stores the snapshots one by one.  *)
(* Tools replace the watchlist at any moment of the session.  Every stock  *)
(* has a ring and a tracker of its own, so a behaviour follows those of    *)
(* one stock; others come and go on the watchlist.  The worker's cookie    *)
(* requests, whose failure is only logged, and the tools that only read    *)
(* (bars, quotes, surges) are left out.                                    *)
(***************************************************************************)
EXTENDS Integers, Sequences, FiniteSets

CONSTANTS Codes,         \* the registered stocks
          Followed,      \* one of them
          Prices,        \* the prices of a trade
          MaxVol,        \* bounds a snapshot's cumulative volume
          Capacity,      \* of a ring
          MaxFailures,   \* failed polls in a row that degrade the engine
          LastDay,       \* days run from 1, bounds the clock
          TradingDays,
          MaxTicks       \* bounds the snapshots of the stock on one day

Days == 1..LastDay
ASSUME EngineAssumption ==
  /\ Followed \in Codes /\ Prices \subseteq Nat /\ MaxVol \in Nat /\ Capacity \in Nat \ {0}
  /\ MaxFailures \in Nat \ {0} /\ LastDay \in Nat \ {0} /\ TradingDays \subseteq Days

VARIABLES
  clock,     \* the day and the part of it Advance tells apart
  watch,     \* the codes of the watchlist
  degraded,  \* the watchlist's flag
  worker,    \* the worker: its place, last day, failures in a row, snapshots in hand
  ring,      \* the buffer, where it is written next, how many it holds
  tracker,   \* the VWAP's running sums
  hist,      \* history: the ticks stored on the last day there were any
  streak     \* history: the polls that failed since one worked or none was due
vars == <<clock, watch, degraded, worker, ring, tracker, hist, streak>>

-----------------------------------------------------------------------------
\* The parts of a day: before 8:59:30, before 9:00, before 13:30, before 13:35.
Phases == <<"IDLE", "WARMUP", "SAMPLING", "FLUSH", "IDLE">>
Parts == DOMAIN Phases
InSession == clock.day \in TradingDays /\ clock.part = 3

\* Advance.
Advance ==
  LET st == IF clock.day \in TradingDays THEN Phases[clock.part] ELSE "IDLE"
  IN  IF st # "IDLE" /\ degraded THEN "DEGRADED" ELSE st

-----------------------------------------------------------------------------
(* A ring: slots are written in a circle.                                  *)

NoTick == [day |-> 0, last |-> 0, cum |-> 0]
EmptyRing == [buf |-> [i \in 0..Capacity - 1 |-> NoTick], head |-> 0, n |-> 0]

(* Mutant: the next slot is not wrapped around.                            *)
PutOnward(r, tick) == [r EXCEPT !.buf[r.head] = tick, !.head = @ + 1, !.n = IF @ < Capacity THEN @ + 1 ELSE @]

Put(r, tick) == [buf |-> [r.buf EXCEPT ![r.head] = tick],
                 head |-> (r.head + 1) % Capacity,
                 n |-> IF r.n < Capacity THEN r.n + 1 ELSE r.n]

\* Reset leaves the slots as they are.
Cleared(r) == [r EXCEPT !.head = 0, !.n = 0]

\* From the oldest to the newest.
Snapshots(r) == [i \in 1..r.n |-> r.buf[(r.head - r.n + i - 1 + Capacity) % Capacity]]

-----------------------------------------------------------------------------
(* The running VWAP of one code.                                           *)

NoTracker == [day |-> 0, pv |-> 0, vol |-> 0, prev |-> 0, high |-> 0, low |-> 0]
Larger(a, b) == IF a >= b THEN a ELSE b
Smaller(a, b) == IF a <= b THEN a ELSE b

(* Mutant: the volume of the day before stays the one to count from.       *)
NewDayKeepsPrev(t, tick) ==
  IF t.day = tick.day THEN t
  ELSE [t EXCEPT !.day = tick.day, !.pv = 0, !.vol = 0, !.high = tick.last, !.low = tick.last]

\* The first snapshot of another day starts the sums anew.
OnItsDay(t, tick) ==
  IF t.day = tick.day THEN t
  ELSE [day |-> tick.day, pv |-> 0, vol |-> 0, prev |-> 0, high |-> tick.last, low |-> tick.last]

\* Update: the volume traded since the last snapshot, at this one's price; a
\* volume that fell counts as none.
Updated(tr, tick) ==
  LET t  == OnItsDay(tr, tick)
      dv == IF t.prev = 0 THEN tick.cum ELSE Larger(tick.cum - t.prev, 0)
  IN  [t EXCEPT !.pv = @ + tick.last * dv, !.vol = @ + dv, !.prev = tick.cum,
                !.high = Larger(@, tick.last), !.low = Smaller(@, tick.last)]

-----------------------------------------------------------------------------
Resting == [pc |-> "look", lastDay |-> 0, failures |-> 0, asked |-> {}, snaps |-> <<>>, updates |-> <<>>]

Init ==
  /\ clock = [day |-> 1, part |-> 1]
  /\ watch = {} /\ degraded = FALSE
  /\ worker = Resting
  /\ ring = EmptyRing
  /\ tracker = NoTracker
  /\ hist = <<>>
  /\ streak = 0

(* Mutant: the ring is not emptied on a new day.                           *)
AsItIs(day) == ring

\* The rings are emptied when the worker first looks on a new day.
RingFor(day) == IF day = worker.lastDay THEN ring ELSE Cleared(ring)

(* Mutant: when there is nothing to poll the worker sleeps, no more.       *)
IdleJustSleeps == worker.pc = "look" /\ (watch = {} \/ Advance = "IDLE") /\ UNCHANGED vars

\* Run, nothing to poll: failures are forgotten, and the flag with them.
LookIdle ==
  /\ worker.pc = "look" /\ (watch = {} \/ Advance = "IDLE")
  /\ worker' = [worker EXCEPT !.failures = 0]
  /\ degraded' = FALSE /\ streak' = 0
  /\ UNCHANGED <<clock, watch, ring, tracker, hist>>

\* Run, in the session's phases: before the open it only sleeps.
Look ==
  /\ worker.pc = "look" /\ watch # {} /\ Advance # "IDLE"
  /\ ring' = RingFor(clock.day)
  /\ worker' = [worker EXCEPT !.lastDay = clock.day, !.pc = IF Advance = "WARMUP" THEN "look" ELSE "send"]
  /\ UNCHANGED <<clock, watch, degraded, tracker, hist, streak>>

\* The request names the codes watched by now.
Send ==
  /\ worker.pc = "send"
  /\ worker' = [worker EXCEPT !.pc = "wait", !.asked = watch]
  /\ UNCHANGED <<clock, watch, degraded, ring, tracker, hist, streak>>

\* No answer, or one without a valid snapshot.  (Failures beyond the limit
\* count as the limit.)
PollFails ==
  /\ worker.pc = "wait"
  /\ worker' = [worker EXCEPT !.pc = "look", !.failures = Smaller(@ + 1, MaxFailures)]
  /\ degraded' = (degraded \/ worker.failures + 1 >= MaxFailures)
  /\ streak' = Smaller(streak + 1, MaxFailures)
  /\ UNCHANGED <<clock, watch, ring, tracker, hist>>

\* Snapshots of some of the codes asked for.  A stock not traded today has no
\* price and is dropped, so there are none before the open.  The volume is what
\* the record says, and 0 where it has none or one that is not a number
\* (parseVolOrZero): it may be less than that of the snapshot before.
TicksToday == IF hist # <<>> /\ hist[1].day = clock.day THEN Len(hist) ELSE 0
Answered(snaps) == worker' = [worker EXCEPT !.pc = "store", !.snaps = snaps, !.updates = snaps]
PollAnswered ==
  /\ worker.pc = "wait" /\ clock.day \in TradingDays /\ clock.part >= 3
  /\ \/ worker.asked # {Followed} /\ Answered(<<>>)
     \/ /\ Followed \in worker.asked /\ TicksToday < MaxTicks
        /\ \E p \in Prices, v \in 0..MaxVol : Answered(<<[day |-> clock.day, last |-> p, cum |-> v]>>)
  /\ UNCHANGED <<clock, watch, degraded, ring, tracker, hist, streak>>

Logged(tick) == IF hist # <<>> /\ hist[1].day # tick.day THEN <<tick>> ELSE Append(hist, tick)

\* All snapshots go to their rings, then all of them to their trackers.
Store ==
  /\ worker.pc = "store" /\ worker.snaps # <<>>
  /\ ring' = Put(ring, Head(worker.snaps))
  /\ hist' = Logged(Head(worker.snaps))
  /\ worker' = [worker EXCEPT !.snaps = Tail(@)]
  /\ UNCHANGED <<clock, watch, degraded, tracker, streak>>
Update ==
  /\ worker.pc = "store" /\ worker.snaps = <<>> /\ worker.updates # <<>>
  /\ tracker' = Updated(tracker, Head(worker.updates))
  /\ worker' = [worker EXCEPT !.updates = Tail(@)]
  /\ UNCHANGED <<clock, watch, degraded, ring, hist, streak>>

(* Mutant: a poll that works leaves the count of failures.                 *)
HealthyKeepsCount ==
  /\ worker.pc = "store" /\ worker.updates = <<>>
  /\ worker' = [worker EXCEPT !.pc = "look"]
  /\ degraded' = FALSE /\ streak' = 0
  /\ UNCHANGED <<clock, watch, ring, tracker, hist>>

\* A poll that worked ends the failures and the flag.
Healthy ==
  /\ worker.pc = "store" /\ worker.updates = <<>>
  /\ worker' = [worker EXCEPT !.pc = "look", !.failures = 0]
  /\ degraded' = FALSE /\ streak' = 0
  /\ UNCHANGED <<clock, watch, ring, tracker, hist>>

-----------------------------------------------------------------------------
\* set_active_watchlist: in the session only, and never emptied again.
SetActiveWatchlist ==
  /\ InSession
  /\ watch' \in (SUBSET Codes) \ {{}}
  /\ UNCHANGED <<clock, degraded, worker, ring, tracker, hist, streak>>

\* Time passes.  A poll, whose request has a time limit, does not last from
\* one day to the next.
Tick ==
  /\ \/ /\ clock.part < Len(Phases)
        /\ clock' = [clock EXCEPT !.part = @ + 1]
     \/ /\ clock.part = Len(Phases) /\ clock.day < LastDay /\ worker.pc = "look"
        /\ clock' = [day |-> clock.day + 1, part |-> 1]
  /\ UNCHANGED <<watch, degraded, worker, ring, tracker, hist, streak>>

\* All of the engine is memory.
Restart ==
  /\ watch' = {} /\ degraded' = FALSE
  /\ worker' = Resting
  /\ ring' = EmptyRing
  /\ tracker' = NoTracker
  /\ hist' = <<>>
  /\ streak' = 0
  /\ UNCHANGED clock

Run == LookIdle \/ Look \/ Send \/ PollFails \/ PollAnswered \/ Store \/ Update \/ Healthy
Next == Run \/ SetActiveWatchlist \/ Tick \/ Restart

Spec == Init /\ [][Next]_vars

\* The worker runs on, each request is answered or given up, and time passes.
Fairness == WF_vars(Run) /\ WF_vars(Tick)
FairSpec == Spec /\ Fairness

-----------------------------------------------------------------------------
(* Properties.                                                             *)

Ticks == [day : Days \cup {0}, last : Prices \cup {0}, cum : 0..MaxVol]
TypeOK ==
  /\ clock \in [day : Days, part : Parts]
  /\ watch \subseteq Codes /\ degraded \in BOOLEAN
  /\ worker.pc \in {"look", "send", "wait", "store"}
  /\ worker.lastDay \in Days \cup {0} /\ worker.failures \in 0..MaxFailures
  /\ worker.asked \subseteq Codes /\ (worker.pc = "wait" => worker.asked # {})
  /\ ring.buf \in [0..Capacity - 1 -> Ticks]
  /\ ring.head \in 0..Capacity - 1 /\ ring.n \in 0..Capacity
  /\ tracker.day \in Days \cup {0} /\ tracker.prev \in 0..MaxVol

LastTicks(k) == SubSeq(hist, Len(hist) - k + 1, Len(hist))

\* What a tool reads of a stock are the newest snapshots of one day, all that
\* fit, in their order and none missing: also after the ring went round, after
\* hours the stock was not watched and on the morning of a new day, whose bars
\* are cut by the time of day alone (Append, Snapshots, Reset, Run).
RingIsTail ==
  LET here == hist # <<>> /\ hist[1].day = worker.lastDay
  IN  Snapshots(ring) = IF here THEN LastTicks(Smaller(Len(hist), Capacity)) ELSE <<>>

\* What each snapshot of a log adds to the day's volume and to its turnover,
\* and the sum of the first k.
Gains(log) == [i \in DOMAIN log |-> Larger(log[i].cum - IF i = 1 THEN 0 ELSE log[i - 1].cum, 0)]
Worths(log) == [i \in DOMAIN log |-> log[i].last * Gains(log)[i]]
Total(terms, k) == LET t[i \in 0..k] == IF i = 0 THEN 0 ELSE t[i - 1] + terms[i] IN t[k]
InOrder(log) == \A i \in 1..Len(log) - 1 : log[i].cum <= log[i + 1].cum

\* The VWAP kept by increments is the one computed again from all the day's
\* snapshots, of which the ring holds the last only, however many polls failed
\* and whenever the stock was off the list.  None of their volume is lost, the
\* average lies between the day's low and high, and as long as the volumes only
\* grow their sum is the exchange's own figure (Update; recomputeVWAP).
VwapIsOfAllTicks ==
  worker.pc # "store" /\ hist # <<>> =>
    /\ tracker.day = hist[1].day
    /\ tracker.vol = Total(Gains(hist), Len(hist)) /\ tracker.pv = Total(Worths(hist), Len(hist))
    /\ \A i \in DOMAIN hist : hist[i].last \in tracker.low..tracker.high /\ hist[i].cum <= tracker.vol
    /\ tracker.low * tracker.vol <= tracker.pv /\ tracker.pv <= tracker.high * tracker.vol
    /\ InOrder(hist) => tracker.vol = hist[Len(hist)].cum

\* The volume a tool shows as the day's cumulative volume (model/intraday.go:16)
\* is at most the largest the exchange has reported, for a volume that falls back
\* is defended against (vwap.go:55).  (The code does not keep this: what follows
\* is counted from the fallen volume, and after a snapshot without a volume the
\* whole day is counted once more.)
VolumeCountedOnce ==
  worker.pc # "store" /\ hist # <<>> => \E i \in DOMAIN hist : tracker.vol <= hist[i].cum

\* The engine calls itself degraded only after that many polls in a row have
\* failed, with none that worked and no idle hour in between (fail, Run).
DegradedMeansFailures == degraded => streak = MaxFailures

\* It does not stay degraded: a poll works, or the session ends (MarkHealthy).
DegradedEnds == degraded ~> ~degraded
=============================================================================
