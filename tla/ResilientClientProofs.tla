------------------------ MODULE ResilientClientProofs ------------------------
(***************************************************************************)
(* Theorems about ResilientClient, for any number of callers and clients   *)
(* and every value of the intervals and limits, with or without prompt     *)
(* wake-ups.                                                               *)
(***************************************************************************)
EXTENDS ResilientClient, TLAPS

USE DEF breakerVars, limiterVars, callVars, gapVars, vars, K, NoPause, Expired

-----------------------------------------------------------------------------
(* Types.  A caller that backs off has a retry left: without that fact the  *)
(* bound on attempt is not inductive.                                       *)
RetryLeft == \A c \in Callers : pc[c] = "backoff" => attempt[c] < MaxRetries
TypeInv   == TypeOK /\ RetryLeft

LEMMA AllowType ==
  ASSUME TypeOK, NEW k \in Clients, Allow(k)
  PROVE  /\ failures' \in [Clients -> 0..MaxFailures]
         /\ pause' \in [Clients -> NoPause..OpenFor]
         /\ openAge' \in [Clients -> 0..OpenFor]
BY ClientAssumption DEF TypeOK, Allow

LEMMA RecordType ==
  ASSUME TypeOK, NEW k \in Clients, RecordOk(k) \/ RecordFailure(k)
  PROVE  /\ failures' \in [Clients -> 0..MaxFailures]
         /\ pause' \in [Clients -> NoPause..OpenFor]
         /\ openAge' \in [Clients -> 0..OpenFor]
<1> USE ClientAssumption DEF TypeOK
<1>1. CASE RecordOk(k)
  BY <1>1 DEF RecordOk
<1>2. CASE RecordFailure(k)
  <2>1. failures' \in [Clients -> 0..MaxFailures]
    BY <1>2 DEF RecordFailure, Smaller
  <2>2. CASE failures[k] + 1 >= MaxFailures
    BY <1>2, <2>1, <2>2 DEF RecordFailure
  <2>3. CASE ~(failures[k] + 1 >= MaxFailures)
    BY <1>2, <2>1, <2>3 DEF RecordFailure
  <2> QED BY <2>2, <2>3
<1> QED BY <1>1, <1>2

(* An answer that ends the call.                                            *)
Ends(c) == Return(c) /\ (RecordOk(K(c)) \/ RecordFailure(K(c)))

LEMMA AnswerCases ==
  ASSUME NEW c \in Callers, Answer(c)
  PROVE  Ends(c) \/ AnswerBlocked(c)
BY DEF Answer, AnswerOk, AnswerBad, AnswerBlockedForGood, Ends

LEMMA TickTypeInv == TypeInv /\ Tick => TypeInv'
<1> SUFFICES ASSUME TypeInv, Tick PROVE TypeInv'
  OBVIOUS
<1> USE ClientAssumption DEF TypeInv, TypeOK, Tick
<1>1. pause' \in [Clients -> NoPause..OpenFor]
  OBVIOUS
<1>2. nextSlot' \in [Clients -> Nat] /\ wait' \in [Callers -> Nat]
  BY DEF Down
<1>3. /\ sinceFirst' \in [Clients -> 0..Interval]
      /\ sinceSend' \in 0..Interval
      /\ openAge' \in [Clients -> 0..OpenFor]
  BY DEF Smaller
<1>4. RetryLeft'
  BY DEF RetryLeft
<1> QED BY <1>1, <1>2, <1>3, <1>4

LEMMA CallerTypeInv ==
  ASSUME TypeInv, NEW c \in Callers, Admit(c) \/ GiveUp(c) \/ Proceed(c)
  PROVE  TypeInv'
<1> USE ClientAssumption DEF TypeInv, TypeOK, RetryLeft, Goto, Pcs
<1>k. ClientOf[c] \in Clients
  OBVIOUS
<1>1. CASE Admit(c)
  BY <1>1, <1>k, AllowType DEF Admit
<1>2. CASE GiveUp(c)
  <2>1. nextSlot' \in [Clients -> Nat]
    <3>1. CASE pc[c] = "token" /\ wait[c] > 0 /\ LastReservation(c)
      BY <1>2, <1>k, <3>1 DEF GiveUp, LastReservation
    <3>2. CASE ~(pc[c] = "token" /\ wait[c] > 0 /\ LastReservation(c))
      BY <1>2, <3>2 DEF GiveUp
    <3> QED BY <3>1, <3>2
  <2> QED BY <1>2, <2>1 DEF GiveUp
<1>3. CASE Reserve(c)
  BY <1>3, <1>k DEF Reserve
<1>4. CASE Jitter(c)
  BY <1>4 DEF Jitter
<1>5. CASE Send(c)
  BY <1>5, <1>k DEF Send
<1>6. CASE Resend(c)
  <2>1. attempt' \in [Callers -> 0..MaxRetries]
    BY <1>6 DEF Resend
  <2>2. backoff' \in [Callers -> FirstBackoff..BackoffCap]
    BY <1>6 DEF Resend, Smaller
  <2> QED BY <1>6, <2>1, <2>2 DEF Resend
<1>7. CASE Ends(c)
  <2>1. /\ failures' \in [Clients -> 0..MaxFailures]
        /\ pause' \in [Clients -> NoPause..OpenFor]
        /\ openAge' \in [Clients -> 0..OpenFor]
    BY <1>7, <1>k, RecordType DEF Ends
  <2> QED BY <1>7, <2>1 DEF Ends, Return
<1>8. CASE AnswerBlocked(c)
  BY <1>8 DEF AnswerBlocked, RetriesLeft
<1> QED BY <1>1, <1>2, <1>3, <1>4, <1>5, <1>6, <1>7, <1>8, AnswerCases DEF Proceed

LEMMA NextTypeInv == TypeInv /\ [Next]_vars => TypeInv'
<1> SUFFICES ASSUME TypeInv, [Next]_vars PROVE TypeInv'
  OBVIOUS
<1>1. CASE Next
  BY <1>1, TickTypeInv, CallerTypeInv DEF Next
<1>2. CASE UNCHANGED vars
  BY <1>2 DEF TypeInv, TypeOK, RetryLeft
<1> QED BY <1>1, <1>2

(* The types, and that a caller in backoff has a retry left.               *)
THEOREM TypeInvariance == Spec => []TypeInv
<1>1. Init => TypeInv
  BY ClientAssumption DEF Init, TypeInv, TypeOK, RetryLeft, Pcs
<1> QED BY <1>1, NextTypeInv, PTL DEF Spec

(* Every variable keeps its type; in particular no call is retried more     *)
(* than maxRetries times and no backoff exceeds the cap.                    *)
THEOREM TypeCorrect == Spec => []TypeOK
BY TypeInvariance, PTL DEF TypeInv
-----------------------------------------------------------------------------
(* The queue.  No queued caller's slot lies beyond the bucket's next one:   *)
(* this is what keeps a new reservation, and a slot given back by the last  *)
(* one, apart from all the others.                                          *)
SlotsBeforeNext == \A c \in Callers : Queued(c) => wait[c] + Interval <= nextSlot[K(c)]
SlotInv == SlotsBeforeNext /\ SlotsApart

(* A step that queues nobody, and moves neither the bucket nor the timer of *)
(* a caller that stays queued.                                              *)
QueueKept ==
  /\ nextSlot' = nextSlot
  /\ \A d \in Callers : Queued(d)' => Queued(d) /\ wait'[d] = wait[d]

LEMMA KeptSlotInv ==
  ASSUME SlotInv, QueueKept
  PROVE  SlotInv'
<1>1. SlotsBeforeNext'
  BY DEF SlotInv, SlotsBeforeNext, QueueKept
<1>2. SlotsApart'
  BY DEF SlotInv, SlotsApart, QueueKept
<1> QED BY <1>1, <1>2 DEF SlotInv

LEMMA TickSlotInv ==
  ASSUME TypeInv, SlotInv, Tick
  PROVE  SlotInv'
<1> USE ClientAssumption DEF TypeInv, TypeOK
<1>1. ASSUME NEW d \in Callers, Queued(d)'
      PROVE  Queued(d) /\ wait'[d] = wait[d] - 1
  BY <1>1 DEF Tick, Queued, Down
<1>2. \A k \in Clients : nextSlot'[k] >= nextSlot[k] - 1
  BY DEF Tick, Down
<1>3. \A d \in Callers : wait[d] \in Nat /\ wait'[d] \in Nat /\ ClientOf[d] \in Clients
                       /\ nextSlot[ClientOf[d]] \in Nat /\ nextSlot'[ClientOf[d]] \in Nat
  BY DEF Tick, Down
<1> HIDE DEF TypeInv, TypeOK
<1>4. SlotsBeforeNext'
  BY <1>1, <1>2, <1>3 DEF SlotInv, SlotsBeforeNext
<1>5. SlotsApart'
  BY <1>1, <1>3 DEF SlotInv, SlotsApart
<1> QED BY <1>4, <1>5 DEF SlotInv

LEMMA ReserveSlotInv ==
  ASSUME TypeInv, SlotInv, NEW c \in Callers, Reserve(c)
  PROVE  SlotInv'
<1>1. /\ Interval \in Nat
      /\ \A d \in Callers : wait[d] \in Nat /\ nextSlot[ClientOf[d]] \in Nat
  BY ClientAssumption DEF TypeInv, TypeOK
<1>2. wait'[c] = nextSlot[K(c)] /\ nextSlot'[K(c)] = nextSlot[K(c)] + Interval
  BY ClientAssumption DEF TypeInv, TypeOK, Reserve, Goto
<1>3. \A d \in Callers \ {c} :
        /\ wait'[d] = wait[d]
        /\ Queued(d)' => Queued(d)
        /\ nextSlot'[K(d)] = IF K(d) = K(c) THEN nextSlot[K(c)] + Interval ELSE nextSlot[K(d)]
  BY ClientAssumption DEF TypeInv, TypeOK, Reserve, Goto, Queued
<1>4. \A d \in Callers \ {c} : Queued(d)' => wait'[d] + Interval <= nextSlot[K(d)]
  BY <1>3 DEF SlotInv, SlotsBeforeNext
<1>5. SlotsBeforeNext'
  BY <1>1, <1>2, <1>3, <1>4 DEF SlotsBeforeNext
<1>6. SlotsApart'
  <2> SUFFICES ASSUME NEW a \in Callers, NEW b \in Callers,
                      Queued(a)', Queued(b)', a # b, K(a) = K(b)
               PROVE  wait'[a] + Interval <= wait'[b] \/ wait'[b] + Interval <= wait'[a]
    BY DEF SlotsApart
  <2>1. CASE a = c
    BY <1>2, <1>4, <2>1
  <2>2. CASE b = c
    BY <1>2, <1>4, <2>2
  <2>3. CASE a # c /\ b # c
    BY <1>3, <2>3 DEF SlotInv, SlotsApart
  <2> QED BY <2>1, <2>2, <2>3
<1> QED BY <1>5, <1>6 DEF SlotInv

LEMMA GiveUpSlotInv ==
  ASSUME TypeInv, SlotInv, NEW c \in Callers, GiveUp(c)
  PROVE  SlotInv'
<1>1. \A d \in Callers : wait[d] \in Nat /\ nextSlot[ClientOf[d]] \in Nat
  BY ClientAssumption DEF TypeInv, TypeOK
<1>2. ~Queued(c)'
  BY DEF TypeInv, TypeOK, GiveUp, Goto, Queued
<1>3. \A d \in Callers \ {c} : wait'[d] = wait[d] /\ (Queued(d)' => Queued(d))
  BY DEF TypeInv, TypeOK, GiveUp, Goto, Queued
<1>4. CASE Queued(c) /\ LastReservation(c)
  <2>1. \A d \in Callers :
          nextSlot'[K(d)] = IF K(d) = K(c) THEN wait[c] ELSE nextSlot[K(d)]
    <3>1. nextSlot' = [nextSlot EXCEPT ![ClientOf[c]] = nextSlot[ClientOf[c]] - Interval]
      BY <1>4 DEF GiveUp, Queued
    <3>2. nextSlot[ClientOf[c]] - Interval = wait[c]
      BY <1>1, <1>4, ClientAssumption DEF LastReservation
    <3>3. nextSlot \in [Clients -> Nat] /\ ClientOf \in [Callers -> Clients]
      BY ClientAssumption DEF TypeInv, TypeOK
    <3> QED BY <3>1, <3>2, <3>3
  <2>2. ASSUME NEW d \in Callers \ {c}, Queued(d)', K(d) = K(c)
        PROVE  wait[d] + Interval <= wait[c]
    <3>1. wait[d] + Interval <= wait[c] + Interval
      BY <1>3, <1>4, <2>2 DEF SlotInv, SlotsBeforeNext, LastReservation
    <3>2. wait[d] + Interval <= wait[c] \/ wait[c] + Interval <= wait[d]
      BY <1>3, <1>4, <2>2 DEF SlotInv, SlotsApart
    <3> QED BY <1>1, <3>1, <3>2, ClientAssumption
  <2>3. SlotsBeforeNext'
    BY <1>2, <1>3, <2>1, <2>2 DEF SlotInv, SlotsBeforeNext
  <2>4. SlotsApart'
    BY <1>2, <1>3 DEF SlotInv, SlotsApart
  <2> QED BY <2>3, <2>4 DEF SlotInv
<1>5. CASE ~(Queued(c) /\ LastReservation(c))
  <2>1. QueueKept
    BY <1>2, <1>3, <1>5 DEF GiveUp, Queued, QueueKept
  <2> QED BY <2>1, KeptSlotInv
<1> QED BY <1>4, <1>5

LEMMA NextSlotInv == TypeInv /\ SlotInv /\ [Next]_vars => SlotInv'
<1> SUFFICES ASSUME TypeInv, SlotInv, [Next]_vars PROVE SlotInv'
  OBVIOUS
<1>1. CASE Tick
  BY <1>1, TickSlotInv
<1>2. ASSUME NEW c \in Callers, Admit(c) \/ GiveUp(c) \/ Proceed(c)
      PROVE  SlotInv'
  <2>1. CASE GiveUp(c)
    BY <2>1, GiveUpSlotInv
  <2>2. CASE Reserve(c)
    BY <2>2, ReserveSlotInv
  <2>3. CASE Admit(c) \/ Jitter(c) \/ Send(c) \/ Resend(c) \/ Ends(c) \/ AnswerBlocked(c)
    <3>1. QueueKept
      BY <2>3 DEF TypeInv, TypeOK, Queued, QueueKept, Goto, Admit, Jitter, Send, Resend,
                  Ends, Return, AnswerBlocked
    <3> QED BY <3>1, KeptSlotInv
  <2> QED BY <1>2, <2>1, <2>2, <2>3, AnswerCases DEF Proceed
<1>3. CASE UNCHANGED vars
  <2>1. QueueKept
    BY <1>3 DEF Queued, QueueKept
  <2> QED BY <2>1, KeptSlotInv
<1> QED BY <1>1, <1>2, <1>3 DEF Next

(* The callers queued at one bucket stay Interval apart, however they come, *)
(* give up and come back.                                                   *)
THEOREM QueueSpacing == Spec => []SlotsApart
<1>1. Init => SlotInv
  BY DEF Init, SlotInv, SlotsBeforeNext, SlotsApart, Queued
<1>2. Spec => []SlotInv
  BY <1>1, NextSlotInv, TypeInvariance, PTL DEF Spec
<1> QED BY <1>2, PTL DEF SlotInv
-----------------------------------------------------------------------------
(* The breaker.  openAge and what is left of the pause always make up the   *)
(* whole of OpenFor: a straggler's failure can only lengthen a pause.       *)
PauseInv ==
  \A k \in Clients :
    /\ pause[k] >= 0 => pause[k] + openAge[k] >= OpenFor
    /\ pause[k] < 0 => openAge[k] = OpenFor
BreakerInv == PauseInv /\ ClosedHasRoom

BreakerKept == failures' = failures /\ pause' = pause /\ openAge' = openAge

LEMMA KeptBreakerInv ==
  ASSUME BreakerInv, BreakerKept
  PROVE  BreakerInv'
BY DEF BreakerInv, PauseInv, ClosedHasRoom, BreakerKept

LEMMA TickBreakerInv ==
  ASSUME TypeInv, BreakerInv, Tick
  PROVE  BreakerInv'
<1> USE ClientAssumption DEF TypeInv, TypeOK, BreakerInv
<1>1. PauseInv'
  BY DEF Tick, PauseInv, Smaller
<1>2. ClosedHasRoom'
  BY DEF Tick, ClosedHasRoom
<1> QED BY <1>1, <1>2

LEMMA AllowBreakerInv ==
  ASSUME TypeInv, BreakerInv, NEW k \in Clients, Allow(k)
  PROVE  BreakerInv'
<1> USE ClientAssumption DEF TypeInv, TypeOK, BreakerInv
<1>1. PauseInv'
  BY DEF Allow, PauseInv
<1>2. ClosedHasRoom'
  BY DEF Allow, ClosedHasRoom
<1> QED BY <1>1, <1>2

LEMMA RecordBreakerInv ==
  ASSUME TypeInv, BreakerInv, NEW k \in Clients, RecordOk(k) \/ RecordFailure(k)
  PROVE  BreakerInv'
<1> USE ClientAssumption DEF TypeInv, TypeOK, BreakerInv
<1>1. CASE RecordOk(k)
  BY <1>1 DEF RecordOk, PauseInv, ClosedHasRoom
<1>2. CASE RecordFailure(k) /\ failures[k] + 1 >= MaxFailures
  <2>1. /\ pause' = [pause EXCEPT ![k] = OpenFor]
        /\ openAge' = [openAge EXCEPT ![k] = IF Open(k) THEN @ ELSE 0]
        /\ \A j \in Clients \ {k} : failures'[j] = failures[j]
    BY <1>2 DEF RecordFailure
  <2>2. openAge'[k] \in 0..OpenFor
    BY <2>1
  <2>3. PauseInv'
    BY <2>1, <2>2 DEF PauseInv
  <2>4. ClosedHasRoom'
    BY <2>1 DEF ClosedHasRoom
  <2> QED BY <2>3, <2>4
<1>3. CASE RecordFailure(k) /\ ~(failures[k] + 1 >= MaxFailures)
  <2>1. pause' = pause /\ openAge' = openAge
    BY <1>3 DEF RecordFailure
  <2>2. \A j \in Clients : failures'[j] = failures[j] \/ failures'[j] < MaxFailures
    BY <1>3 DEF RecordFailure, Smaller
  <2> QED BY <2>1, <2>2 DEF PauseInv, ClosedHasRoom
<1> QED BY <1>1, <1>2, <1>3

LEMMA NextBreakerInv == TypeInv /\ BreakerInv /\ [Next]_vars => BreakerInv'
<1> SUFFICES ASSUME TypeInv, BreakerInv, [Next]_vars PROVE BreakerInv'
  OBVIOUS
<1>1. CASE Tick
  BY <1>1, TickBreakerInv
<1>2. ASSUME NEW c \in Callers, Admit(c) \/ GiveUp(c) \/ Proceed(c)
      PROVE  BreakerInv'
  <2>k. K(c) \in Clients
    BY ClientAssumption
  <2>1. CASE Admit(c)
    BY <2>k, <2>1, AllowBreakerInv DEF Admit
  <2>2. CASE Ends(c)
    BY <2>k, <2>2, RecordBreakerInv DEF Ends
  <2>3. CASE GiveUp(c) \/ Reserve(c) \/ Jitter(c) \/ Send(c) \/ Resend(c) \/ AnswerBlocked(c)
    <3>1. BreakerKept
      BY <2>3 DEF BreakerKept, GiveUp, Reserve, Jitter, Send, Resend, AnswerBlocked
    <3> QED BY <3>1, KeptBreakerInv
  <2> QED BY <1>2, <2>1, <2>2, <2>3, AnswerCases DEF Proceed
<1>3. CASE UNCHANGED vars
  BY <1>3, KeptBreakerInv DEF BreakerKept
<1> QED BY <1>1, <1>2, <1>3 DEF Next

LEMMA BreakerInvariance == Spec => [](TypeInv /\ BreakerInv)
<1>1. Init => BreakerInv
  BY ClientAssumption DEF Init, BreakerInv, PauseInv, ClosedHasRoom
<1> QED BY <1>1, NextBreakerInv, TypeInvariance, PTL DEF Spec

(* A breaker that is closed always has room for a failure.                  *)
THEOREM ClosedBreakerHasRoom == Spec => []ClosedHasRoom
BY BreakerInvariance, PTL DEF BreakerInv

(* No call passes a breaker sooner than OpenFor after it opened.            *)
THEOREM PauseIsKept == Spec => PauseRunsItsCourse
<1>1. ASSUME TypeInv, BreakerInv, [Next]_vars,
             NEW c \in Callers, pc[c] = "idle", pc'[c] = "admitted"
      PROVE  openAge[K(c)] >= OpenFor
  <2>1. PICK d \in Callers : pc'[d] # pc[d] /\ (Admit(d) \/ GiveUp(d) \/ Proceed(d))
                          /\ d = c
    BY <1>1 DEF Next, Tick, Admit, GiveUp, Proceed, Reserve, Jitter, Send, Resend, Answer,
       AnswerOk, AnswerBad, AnswerBlocked, AnswerBlockedForGood, Return, Goto, TypeInv, TypeOK
  <2>2. Admit(c)
    BY <1>1, <2>1 DEF GiveUp, Proceed, Reserve, Jitter, Send, Resend, Answer, AnswerOk,
       AnswerBad, AnswerBlocked, AnswerBlockedForGood, Return, Goto, TypeInv, TypeOK, Sleeping
  <2>3. ~(pause[K(c)] > 0)
    BY <2>2 DEF Admit, Allow, Open
  <2>4. /\ K(c) \in Clients /\ OpenFor \in Nat
        /\ pause[K(c)] \in Int /\ openAge[K(c)] \in Nat
    BY <1>1, ClientAssumption DEF TypeInv, TypeOK
  <2> QED BY <1>1, <2>3, <2>4 DEF BreakerInv, PauseInv
<1>2. TypeInv /\ BreakerInv /\ [Next]_vars
        => [\A c \in Callers :
              (pc[c] = "idle" /\ pc'[c] = "admitted") => openAge[K(c)] >= OpenFor]_vars
  BY <1>1
<1> QED BY <1>2, BreakerInvariance, PTL DEF Spec, PauseRunsItsCourse
-----------------------------------------------------------------------------
(* The pace.  A caller that holds a slot of its client's bucket waits for   *)
(* the slot, or past it for the jitter it drew: its slot is at most wait    *)
(* ahead, and what it drew less at least.                                   *)
Holds(c)     == K(c) \notin MisClients /\ pc[c] \in {"token", "jitter"}
Drawn(c)     == IF pc[c] = "jitter" THEN LongestJitter ELSE 0
Behind(c, d) == wait[d] + Interval <= wait[c] + Drawn(d)

BeforeNext   == \A c \in Callers : Holds(c) => wait[c] + Interval <= nextSlot[K(c)] + Drawn(c)
HoldersApart == \A c, d \in Callers :
  Holds(c) /\ Holds(d) /\ c # d /\ K(c) = K(d) =>
    /\ Behind(c, d) \/ Behind(d, c)
    /\ pc[c] = "token" /\ pc[d] = "jitter" => Behind(c, d)
(* Nobody's request will follow the last one too soon, not even that of a   *)
(* caller yet to come.                                                      *)
HoldersLate  == \A c \in Callers : Holds(c) => Interval <= sinceFirst[K(c)] + wait[c] + LongestJitter
NextLate     == \A k \in Clients \ MisClients :
  Interval <= sinceFirst[k] + nextSlot[k] + LongestJitter
PaceInv == BeforeNext /\ HoldersApart /\ HoldersLate /\ NextLate

LEMMA LongestIsLongest ==
  LongestJitter \in Nat /\ \A j \in Jitters : j \in Nat /\ j <= LongestJitter
BY ClientAssumption DEF LongestJitter

(* The numbers the lemmas below calculate with.                             *)
LEMMA PaceTypes ==
  ASSUME TypeInv
  PROVE  /\ Interval \in Nat /\ Interval > 0
         /\ \A c \in Callers : K(c) \in Clients /\ wait[c] \in Nat /\ Drawn(c) \in Nat
         /\ \A k \in Clients : nextSlot[k] \in Nat /\ sinceFirst[k] \in Nat
BY ClientAssumption, LongestIsLongest DEF TypeInv, TypeOK, Drawn

(* A step that lets every caller that holds a slot hold it as before, or    *)
(* give it up.                                                              *)
HoldersKept ==
  /\ UNCHANGED <<nextSlot, sinceFirst>>
  /\ \A c \in Callers : Holds(c)' => pc'[c] = pc[c] /\ wait'[c] = wait[c]

LEMMA KeptPaceInv ==
  ASSUME PaceInv, HoldersKept
  PROVE  PaceInv'
<1>1. \A c \in Callers : Holds(c)' => Holds(c) /\ Drawn(c)' = Drawn(c) /\ pc'[c] = pc[c] /\ wait'[c] = wait[c]
  BY DEF HoldersKept, Holds, Drawn
<1>2. BeforeNext' /\ HoldersLate' /\ NextLate'
  BY <1>1 DEF PaceInv, BeforeNext, HoldersLate, NextLate, HoldersKept
<1>3. HoldersApart'
  BY <1>1 DEF PaceInv, HoldersApart, Behind
<1> QED BY <1>2, <1>3 DEF PaceInv

LEMMA TickPaceInv ==
  ASSUME PromptWake, TypeInv, PaceInv, Tick
  PROVE  PaceInv'
<1>1. \A c \in Callers : Holds(c)' => /\ Holds(c) /\ Drawn(c)' = Drawn(c) /\ pc'[c] = pc[c]
                                      /\ wait[c] > 0 /\ wait'[c] = wait[c] - 1
  BY PaceTypes DEF Tick, Due, Sleeping, Down, Holds, Drawn
<1>2. \A k \in Clients :
        /\ nextSlot'[k] \in Nat /\ nextSlot'[k] >= nextSlot[k] - 1
        /\ sinceFirst'[k] \in Nat
        /\ sinceFirst'[k] >= Interval \/ sinceFirst'[k] = sinceFirst[k] + 1
  BY PaceTypes DEF Tick, Down, Smaller, TypeInv, TypeOK
<1>3. BeforeNext' /\ HoldersLate'
  BY <1>1, <1>2, PaceTypes, LongestIsLongest DEF PaceInv, BeforeNext, HoldersLate
<1>4. HoldersApart'
  BY <1>1, PaceTypes DEF PaceInv, HoldersApart, Behind
<1>5. NextLate'
  BY <1>2, PaceTypes, LongestIsLongest DEF PaceInv, NextLate
<1> QED BY <1>3, <1>4, <1>5 DEF PaceInv

(* A new slot lies behind everybody's.                                      *)
LEMMA ReservePaceInv ==
  ASSUME TypeInv, PaceInv, NEW c \in Callers, Reserve(c)
  PROVE  PaceInv'
<1> USE PaceTypes, LongestIsLongest
<1>1. /\ K(c) \notin MisClients /\ pc'[c] = "token" /\ wait'[c] = nextSlot[K(c)]
      /\ \A d \in Callers \ {c} : pc'[d] = pc[d] /\ wait'[d] = wait[d]
      /\ \A k \in Clients : nextSlot'[k] = IF k = K(c) THEN nextSlot[k] + Interval ELSE nextSlot[k]
      /\ UNCHANGED sinceFirst
  BY DEF Reserve, Goto, TypeInv, TypeOK
<1>2. Drawn(c)' = 0 /\ \A d \in Callers \ {c} : Drawn(d)' = Drawn(d) /\ (Holds(d)' <=> Holds(d))
  BY <1>1 DEF Drawn, Holds
<1>3. BeforeNext' /\ HoldersLate' /\ NextLate'
  BY <1>1, <1>2 DEF PaceInv, BeforeNext, HoldersLate, NextLate
<1>4. \A d \in Callers \ {c} : Holds(d) /\ K(d) = K(c) => Behind(c, d)'
  BY <1>1, <1>2 DEF PaceInv, BeforeNext, Behind
<1>5. HoldersApart'
  BY <1>1, <1>2, <1>4 DEF PaceInv, HoldersApart, Behind
<1> QED BY <1>3, <1>5 DEF PaceInv

(* The jitter is drawn at the slot's very instant: everybody still queued   *)
(* lies behind it.                                                          *)
LEMMA JitterPaceInv ==
  ASSUME TypeInv, PaceInv, NEW c \in Callers, Jitter(c)
  PROVE  PaceInv'
<1> USE PaceTypes, LongestIsLongest
<1>1. CASE K(c) \in MisClients
  <2>1. HoldersKept
    BY <1>1 DEF Jitter, Goto, HoldersKept, Holds, TypeInv, TypeOK
  <2> QED BY <2>1, KeptPaceInv
<1>2. CASE K(c) \notin MisClients
  <2>1. /\ pc[c] = "token" /\ wait[c] = 0 /\ Holds(c) /\ pc'[c] = "jitter"
        /\ wait'[c] \in Nat /\ wait'[c] <= LongestJitter
        /\ \A d \in Callers \ {c} : pc'[d] = pc[d] /\ wait'[d] = wait[d]
        /\ UNCHANGED <<nextSlot, sinceFirst>>
    BY <1>2 DEF Jitter, Goto, Holds, TypeInv, TypeOK
  <2>2. /\ Drawn(c)' = LongestJitter /\ Drawn(c) = 0
        /\ \A d \in Callers \ {c} : Drawn(d)' = Drawn(d) /\ (Holds(d)' <=> Holds(d))
    BY <2>1 DEF Drawn, Holds
  <2>3. BeforeNext' /\ HoldersLate' /\ NextLate'
    BY <2>1, <2>2 DEF PaceInv, BeforeNext, HoldersLate, NextLate
  <2>4. ASSUME NEW d \in Callers \ {c}, Holds(d), K(d) = K(c)
        PROVE  /\ Behind(d, c)' \/ Behind(c, d)'
               /\ pc[d] = "token" => Behind(d, c)'
    <3>1. Behind(c, d) \/ Behind(d, c)
      BY <2>1, <2>4 DEF PaceInv, HoldersApart
    <3>2. Behind(d, c) => Behind(d, c)'
      BY <2>1, <2>2 DEF Behind
    <3>3. Behind(c, d) => Behind(c, d)'
      BY <2>1, <2>2 DEF Behind
    <3>4. pc[d] = "token" => ~Behind(c, d)
      BY <2>1 DEF Behind, Drawn
    <3> QED BY <3>1, <3>2, <3>3, <3>4
  <2>5. HoldersApart'
    BY <2>1, <2>2, <2>4 DEF PaceInv, HoldersApart, Behind
  <2> QED BY <2>3, <2>5 DEF PaceInv
<1> QED BY <1>1, <1>2

(* Only the last slot is given back, and everybody else's lies before it.   *)
LEMMA GiveUpPaceInv ==
  ASSUME TypeInv, PaceInv, NEW c \in Callers, GiveUp(c)
  PROVE  PaceInv'
<1> USE PaceTypes, LongestIsLongest
<1>1. /\ ~Holds(c)' /\ UNCHANGED sinceFirst
      /\ \A d \in Callers \ {c} : pc'[d] = pc[d] /\ wait'[d] = wait[d]
  BY DEF GiveUp, Goto, Holds, TypeInv, TypeOK
<1>2. CASE UNCHANGED nextSlot
  <2>1. HoldersKept
    BY <1>1, <1>2 DEF HoldersKept
  <2> QED BY <2>1, KeptPaceInv
<1>3. CASE pc[c] = "token" /\ LastReservation(c) /\ nextSlot' = [nextSlot EXCEPT ![K(c)] = @ - Interval]
  <2>1. nextSlot[K(c)] - Interval = wait[c]
    BY <1>3 DEF LastReservation
  <2>2. \A k \in Clients : nextSlot'[k] = IF k = K(c) THEN wait[c] ELSE nextSlot[k]
    BY <1>3, <2>1 DEF TypeInv, TypeOK
  <2>3. \A d \in Callers \ {c} : Holds(d)' => Holds(d) /\ Drawn(d)' = Drawn(d)
    BY <1>1 DEF Holds, Drawn
  <2>4. ASSUME NEW d \in Callers \ {c}, Holds(d), K(d) = K(c), K(c) \notin MisClients
        PROVE  wait[d] + Interval <= wait[c] + Drawn(d)
    <3>1. Holds(c) /\ Drawn(c) = 0
      BY <1>3, <2>4 DEF Holds, Drawn
    <3>2. CASE pc[d] = "jitter"
      BY <1>3, <2>4, <3>1, <3>2 DEF PaceInv, HoldersApart, Behind
    <3>3. CASE pc[d] = "token"
      <4>1. Behind(c, d) \/ Behind(d, c)
        BY <2>4, <3>1 DEF PaceInv, HoldersApart
      <4>2. wait[d] + Interval <= nextSlot[K(c)] + Drawn(d) /\ Drawn(d) = 0
        BY <2>4, <3>3 DEF PaceInv, BeforeNext, Drawn
      <4> QED BY <2>1, <3>1, <4>1, <4>2 DEF Behind
    <3> QED BY <2>4, <3>2, <3>3 DEF Holds
  <2>5. BeforeNext'
    BY <1>1, <2>2, <2>3, <2>4 DEF PaceInv, BeforeNext, Holds
  <2>6. HoldersApart' /\ HoldersLate'
    BY <1>1, <2>3 DEF PaceInv, HoldersApart, HoldersLate, Behind
  <2>7. NextLate'
    <3>1. K(c) \notin MisClients => Interval <= sinceFirst[K(c)] + wait[c] + LongestJitter
      BY <1>3 DEF PaceInv, HoldersLate, Holds
    <3> QED BY <1>1, <2>2, <3>1 DEF PaceInv, NextLate
  <2> QED BY <2>5, <2>6, <2>7 DEF PaceInv
<1> QED BY <1>2, <1>3 DEF GiveUp

(* After a first request the others are still due Interval later, but for   *)
(* the jitter it waited.                                                    *)
LEMMA SendPaceInv ==
  ASSUME TypeInv, PaceInv, NEW c \in Callers, Send(c)
  PROVE  PaceInv'
<1> USE PaceTypes, LongestIsLongest
<1>1. /\ pc[c] = "jitter" /\ wait[c] = 0 /\ Drawn(c) = LongestJitter /\ ~Holds(c)'
      /\ \A d \in Callers \ {c} : pc'[d] = pc[d] /\ wait'[d] = wait[d]
      /\ \A k \in Clients : sinceFirst'[k] = IF k = K(c) THEN 0 ELSE sinceFirst[k]
      /\ UNCHANGED nextSlot
  BY DEF Send, Goto, Holds, Drawn, TypeInv, TypeOK
<1>2. \A d \in Callers \ {c} : Holds(d)' => Holds(d) /\ Drawn(d)' = Drawn(d)
  BY <1>1 DEF Holds, Drawn
<1>3. BeforeNext' /\ HoldersApart'
  BY <1>1, <1>2 DEF PaceInv, BeforeNext, HoldersApart, Behind
<1>4. ASSUME NEW d \in Callers \ {c}, Holds(d), K(d) = K(c)
      PROVE  Interval <= wait[d] + LongestJitter
  <2>1. Holds(c)
    BY <1>1, <1>4 DEF Holds
  <2>2. Behind(c, d) \/ Behind(d, c)
    BY <1>4, <2>1 DEF PaceInv, HoldersApart
  <2>3. Drawn(d) <= LongestJitter
    BY DEF Drawn
  <2> QED BY <1>1, <2>2, <2>3 DEF Behind
<1>5. HoldersLate'
  BY <1>1, <1>2, <1>4 DEF PaceInv, HoldersLate
<1>6. K(c) \notin MisClients => Interval <= nextSlot[K(c)] + LongestJitter
  BY <1>1 DEF PaceInv, BeforeNext, Holds
<1>7. NextLate'
  BY <1>1, <1>6 DEF PaceInv, NextLate
<1> QED BY <1>3, <1>5, <1>7 DEF PaceInv

LEMMA NextPaceInv ==
  ASSUME PromptWake, TypeInv, PaceInv, [Next]_vars
  PROVE  PaceInv'
<1>1. CASE Tick
  BY <1>1, TickPaceInv
<1>2. ASSUME NEW c \in Callers, Admit(c) \/ GiveUp(c) \/ Proceed(c)
      PROVE  PaceInv'
  <2>1. CASE Admit(c) \/ Resend(c) \/ Ends(c) \/ AnswerBlocked(c)
    <3>1. HoldersKept
      BY <2>1 DEF TypeInv, TypeOK, Holds, HoldersKept, Goto, Admit, Resend, Ends, Return, AnswerBlocked
    <3> QED BY <3>1, KeptPaceInv
  <2> QED BY <1>2, <2>1, AnswerCases, GiveUpPaceInv, ReservePaceInv, JitterPaceInv, SendPaceInv DEF Proceed
<1>3. CASE UNCHANGED vars
  <2>1. HoldersKept
    BY <1>3 DEF Holds, HoldersKept
  <2> QED BY <2>1, KeptPaceInv
<1> QED BY <1>1, <1>2, <1>3 DEF Next

(* The first requests of two calls leave a client Interval apart, but for   *)
(* the longest jitter, when the goroutines wake in time.                    *)
THEOREM FirstRequestsPaced ==
  ASSUME PromptWake
  PROVE  Spec => FirstRequestsNearlySpaced
<1>1. Init => PaceInv
  <2> SUFFICES ASSUME Init PROVE PaceInv
    OBVIOUS
  <2>1. BeforeNext /\ HoldersApart /\ HoldersLate
    BY DEF Init, BeforeNext, HoldersApart, HoldersLate, Holds
  <2>2. NextLate
    BY ClientAssumption, LongestIsLongest DEF Init, NextLate
  <2> QED BY <2>1, <2>2 DEF PaceInv
<1>2. Spec => [](TypeInv /\ PaceInv)
  BY <1>1, NextPaceInv, TypeInvariance, PTL DEF Spec
<1>3. ASSUME TypeInv, PaceInv, NEW c \in Callers, [Next]_vars, SendsFirst(c), K(c) \notin MisClients
      PROVE  sinceFirst[K(c)] >= Interval - LongestJitter
  <2>1. pc[c] = "jitter" /\ pc'[c] = "sent"
    BY <1>3 DEF SendsFirst, Sends
  <2>2. Send(c)
    <3>1. ~Tick /\ ~UNCHANGED vars
      BY <2>1 DEF Tick
    <3>2. PICK d \in Callers : Admit(d) \/ GiveUp(d) \/ Proceed(d)
      BY <1>3, <3>1 DEF Next
    <3>3. d = c
      BY <1>3, <2>1, <3>2, AnswerCases DEF Admit, GiveUp, Proceed, Reserve, Jitter, Send, Resend,
         Ends, AnswerBlocked, Return, Goto, TypeInv, TypeOK
    <3>4. ~Admit(c) /\ ~GiveUp(c) /\ ~Reserve(c) /\ ~Jitter(c) /\ ~Resend(c)
      BY <1>3, <2>1 DEF Admit, GiveUp, Reserve, Jitter, Resend, Goto, TypeInv, TypeOK
    <3>5. ~Answer(c)
      BY <2>1, AnswerCases DEF Ends, AnswerBlocked, Return
    <3> QED BY <3>2, <3>3, <3>4, <3>5 DEF Proceed
  <2>3. Interval <= sinceFirst[K(c)] + wait[c] + LongestJitter /\ wait[c] = 0
    BY <1>3, <2>1, <2>2 DEF PaceInv, HoldersLate, Holds, Send
  <2> QED BY <1>3, <2>3, PaceTypes, LongestIsLongest
<1>4. TypeInv /\ PaceInv /\ [Next]_vars
        => [\A c \in Callers : SendsFirst(c) /\ K(c) \notin MisClients =>
              sinceFirst[K(c)] >= Interval - LongestJitter]_vars
  BY <1>3
<1> QED BY <1>2, <1>4, PTL DEF Spec, FirstRequestsNearlySpaced
=============================================================================
