--------------------------- MODULE ResilientClient ---------------------------
(***************************************************************************)
(* The guarded HTTP client of pkg/provider: BaseClient.Do takes a call     *)
(* through the circuit breaker, the token bucket (burst 1) and the jitter  *)
(* of its host, sends the request, and retries a 403/429 with exponential  *)
(* backoff.  All callers talk to one host, through one or more BaseClients *)
(* (the application builds several for www.twse.com.tw).                   *)
(*                                                                         *)
(* Every instant the code keeps is modelled by its distance from now, in   *)
(* units of time, so a run may go on for ever in finitely many states.     *)
(* sinceFirst, sinceSend and openAge only record history.                  *)
(***************************************************************************)
EXTENDS Integers

CONSTANTS
  Callers,       \* goroutines that call Do
  Clients,       \* BaseClients built for the host
  ClientOf,      \* the client each caller uses
  MaxFailures,   \* breakerMaxFailures
  OpenFor,       \* breakerOpenFor
  Interval,      \* the host's request interval
  Jitters,       \* the waits jitter() may choose; a negative draw is 0
  MisClients,    \* clients of MIS at its default pace: no token bucket
  MaxRetries,    \* maxRetries
  FirstBackoff, BackoffCap,
  Cancellable,   \* callers whose context may end while they wait
  PromptWake,    \* TRUE: a goroutine whose timer fired runs within the unit
  MaxSlot        \* bound: slots are abandoned in a queue no longer than this

ASSUME ClientAssumption ==
  /\ ClientOf \in [Callers -> Clients]
  /\ MaxFailures \in Nat \ {0} /\ OpenFor \in Nat \ {0}
  /\ Interval \in Nat \ {0} /\ MaxSlot \in Nat
  /\ Jitters \subseteq Nat /\ \E j \in Jitters : \A i \in Jitters : i <= j
  /\ MaxRetries \in Nat
  /\ FirstBackoff \in Nat \ {0} /\ BackoffCap \in Nat /\ BackoffCap >= FirstBackoff
  /\ Cancellable \subseteq Callers
  /\ MisClients \subseteq Clients /\ PromptWake \in BOOLEAN

VARIABLES
  failures,    \* per client, consecutive failures (counted up to MaxFailures)
  pause,       \* per client, openUntil - now; see NoPause and Expired
  nextSlot,    \* per client, when the bucket has a token again
  pc,          \* per caller, where its Do stands
  wait,        \* per caller, what is left of the timer it sleeps on
  attempt, backoff,   \* per caller, the retry loop's variables
  sinceFirst,  \* per client, time since a call last sent its first request
  sinceSend,   \* time since the host last got a request
  openAge      \* per client, time since the breaker last went from closed to open

breakerVars == <<failures, pause, openAge>>
limiterVars == nextSlot
callVars    == <<pc, wait, attempt, backoff>>
gapVars     == <<sinceFirst, sinceSend>>
vars == <<breakerVars, limiterVars, callVars, gapVars>>
-----------------------------------------------------------------------------
NoPause == -2   \* openUntil is the zero time
Expired == -1   \* now is after openUntil; 0 is the very instant

Pcs      == {"idle", "admitted", "token", "jitter", "sent", "backoff"}
Sleeping == {"token", "jitter", "backoff"}
K(c)     == ClientOf[c]
Down(n)  == IF n > 0 THEN n - 1 ELSE n
Smaller(a, b) == IF a < b THEN a ELSE b

Init ==
  /\ failures = [k \in Clients |-> 0]
  /\ pause = [k \in Clients |-> NoPause]
  /\ nextSlot = [k \in Clients |-> 0]
  /\ pc = [c \in Callers |-> "idle"]
  /\ wait = [c \in Callers |-> 0]
  /\ attempt = [c \in Callers |-> 0]
  /\ backoff = [c \in Callers |-> FirstBackoff]
  /\ sinceFirst = [k \in Clients |-> Interval]
  /\ sinceSend = Interval
  /\ openAge = [k \in Clients |-> OpenFor]

(* A unit of time passes.  No timer is left waiting past its instant when  *)
(* goroutines wake promptly.                                               *)
Due(c) == pc[c] = "admitted" \/ (pc[c] \in Sleeping /\ wait[c] = 0)
Tick ==
  /\ PromptWake => \A c \in Callers : ~Due(c)
  /\ pause' = [k \in Clients |-> IF pause[k] >= 0 THEN pause[k] - 1 ELSE pause[k]]
  /\ nextSlot' = [k \in Clients |-> Down(nextSlot[k])]
  /\ wait' = [c \in Callers |-> Down(wait[c])]
  /\ sinceFirst' = [k \in Clients |-> Smaller(sinceFirst[k] + 1, Interval)]
  /\ sinceSend' = Smaller(sinceSend + 1, Interval)
  /\ openAge' = [k \in Clients |-> Smaller(openAge[k] + 1, OpenFor)]
  /\ UNCHANGED <<failures, pc, attempt, backoff>>
-----------------------------------------------------------------------------
(* The breaker.                                                            *)

Open(k) == pause[k] > 0

(* Mutant: an open breaker refuses nobody.                                  *)
AllowEveryone(k) == UNCHANGED breakerVars
(* Mutant: recovery forgets to reset the count.                             *)
AllowKeepsCount(k) ==
  /\ ~Open(k)
  /\ pause' = [pause EXCEPT ![k] = IF @ = Expired THEN NoPause ELSE @]
  /\ UNCHANGED <<failures, openAge>>
(* Allow, when it lets the call pass; a refused call returns at once and   *)
(* changes nothing.  Only strictly after openUntil does it recover.        *)
Allow(k) ==
  /\ ~Open(k)
  /\ IF pause[k] = Expired
       THEN /\ pause' = [pause EXCEPT ![k] = NoPause]
            /\ failures' = [failures EXCEPT ![k] = 0]
       ELSE UNCHANGED <<pause, failures>>
  /\ UNCHANGED openAge

(* Mutant: a success closes an open breaker.                                *)
RecordOkCloses(k) ==
  /\ failures' = [failures EXCEPT ![k] = 0]
  /\ pause' = [pause EXCEPT ![k] = NoPause]
  /\ UNCHANGED openAge
RecordOk(k) ==
  /\ failures' = [failures EXCEPT ![k] = 0]
  /\ UNCHANGED <<pause, openAge>>

(* Record(false): from MaxFailures on, every failure (re)starts the pause.  *)
RecordFailure(k) ==
  /\ failures' = [failures EXCEPT ![k] = Smaller(@ + 1, MaxFailures)]
  /\ IF failures[k] + 1 >= MaxFailures
       THEN /\ pause' = [pause EXCEPT ![k] = OpenFor]
            /\ openAge' = [openAge EXCEPT ![k] = IF Open(k) THEN @ ELSE 0]
       ELSE UNCHANGED <<pause, openAge>>
-----------------------------------------------------------------------------
(* Do, up to the request.                                                  *)

Goto(c, label, timer) ==
  /\ pc' = [pc EXCEPT ![c] = label]
  /\ wait' = [wait EXCEPT ![c] = timer]

Admit(c) ==
  /\ pc[c] = "idle"
  /\ Allow(K(c))
  /\ Goto(c, "admitted", 0)
  /\ UNCHANGED <<limiterVars, attempt, backoff, gapVars>>

(* Mutant: a reservation does not move the bucket on when it must wait.     *)
ReserveOnlyWhenFree(c) ==
  /\ pc[c] = "admitted" /\ K(c) \notin MisClients
  /\ Goto(c, "token", nextSlot[K(c)])
  /\ nextSlot' = [nextSlot EXCEPT ![K(c)] = IF @ = 0 THEN Interval ELSE @]
  /\ UNCHANGED <<breakerVars, attempt, backoff, gapVars>>
(* rate.Limiter.Wait reserves the next free slot of the client's bucket.   *)
Reserve(c) ==
  /\ pc[c] = "admitted" /\ K(c) \notin MisClients
  /\ Goto(c, "token", nextSlot[K(c)])
  /\ nextSlot' = [nextSlot EXCEPT ![K(c)] = @ + Interval]
  /\ UNCHANGED <<breakerVars, attempt, backoff, gapVars>>

(* The jitter is drawn once the token is there, or at once for MIS.        *)
Jitter(c) ==
  /\ \/ pc[c] = "admitted" /\ K(c) \in MisClients
     \/ pc[c] = "token" /\ wait[c] = 0
  /\ \E j \in Jitters : Goto(c, "jitter", j)
  /\ UNCHANGED <<breakerVars, limiterVars, attempt, backoff, gapVars>>

(* Mutant: any cancelled reservation gives its slot back.                   *)
AlwaysLast(c) == TRUE
(* x/time/rate restores a cancelled reservation only while no later one    *)
(* has been made.                                                          *)
LastReservation(c) == wait[c] + Interval = nextSlot[K(c)]

(* The caller's context ends while it waits: Do returns and records        *)
(* nothing.                                                                *)
GiveUp(c) ==
  /\ c \in Cancellable
  /\ pc[c] \in Sleeping \cup {"admitted"}
  /\ IF pc[c] = "token" /\ wait[c] > 0 /\ LastReservation(c)
       THEN nextSlot' = [nextSlot EXCEPT ![K(c)] = @ - Interval]
       ELSE nextSlot[K(c)] <= MaxSlot /\ UNCHANGED nextSlot
  /\ Goto(c, "idle", 0)
  /\ attempt' = [attempt EXCEPT ![c] = 0]
  /\ backoff' = [backoff EXCEPT ![c] = FirstBackoff]
  /\ UNCHANGED <<breakerVars, gapVars>>
-----------------------------------------------------------------------------
(* The request and the retry loop.                                         *)

Send(c) ==
  /\ pc[c] = "jitter" /\ wait[c] = 0
  /\ Goto(c, "sent", 0)
  /\ sinceFirst' = [sinceFirst EXCEPT ![K(c)] = 0]
  /\ sinceSend' = 0
  /\ UNCHANGED <<breakerVars, limiterVars, attempt, backoff>>

(* Mutant: the attempt is not counted.                                      *)
ResendUncounted(c) ==
  /\ pc[c] = "backoff" /\ wait[c] = 0
  /\ Goto(c, "sent", 0)
  /\ sinceSend' = 0
  /\ UNCHANGED <<breakerVars, limiterVars, attempt, backoff, sinceFirst>>
(* The next turn of the loop: straight to the request, past breaker and     *)
(* bucket.                                                                  *)
Resend(c) ==
  /\ pc[c] = "backoff" /\ wait[c] = 0
  /\ Goto(c, "sent", 0)
  /\ attempt' = [attempt EXCEPT ![c] = @ + 1]
  /\ backoff' = [backoff EXCEPT ![c] = Smaller(2 * @, BackoffCap)]
  /\ sinceSend' = 0
  /\ UNCHANGED <<breakerVars, limiterVars, sinceFirst>>

Return(c) ==
  /\ pc[c] = "sent"
  /\ Goto(c, "idle", 0)
  /\ attempt' = [attempt EXCEPT ![c] = 0]
  /\ backoff' = [backoff EXCEPT ![c] = FirstBackoff]
  /\ UNCHANGED <<limiterVars, gapVars>>

AnswerOk(c) == Return(c) /\ RecordOk(K(c))

(* Transport error, timeout, the caller's own cancellation, or a status     *)
(* from 400 on other than 403 and 429.                                      *)
AnswerBad(c) == Return(c) /\ RecordFailure(K(c))

(* Mutant: one retry too many.                                              *)
RetriesAllowed(c) == attempt[c] <= MaxRetries
RetriesLeft(c)    == attempt[c] < MaxRetries

(* 403 or 429.                                                              *)
AnswerBlocked(c) ==
  /\ pc[c] = "sent" /\ RetriesLeft(c)
  /\ Goto(c, "backoff", backoff[c])
  /\ UNCHANGED <<breakerVars, limiterVars, attempt, backoff, gapVars>>
AnswerBlockedForGood(c) == ~RetriesLeft(c) /\ Return(c) /\ RecordFailure(K(c))

Answer(c) ==
  AnswerOk(c) \/ AnswerBad(c) \/ AnswerBlocked(c) \/ AnswerBlockedForGood(c)

Proceed(c) == Reserve(c) \/ Jitter(c) \/ Send(c) \/ Resend(c) \/ Answer(c)
Next == Tick \/ \E c \in Callers : Admit(c) \/ GiveUp(c) \/ Proceed(c)

Spec == Init /\ [][Next]_vars
(* Time passes, a goroutine whose timer fired runs, and http.Client's       *)
(* Timeout answers a request nobody else answers.                           *)
FairSpec == Spec /\ WF_vars(Tick) /\ \A c \in Callers : WF_vars(Proceed(c))
-----------------------------------------------------------------------------
TypeOK ==
  /\ failures \in [Clients -> 0..MaxFailures]
  /\ pause \in [Clients -> NoPause..OpenFor]
  /\ nextSlot \in [Clients -> Nat]
  /\ pc \in [Callers -> Pcs]
  /\ wait \in [Callers -> Nat]
  /\ attempt \in [Callers -> 0..MaxRetries]
  /\ backoff \in [Callers -> FirstBackoff..BackoffCap]
  /\ sinceFirst \in [Clients -> 0..Interval]
  /\ sinceSend \in 0..Interval
  /\ openAge \in [Clients -> 0..OpenFor]

(* Once five failures in a row have opened a breaker, no call is let        *)
(* through before OpenFor has passed, whatever the requests already under   *)
(* way report meanwhile (breaker.go 9, 12-20).                              *)
PauseRunsItsCourse ==
  [][\A c \in Callers :
       (pc[c] = "idle" /\ pc'[c] = "admitted") => openAge[K(c)] >= OpenFor]_vars

(* A closed breaker has room for a failure: it never opens on one that is   *)
(* not the fifth since the last success or recovery (breaker.go 19-20).     *)
ClosedHasRoom ==
  \A k \in Clients : pause[k] = NoPause => failures[k] < MaxFailures

(* The callers queued at one bucket hold slots that are Interval apart,     *)
(* whoever joined, was cancelled or rejoined in between (ratelimit.go 133). *)
Queued(c) == pc[c] = "token" /\ wait[c] > 0
SlotsApart ==
  \A c, d \in Callers :
    (Queued(c) /\ Queued(d) /\ c # d /\ K(c) = K(d)) =>
      wait[c] + Interval <= wait[d] \/ wait[d] + Interval <= wait[c]

Sends(c)      == pc[c] # "sent" /\ pc'[c] = "sent"
SendsFirst(c) == pc[c] = "jitter" /\ Sends(c)
LongestJitter == CHOOSE j \in Jitters : \A i \in Jitters : i <= j

(* The first requests of two calls leave one client at least Interval apart *)
(* but for the jitter the first one waited longer (ratelimit.go 133-140).    *)
FirstRequestsNearlySpaced ==
  [][\A c \in Callers :
       SendsFirst(c) /\ K(c) \notin MisClients =>
         sinceFirst[K(c)] >= Interval - LongestJitter]_vars

(* Requests reach the host at least Interval apart: the limiter's promise   *)
(* (ratelimit.go 133, prewarm.go 14-16).                                    *)
RequestsKeepInterval ==
  [][\A c \in Callers : Sends(c) => sinceSend >= Interval]_vars

(* No request reaches the host while its breaker is open (breaker.go 9).    *)
HostPausedWhileOpen ==
  [][\A c \in Callers : Sends(c) => ~Open(K(c))]_vars

(* Every Do returns: the retry loop, the queue and the sleeps end.          *)
EveryDoReturns == \A c \in Callers : pc[c] # "idle" ~> pc[c] = "idle"

(* However badly the host behaves, its breaker lets calls pass again and    *)
(* again: stragglers may prolong a pause, but only finitely often.          *)
BreakerReopens == \A k \in Clients : []<>~Open(k)
=============================================================================
