-------------------------- MODULE ReadThroughCache --------------------------
(***************************************************************************)
(* The two-level read-through cache of pkg/cache: an in-memory L1 with     *)
(* TTL (Ristretto), a SQLite L2 whose rows survive their expiry and a      *)
(* restart, and a singleflight group that merges the misses of one key.    *)
(* Every step below is one access to shared state by one goroutine that    *)
(* runs GetOrFetch or Get; everything between two accesses is local.       *)
(*                                                                         *)
(* Values are abstracted to the version of the upstream document they were *)
(* read from.  served, an entry's due and an answer's overdue only record   *)
(* history: no step of the code depends on them.                           *)
(***************************************************************************)
EXTENDS Naturals

CONSTANTS
  Callers,        \* goroutines calling the cache
  NoCaller,       \* "no flight in progress"
  Keys,           \* cache keys
  Ttls,           \* the TTLs TTLFor may return at call time; 0 is ForeverTTL
  L2Keys,         \* keys whose dataset the policy table admits to L2
  StaleKeys,      \* keys read through fetchNormalize/fetchRaw (WithStaleFallback)
  MinL2Ttl,       \* l2WriteMinTTL
  Forever,        \* an expiry no clock value reaches
  MaxTime,        \* bound: the clock stops here
  MaxVer,         \* bound: versions the upstream publishes
  InstantRefill,  \* TRUE: no time passes between an L2 read and its L1 refill
  L2Faults,       \* TRUE: SQLite reads, writes and (un)marshalling may fail
  Cancellable,    \* callers whose request context may be cancelled
  CronPatterns    \* refresh patterns of scripts/auto_cache_refresh.py that run

ASSUME CacheAssumption ==
  /\ NoCaller \notin Callers
  /\ Keys # {} /\ Ttls # {}
  /\ Ttls \subseteq Nat
  /\ L2Keys \subseteq Keys
  /\ StaleKeys \subseteq Keys
  /\ MinL2Ttl \in Nat /\ MaxTime \in Nat /\ MaxVer \in Nat
  /\ Forever \in Nat /\ Forever > MaxTime
  /\ \A t \in Ttls : MaxTime + t < Forever
  /\ InstantRefill \in BOOLEAN /\ L2Faults \in BOOLEAN
  /\ Cancellable \subseteq Callers

VARIABLES
  now,        \* the clock
  upstream,   \* per key, the version the official source publishes
  l1, l2,     \* per key, the stored entry
  flight,     \* per key, the leader of the singleflight call in progress
  pc, call, hand, answer,   \* per caller
  cancelled,  \* callers whose context is done
  served      \* per key, the newest version any call returned as fresh

cacheVars == <<l1, l2>>
callVars  == <<pc, call, hand, answer, cancelled>>
envVars   == <<now, upstream>>
vars == <<cacheVars, callVars, envVars, flight, served>>
-----------------------------------------------------------------------------
Versions == 0..MaxVer
(* due is the expiry promised when the value was fetched; exp the one the   *)
(* level enforces.                                                          *)
Entry    == [ver : Versions, exp : Nat, due : Nat]
NoEntry  == [ver |-> 0, exp |-> 0, due |-> 0]
Live(e)  == now < e.exp

Modes == {"fetch", "get"}
Call  == [key : Keys, ttl : Ttls, mode : Modes, since : Nat,
          servedBefore : Versions]

NoCall == [key |-> CHOOSE k \in Keys : TRUE, ttl |-> CHOOSE t \in Ttls : TRUE,
           mode |-> "fetch", since |-> 0, servedBefore |-> 0]

(* err: "none", "stale" (ErrServedStale), "miss" (Get only), "l2" (an L2    *)
(* read failed), "upstream", "cancelled" (the fetch's context was done).    *)
Errs   == {"none", "stale", "miss", "l2", "upstream", "cancelled"}
Answer == [ver : Versions, cached : BOOLEAN, err : Errs,
           src : {"nowhere", "l1", "l2", "fetch"}, overdue : BOOLEAN]
NoAnswer == [ver |-> 0, cached |-> FALSE, err |-> "none", src |-> "nowhere",
             overdue |-> FALSE]

LeaderPcs == {"chk1", "chk2", "chkRefill", "fetch", "fallback",
              "store1", "store2", "finish"}
Pcs == {"idle", "l2", "refill", "join", "wait", "done"} \cup LeaderPcs

KeyOf(c)   == call[c].key
Waiters(k) == {d \in Callers : pc[d] = "wait" /\ KeyOf(d) = k}
ExpiryOf(t, ttl) == IF ttl = 0 THEN Forever ELSE t + ttl
Larger(a, b) == IF a < b THEN b ELSE a

(* Mutant: a refilled entry gets a whole TTL again.                         *)
RefillWithFullTtl(row) == now + MinL2Ttl
(* ttlFromExpires followed by l1.set: a remaining TTL that is not positive *)
(* reads as "no expiry".                                                   *)
RefillExpiry(row) == IF row.exp = Forever \/ row.exp <= now THEN Forever ELSE row.exp
FillL1(k, row) == l1' = [l1 EXCEPT ![k] = [row EXCEPT !.exp = RefillExpiry(row)]]

(* allowL2 *)
AllowL2(k) == k \in L2Keys
(* QueryRowContext fails under a done context; otherwise by SQLite's or     *)
(* json.Unmarshal's own failure.                                            *)
ReadMayFail(c) == c \in cancelled \/ L2Faults
ReadMayWork(c) == c \notin cancelled

Goto(c, label) == pc' = [pc EXCEPT ![c] = label]
(* c's result: entry e from level src, or an error.                         *)
Hit(c, e, cached, err, src) ==
  answer' = [answer EXCEPT ![c] =
    [ver |-> e.ver, cached |-> cached, err |-> err, src |-> src,
     overdue |-> e.due <= call[c].since]]
(* Mutant: an error kind the callers do not know.                           *)
FailWithUnknownError(c, err) == answer' = [answer EXCEPT ![c].err = "unknown"]
Fail(c, err) ==
  answer' = [answer EXCEPT ![c] = [NoAnswer EXCEPT !.err = err]]
NoteServed(k, ver) == served' = [served EXCEPT ![k] = Larger(@, ver)]

Init ==
  /\ now = 0
  /\ upstream = [k \in Keys |-> IF MaxVer = 0 THEN 0 ELSE 1]
  /\ l1 = [k \in Keys |-> NoEntry]
  /\ l2 = [k \in Keys |-> NoEntry]
  /\ flight = [k \in Keys |-> NoCaller]
  /\ pc = [c \in Callers |-> "idle"]
  /\ call = [c \in Callers |-> NoCall]
  /\ hand = [c \in Callers |-> NoEntry]
  /\ answer = [c \in Callers |-> NoAnswer]
  /\ cancelled = {}
  /\ served = [k \in Keys |-> 0]
-----------------------------------------------------------------------------
(* The environment.                                                        *)

Tick ==
  /\ now < MaxTime
  /\ InstantRefill => \A c \in Callers : pc[c] \notin {"refill", "chkRefill"}
  /\ now' = now + 1
  /\ UNCHANGED <<cacheVars, callVars, upstream, flight, served>>

Publish(k) ==
  /\ upstream[k] < MaxVer
  /\ upstream' = [upstream EXCEPT ![k] = @ + 1]
  /\ UNCHANGED <<cacheVars, callVars, now, flight, served>>

(* TinyLFU may drop any entry, at admission or later.                      *)
Evict(k) ==
  /\ l1[k] # NoEntry
  /\ l1' = [l1 EXCEPT ![k] = NoEntry]
  /\ UNCHANGED <<l2, callVars, envVars, flight, served>>

Cancel(c) ==
  /\ c \in Cancellable \ cancelled
  /\ pc[c] \notin {"idle", "done"}
  /\ cancelled' = cancelled \cup {c}
  /\ UNCHANGED <<cacheVars, pc, call, hand, answer, envVars, flight, served>>

(* The process dies and starts again: only SQLite survives.                *)
Restart ==
  /\ l1' = [k \in Keys |-> NoEntry]
  /\ flight' = [k \in Keys |-> NoCaller]
  /\ pc' = [c \in Callers |-> "idle"]
  /\ hand' = [c \in Callers |-> NoEntry]
  /\ answer' = [c \in Callers |-> NoAnswer]
  /\ cancelled' = {}
  /\ call' = [c \in Callers |-> NoCall]
  /\ UNCHANGED <<l2, envVars, served>>

(* auto_cache_refresh.py deletes the rows whose key is LIKE the pattern.    *)
(* Every key is 16 hexadecimal digits of a SHA-256 (KeyString), so a        *)
(* pattern naming a dataset selects no row; only "%" (--all) selects any.   *)
KeyLike(k, pattern) == pattern = "all"
CronRefresh(pattern) ==
  /\ l2' = [k \in Keys |-> IF KeyLike(k, pattern) THEN NoEntry ELSE l2[k]]
  /\ UNCHANGED <<l1, callVars, envVars, flight, served>>
-----------------------------------------------------------------------------
(* The path outside the flight: lines 152-159 of GetOrFetch, and Get.      *)

(* A call begins with the L1 lookup.                                       *)
Begin(c, k, ttl, mode) ==
  /\ pc[c] = "idle"
  /\ call' = [call EXCEPT ![c] =
       [key |-> k, ttl |-> ttl, mode |-> mode, since |-> now,
        servedBefore |-> served[k]]]
  /\ IF Live(l1[k])
       THEN /\ Goto(c, "done")
            /\ answer' = [answer EXCEPT ![c] =
                 [ver |-> l1[k].ver, cached |-> TRUE, err |-> "none",
                  src |-> "l1", overdue |-> l1[k].due <= now]]
            /\ NoteServed(k, l1[k].ver)
       ELSE /\ Goto(c, "l2")
            /\ UNCHANGED <<answer, served>>
  /\ UNCHANGED <<cacheVars, hand, cancelled, envVars, flight>>

(* What a caller without a hit does: a Get answers "miss", GetOrFetch joins *)
(* the flight.                                                              *)
PassL2(c) ==
  IF call[c].mode = "get"
    THEN Goto(c, "done") /\ Fail(c, "miss")
    ELSE Goto(c, "join") /\ UNCHANGED answer

ReadL2(c) ==
  LET row == l2[KeyOf(c)] IN
  /\ pc[c] = "l2"
  /\ \/ /\ ~AllowL2(KeyOf(c))
        /\ PassL2(c) /\ UNCHANGED hand
     \/ /\ AllowL2(KeyOf(c)) /\ ReadMayFail(c)
        /\ Goto(c, "done") /\ Fail(c, "l2") /\ UNCHANGED hand
     \/ /\ AllowL2(KeyOf(c)) /\ ReadMayWork(c) /\ ~Live(row)
        /\ PassL2(c) /\ UNCHANGED hand
     \/ /\ AllowL2(KeyOf(c)) /\ ReadMayWork(c) /\ Live(row)
        /\ Goto(c, "refill") /\ hand' = [hand EXCEPT ![c] = row] /\ UNCHANGED answer
  /\ UNCHANGED <<cacheVars, call, cancelled, envVars, flight, served>>

(* l2Get's refill of L1 with the time the row has left, then the return.   *)
Refill(c) ==
  LET row == hand[c] IN
  /\ pc[c] = "refill"
  /\ FillL1(KeyOf(c), row)
  /\ hand' = [hand EXCEPT ![c] = NoEntry]
  /\ Goto(c, "done")
  /\ Hit(c, row, TRUE, "none", "l2")
  /\ NoteServed(KeyOf(c), row.ver)
  /\ UNCHANGED <<l2, call, cancelled, envVars, flight>>

(* Mutant: every miss leads, whether or not a flight is in progress.        *)
JoinWithoutFlight(c) ==
  /\ pc[c] = "join"
  /\ flight' = [flight EXCEPT ![KeyOf(c)] = c]
  /\ Goto(c, "chk1")
  /\ UNCHANGED <<cacheVars, call, hand, answer, cancelled, envVars, served>>
(* singleflight.Do: the first caller leads, the others wait for its result. *)
Join(c) ==
  /\ pc[c] = "join"
  /\ IF flight[KeyOf(c)] = NoCaller
       THEN /\ flight' = [flight EXCEPT ![KeyOf(c)] = c]
            /\ Goto(c, "chk1")
       ELSE /\ Goto(c, "wait")
            /\ UNCHANGED flight
  /\ UNCHANGED <<cacheVars, call, hand, answer, cancelled, envVars, served>>
-----------------------------------------------------------------------------
(* The leader's function: lines 161-186.                                   *)

CheckL1(c) ==
  LET e == l1[KeyOf(c)] IN
  /\ pc[c] = "chk1"
  /\ IF Live(e)
       THEN Goto(c, "finish") /\ Hit(c, e, FALSE, "none", "l1")
       ELSE Goto(c, "chk2") /\ UNCHANGED answer
  /\ UNCHANGED <<cacheVars, call, hand, cancelled, envVars, flight, served>>

(* Mutant: the leader does not look at L2 a second time.                    *)
CheckL2Skipped(c) ==
  /\ pc[c] = "chk2" /\ Goto(c, "fetch")
  /\ UNCHANGED <<cacheVars, call, hand, answer, cancelled, envVars, flight, served>>
CheckL2(c) ==
  LET row == l2[KeyOf(c)] IN
  /\ pc[c] = "chk2"
  /\ \/ /\ ~AllowL2(KeyOf(c))
        /\ Goto(c, "fetch") /\ UNCHANGED <<hand, answer>>
     \/ /\ AllowL2(KeyOf(c)) /\ ReadMayFail(c)
        /\ Goto(c, "finish") /\ Fail(c, "l2") /\ UNCHANGED hand
     \/ /\ AllowL2(KeyOf(c)) /\ ReadMayWork(c) /\ ~Live(row)
        /\ Goto(c, "fetch") /\ UNCHANGED <<hand, answer>>
     \/ /\ AllowL2(KeyOf(c)) /\ ReadMayWork(c) /\ Live(row)
        /\ Goto(c, "chkRefill") /\ hand' = [hand EXCEPT ![c] = row] /\ UNCHANGED answer
  /\ UNCHANGED <<cacheVars, call, cancelled, envVars, flight, served>>

CheckRefill(c) ==
  LET row == hand[c] IN
  /\ pc[c] = "chkRefill"
  /\ FillL1(KeyOf(c), row)
  /\ hand' = [hand EXCEPT ![c] = NoEntry]
  /\ Goto(c, "finish")
  /\ Hit(c, row, FALSE, "none", "l2")
  /\ UNCHANGED <<l2, call, cancelled, envVars, flight, served>>

(* The upstream answers with the document it publishes at that moment.     *)
FetchOk(c) ==
  /\ pc[c] = "fetch"
  /\ hand' = [hand EXCEPT ![c] = [NoEntry EXCEPT !.ver = upstream[KeyOf(c)]]]
  /\ Goto(c, "store1")
  /\ UNCHANGED <<cacheVars, call, answer, cancelled, envVars, flight, served>>

(* Mutant: the error is returned without a look at the expired row.         *)
FetchFailNoFallback(c) ==
  /\ pc[c] = "fetch" /\ Goto(c, "finish")
  /\ Fail(c, IF c \in cancelled THEN "cancelled" ELSE "upstream")
  /\ UNCHANGED <<cacheVars, call, hand, cancelled, envVars, flight, served>>
(* The fetch fails: upstream error, or the leader's own context is done.   *)
FetchFail(c) ==
  /\ pc[c] = "fetch"
  /\ Fail(c, IF c \in cancelled THEN "cancelled" ELSE "upstream")
  /\ Goto(c, IF KeyOf(c) \in StaleKeys /\ AllowL2(KeyOf(c)) THEN "fallback" ELSE "finish")
  /\ UNCHANGED <<cacheVars, call, hand, cancelled, envVars, flight, served>>

(* Mutant: the stale value is put back in L1.                               *)
FallbackRefills(c) ==
  LET row == l2[KeyOf(c)] IN
  /\ pc[c] = "fallback" /\ Goto(c, "finish")
  /\ IF ReadMayWork(c) /\ row # NoEntry
       THEN Hit(c, row, TRUE, "stale", "l2") /\ FillL1(KeyOf(c), row)
       ELSE UNCHANGED <<answer, l1>>
  /\ UNCHANGED <<l2, call, hand, cancelled, envVars, flight, served>>
(* stale-if-error: an expired row answers for the failed fetch; an L2 read  *)
(* failure, no row or an unexpired one leaves the fetch's error.            *)
Fallback(c) ==
  LET row == l2[KeyOf(c)] IN
  /\ pc[c] = "fallback"
  /\ Goto(c, "finish")
  /\ \/ /\ ReadMayFail(c) \/ row = NoEntry \/ Live(row)
        /\ UNCHANGED answer
     \/ /\ ReadMayWork(c) /\ row # NoEntry /\ ~Live(row)
        /\ Hit(c, row, TRUE, "stale", "l2")
  /\ UNCHANGED <<cacheVars, call, hand, cancelled, envVars, flight, served>>

(* What a store at this moment writes for the version c fetched.           *)
Stored(c) ==
  LET exp == ExpiryOf(now, call[c].ttl) IN
  [ver |-> hand[c].ver, exp |-> exp, due |-> exp]

(* store, first half: L1 always; L2 only for an admitted dataset and a TTL  *)
(* that is long enough.                                                     *)
StoreL1(c) ==
  LET k == KeyOf(c) IN
  /\ pc[c] = "store1"
  /\ l1' = [l1 EXCEPT ![k] = Stored(c)]
  /\ Hit(c, Stored(c), FALSE, "none", "fetch")
  /\ Goto(c, IF AllowL2(k) /\ (call[c].ttl = 0 \/ call[c].ttl >= MinL2Ttl)
               THEN "store2" ELSE "finish")
  /\ UNCHANGED <<l2, call, hand, cancelled, envVars, flight, served>>

(* store, second half; under context.Background and best effort.           *)
StoreL2(c) ==
  /\ pc[c] = "store2"
  /\ Goto(c, "finish")
  /\ \/ l2' = [l2 EXCEPT ![KeyOf(c)] = Stored(c)]
     \/ L2Faults /\ UNCHANGED l2
  /\ UNCHANGED <<l1, call, hand, answer, cancelled, envVars, flight, served>>

(* Mutant: a failed flight stays registered.                                *)
FinishKeepsFailedFlight(c) ==
  LET members == {c} \cup Waiters(KeyOf(c)) IN
  /\ pc[c] = "finish"
  /\ flight' = IF answer[c].err = "none" THEN [flight EXCEPT ![KeyOf(c)] = NoCaller] ELSE flight
  /\ pc' = [d \in Callers |-> IF d \in members THEN "done" ELSE pc[d]]
  /\ answer' = [d \in Callers |-> IF d \in members THEN answer[c] ELSE answer[d]]
  /\ UNCHANGED <<cacheVars, call, hand, cancelled, envVars, served>>
(* Mutant: only the leader gets the value, its waiters get nothing.         *)
FinishLeaderOnly(c) ==
  LET k == KeyOf(c) IN
  /\ pc[c] = "finish"
  /\ flight' = [flight EXCEPT ![k] = NoCaller]
  /\ pc' = [d \in Callers |-> IF d \in {c} \cup Waiters(k) THEN "done" ELSE pc[d]]
  /\ IF answer[c].err = "none" THEN NoteServed(k, answer[c].ver) ELSE UNCHANGED served
  /\ UNCHANGED <<cacheVars, call, hand, answer, cancelled, envVars>>
(* The flight ends: the leader and every waiter get its one result.        *)
Finish(c) ==
  LET k == KeyOf(c)
      members == {c} \cup Waiters(k) IN
  /\ pc[c] = "finish"
  /\ flight' = [flight EXCEPT ![k] = NoCaller]
  /\ pc' = [d \in Callers |-> IF d \in members THEN "done" ELSE pc[d]]
  /\ answer' = [d \in Callers |-> IF d \in members THEN answer[c] ELSE answer[d]]
  /\ IF answer[c].err = "none" THEN NoteServed(k, answer[c].ver) ELSE UNCHANGED served
  /\ hand' = [hand EXCEPT ![c] = NoEntry]
  /\ UNCHANGED <<cacheVars, call, cancelled, envVars>>

(* The goroutine uses its answer and is free for another call.             *)
Return(c) ==
  /\ pc[c] = "done"
  /\ Goto(c, "idle")
  /\ answer' = [answer EXCEPT ![c] = NoAnswer]
  /\ call' = [call EXCEPT ![c] = NoCall]
  /\ cancelled' = cancelled \ {c}
  /\ UNCHANGED <<cacheVars, hand, envVars, flight, served>>
-----------------------------------------------------------------------------
LeaderStep(c) ==
  \/ CheckL1(c) \/ CheckL2(c) \/ CheckRefill(c) \/ FetchOk(c) \/ FetchFail(c)
  \/ Fallback(c) \/ StoreL1(c) \/ StoreL2(c) \/ Finish(c)

Step(c) == ReadL2(c) \/ Refill(c) \/ Join(c) \/ LeaderStep(c)

Environment ==
  \/ Tick
  \/ \E k \in Keys : Publish(k) \/ Evict(k)
  \/ \E c \in Callers : Cancel(c)
  \/ Restart
  \/ \E p \in CronPatterns : CronRefresh(p)

Next ==
  \/ Environment
  \/ \E c \in Callers :
       \/ \E k \in Keys, t \in Ttls, m \in Modes : Begin(c, k, t, m)
       \/ Step(c)
       \/ Return(c)

Spec == Init /\ [][Next]_vars

(* A goroutine that can run runs, and an HTTP request ends, by its answer   *)
(* or by the client's timeout.                                              *)
FairSpec == Spec /\ \A c \in Callers : WF_vars(Step(c))
-----------------------------------------------------------------------------
TypeOK ==
  /\ now \in 0..MaxTime
  /\ upstream \in [Keys -> Versions]
  /\ l1 \in [Keys -> Entry] /\ l2 \in [Keys -> Entry]
  /\ flight \in [Keys -> Callers \cup {NoCaller}]
  /\ pc \in [Callers -> Pcs]
  /\ call \in [Callers -> Call]
  /\ hand \in [Callers -> Entry]
  /\ answer \in [Callers -> Answer]
  /\ cancelled \subseteq Callers
  /\ served \in [Keys -> Versions]

(* At most one request per key is on its way to the official source: the    *)
(* promise of the singleflight (cache.go 137, 162).                         *)
OneUpstreamRequestPerKey ==
  \A c, d \in Callers :
    (pc[c] = "fetch" /\ pc[d] = "fetch" /\ KeyOf(c) = KeyOf(d)) => c = d

(* A version fetched by one leader is never followed by an upstream request *)
(* for the key while L1 or L2 still holds a live copy the next caller could *)
(* use: a request goes out only when the key is cold.                       *)
FetchOnlyWhenCold ==
  [][\A c \in Callers :
       (pc[c] = "chk2" /\ pc'[c] = "fetch") =>
         /\ ~Live(l1[KeyOf(c)])
         /\ KeyOf(c) \in L2Keys => ~Live(l2[KeyOf(c)])]_vars

(* What is served without ErrServedStale was, when the deciding call began, *)
(* still within the lifetime its store promised (cache.go 139-140, 245).    *)
FreshMeansUnexpired ==
  \A c \in Callers :
    (pc[c] = "done" /\ answer[c].err = "none") =>
      ~answer[c].overdue

(* Two calls in sequence never see a key go back in time: what a call       *)
(* returns as fresh is at least as new as what earlier calls returned.      *)
NeverOlder ==
  \A c \in Callers :
    (pc[c] = "done" /\ answer[c].err = "none") =>
      answer[c].ver >= call[c].servedBefore

(* stale-if-error: when the source fails a leader whose own context is      *)
(* alive, and a row is there to answer for it, no member of its flight is    *)
(* given the error (cache.go 19-22, 172-181).                               *)
UpstreamErrorMeansNoRow ==
  \A c \in Callers :
    (/\ pc[c] = "finish" /\ c \notin cancelled /\ answer[c].err = "upstream"
     /\ KeyOf(c) \in StaleKeys \cap L2Keys) => l2[KeyOf(c)] = NoEntry

(* A caller whose own context is alive gets a value whenever the cache      *)
(* holds an expired row and stale fallback was asked for (cache.go 121).    *)
LiveCallerGetsFallback ==
  \A c \in Callers :
    (/\ pc[c] = "done" /\ c \notin cancelled /\ call[c].mode = "fetch"
     /\ KeyOf(c) \in StaleKeys \cap L2Keys
     /\ answer[c].err \in {"upstream", "cancelled"}) =>
      l2[KeyOf(c)] = NoEntry

(* The contract: the levels, the flight and the refills, seen through the   *)
(* requests that are out and the replies callers hold.                      *)
ReplyOf(a) ==
  [kind |-> IF a.err = "none" /\ a.src # "nowhere" THEN "fresh"
            ELSE IF a.err = "stale" THEN "stale" ELSE "nothing",
   ver |-> a.ver, overdue |-> a.overdue]

Contract == INSTANCE CacheContract WITH
  fetching <- {k \in Keys : \E c \in Callers : pc[c] = "fetch" /\ KeyOf(c) = k},
  told     <- served,
  state    <- [c \in Callers |-> IF pc[c] = "idle" THEN "free"
                                 ELSE IF pc[c] = "done" THEN "closed" ELSE "open"],
  ask      <- [c \in Callers |-> [key |-> KeyOf(c), toldBefore |-> call[c].servedBefore]],
  reply    <- [c \in Callers |-> ReplyOf(IF pc[c] = "done" THEN answer[c] ELSE NoAnswer)]

(* Every step of the cache is a step of CacheContract or invisible to it.   *)
HonoursContract == Contract!Spec

(* Every call ends, whatever the source, L2 and the other callers do.       *)
EveryCallEnds == \A c \in Callers : pc[c] # "idle" ~> pc[c] \in {"done", "idle"}
=============================================================================
