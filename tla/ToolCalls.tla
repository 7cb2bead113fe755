------------------------------ MODULE ToolCalls ------------------------------
(***************************************************************************)
(* Concurrent tool calls over the one cache they share: pkg/mcp/core.go,   *)
(* fetch.go and the handlers' plans.                                       *)
(*                                                                         *)
(* Calls meet only where they read the same cache key, so a behaviour      *)
(* follows one key, chosen at the start among all keys a registered tool   *)
(* can read, and the calls whose plans read it. What other keys give such  *)
(* a call is left open: rows or nothing. (How one key is filled, refreshed *)
(* and evicted in detail is the subject of ReadThroughCache; here it is    *)
(* one entry and one flight.)                                              *)
(***************************************************************************)
EXTENDS ToolRegistry

CONSTANTS Clients,      \* concurrent callers, one call each
          FirstDay, LastDay,   \* the clock's bounds
          OnlyKeys      \* restricts the keys followed; {} for all

ASSUME DaysAssumption == FirstDay \in Nat /\ LastDay \in Nat /\ 4 <= FirstDay /\ FirstDay <= LastDay

\* The parts of a day: before 15:00, before 16:30, after it.
Nows == {n \in [day : FirstDay..LastDay, late : BOOLEAN, post : BOOLEAN] : n.post => n.late}
Opening(day) == [day |-> day, late |-> FALSE, post |-> FALSE]

VARIABLES
  now,      \* the wall clock
  newest,   \* the last day whose reports are published
  key,      \* the cache key this behaviour follows
  menu,     \* the calls that read it, as they stand when they come to it, and when
  entry,    \* what is stored under it
  flight,   \* the upstream request in progress for it and who awaits it
  call      \* the calls
vars == <<now, newest, key, menu, entry, flight, call>>

-----------------------------------------------------------------------------
(* The tools of the registry by the keys their plans read.                 *)

AsksOf(plan) == UNION {{plan.steps[i].asks[j] : j \in DOMAIN plan.steps[i].asks} : i \in DOMAIN plan.steps}
KeysOf(plan) == {KeyString(a) : a \in AsksOf(plan)}
Openings == {n \in Nows : ~n.post}
Clock(n) == [n EXCEPT !.post = FALSE]
Book == UNION {{[at |-> n, plan |-> o.plan, keys |-> KeysOf(o.plan)] : o \in Registry(n)} : n \in Openings}
NoKey == <<>>
Touches(b, k) == IF k = NoKey THEN b.keys = {} ELSE k \in b.keys
Keys(book) == {NoKey} \cup IF OnlyKeys # {} THEN OnlyKeys ELSE UNION {b.keys : b \in book}

-----------------------------------------------------------------------------
(* A handler's course through its steps.  r is its place: the step and the *)
(* ask it is at, whether the step had rows so far (hits), the earlier steps *)
(* that had (got).                                                         *)

End(how) == [pc |-> how]
CurrentStep(r) == r.steps[r.step]
CurrentAsk(r) == CurrentStep(r).asks[r.idx]

\* Go on with the step after the current one that is not skipped.
NextStep(r) ==
  LET skipped(i) == r.steps[i].after # 0 /\ r.steps[i].after \notin r.got
      rest == {i \in r.step + 1..Len(r.steps) : ~skipped(i)}
  IN  IF rest = {} THEN End("answer")
      ELSE [r EXCEPT !.step = CHOOSE i \in rest : \A j \in rest : i <= j, !.idx = 1, !.hits = FALSE]

\* A step whose rows a later step waits for is remembered.
StepDone(r, rows) ==
  LET awaited == \E j \in DOMAIN r.steps : r.steps[j].after = r.step
      next    == NextStep([r EXCEPT !.got = IF rows /\ awaited THEN @ \cup {r.step} ELSE @])
  IN  {next} \cup IF CurrentStep(r).miss /\ rows THEN {End("error")} ELSE {}

LastAsk(r) == r.idx = Len(CurrentStep(r).asks)
NextAsk(r) == [r EXCEPT !.idx = @ + 1]

\* The ways a handler goes on when an ask gave rows: where it searches for a
\* code, the rows may or may not hold it.
GotRows(r) ==
  LET how == CurrentStep(r).how
      hit == IF how \in {"some", "seek"} THEN [r EXCEPT !.hits = TRUE] ELSE r
      found == StepDone(hit, TRUE)
      search == how \in {"scan", "seek", "hunt"}
  IN  IF ~LastAsk(r) THEN {NextAsk(hit)} \cup IF search THEN found ELSE {}
      ELSE found \cup CASE how = "scan" -> {End("error")}
                        [] how \in {"seek", "hunt"} -> StepDone(hit, FALSE)
                        [] OTHER -> {}

\* ... and when it failed.
GotNone(r) ==
  LET how == CurrentStep(r).how
  IN  CASE how = "all"    -> {End("error")}
        [] how = "hollow" -> {End("hollow")}
        [] how = "until"  -> StepDone(r, FALSE)
        [] OTHER -> IF ~LastAsk(r) THEN {NextAsk(r)}
                    ELSE IF how = "scan" \/ (how \in {"some", "seek"} /\ ~r.hits) THEN {End("error")}
                    ELSE StepDone(r, how = "some")

\* The places in a plan's steps, and what comes after the last.
Places(steps) ==
  UNION {[pc : {"read"}, steps : {steps}, step : {i}, idx : DOMAIN steps[i].asks,
          hits : BOOLEAN, got : SUBSET DOMAIN steps] : i \in DOMAIN steps}
Seats(steps) == Places(steps) \cup {End(how) : how \in {"answer", "error", "hollow"}}
Follows(r, k) == KeyString(CurrentAsk(r)) = k

\* What a course is to the calls that read k: the next ask of k, and where its
\* rows or its failure may lead, whatever the asks of other keys give.
Ways(steps, k) ==
  LET ways[r \in Seats(steps)] ==
        IF r.pc # "read" THEN {r}
        ELSE LET rows == UNION {ways[x] : x \in GotRows(r)}
                 none == UNION {ways[x] : x \in GotNone(r)}
             IN  IF Follows(r, k)
                 THEN {[pc |-> "read", ask |-> CurrentAsk(r), told |-> CurrentStep(r).told,
                        rows |-> rows, none |-> none]}
                 ELSE rows \cup none
  IN  ways
Courses(plan, k) ==
  IF plan.refused # "no" THEN {End(plan.refused)}
  ELSE Ways(plan.steps, k)[NextStep([pc |-> "read", steps |-> plan.steps, step |-> 0, idx |-> 0,
                                     hits |-> FALSE, got |-> {}])]

-----------------------------------------------------------------------------
NoEntry == [ed |-> 0]
NoFlight == [who |-> {}]
Running == [got |-> "no"]
Waiting == [got |-> "not yet"]
Failed == [got |-> "nothing"]
NoCall == [at |-> End("idle"), wait |-> Running, stale |-> FALSE, told |-> FALSE, seen |-> {}]

Init == /\ now = Opening(FirstDay)
        /\ newest = FirstDay - 1
        /\ \E book \in {Book} :
             /\ key \in Keys(book)
             /\ menu = UNION {{[at |-> b.at, course |-> x] : x \in Courses(b.plan, key)} :
                               b \in {b \in book : Touches(b, key)}}
        /\ entry = NoEntry
        /\ flight = NoFlight
        /\ call = [c \in Clients |-> NoCall]

\* Core.Call: the tool is found, its arguments pass the schema, the handler
\* starts or turns the call away.
Start(c) ==
  /\ call[c].at.pc = "idle"
  /\ \E o \in {o \in menu : o.at = Clock(now)} : call' = [call EXCEPT ![c].at = o.course]
  /\ UNCHANGED <<now, newest, key, menu, entry, flight>>

\* The rows reach the call; a stale one may or may not reach its lineage.
Reading(ask, row, ed, heeded) == [ask |-> ask, row |-> row, ed |-> ed, heeded |-> heeded]
Take(c, row, ed, heeded, stale) ==
  LET r == call[c]
  IN  {[at |-> x, wait |-> Running, stale |-> r.stale \/ stale, told |-> r.told \/ (stale /\ r.at.told),
        seen |-> r.seen \cup {Reading(r.at.ask, row, ed, heeded)}] : x \in r.at.rows}
Lose(c) == {[call[c] EXCEPT !.at = x, !.wait = Running] : x \in call[c].at.none}

\* fetchNormalize: rows in the cache, of the reader's own type or decoded anew
\* from the disk.
(* Mutant: the rows under the key are taken whatever their type is.         *)
AnyTypeInMemory(a) == entry # NoEntry /\ entry.fresh
InMemory(a) == entry # NoEntry /\ entry.fresh /\ (entry.row = a.row \/ entry.disk)
Reads(c) == call[c].at.pc = "read" /\ call[c].wait = Running
ReadHit(c) ==
  LET a == call[c].at.ask
  IN  /\ Reads(c) /\ AskCacheable(a, now.post) /\ InMemory(a)
      /\ LET row == IF entry.disk THEN a.row ELSE entry.row
         IN  \E r \in Take(c, row, entry.ed, entry.heeded, FALSE) : call' = [call EXCEPT ![c] = r]
      /\ entry' = [entry EXCEPT !.row = a.row]
      /\ UNCHANGED <<now, newest, key, menu, flight>>

(* Mutant: a reader that joins a request is not counted among its waiters.  *)
JoinUncounted(c) ==
  /\ Reads(c) /\ AskCacheable(call[c].at.ask, now.post) /\ ~InMemory(call[c].at.ask)
  /\ flight' = IF flight # NoFlight THEN flight
               ELSE [who |-> {c}, ask |-> call[c].at.ask, disk |-> WrittenToDisk(call[c].at.ask, now.post)]
  /\ entry' = IF entry # NoEntry /\ entry.fresh THEN NoEntry ELSE entry
  /\ call' = [call EXCEPT ![c].wait = Waiting]
  /\ UNCHANGED <<now, newest, key, menu>>

\* A miss starts a request or joins the one in progress.  Whether its rows
\* will be kept on disk is decided by the time it starts.
ReadMiss(c) ==
  LET a == call[c].at.ask
  IN  /\ Reads(c) /\ AskCacheable(a, now.post) /\ ~InMemory(a)
      /\ flight' = IF flight = NoFlight
                   THEN [who |-> {c}, ask |-> a, disk |-> WrittenToDisk(a, now.post)]
                   ELSE [flight EXCEPT !.who = @ \cup {c}]
      /\ entry' = IF entry # NoEntry /\ entry.fresh THEN NoEntry ELSE entry
      /\ call' = [call EXCEPT ![c].wait = Waiting]
      /\ UNCHANGED <<now, newest, key, menu>>

\* A data set that is not cached now is fetched by each reader for itself.
ReadDirect(c) ==
  LET a == call[c].at.ask
  IN  /\ Reads(c) /\ ~AskCacheable(a, now.post)
      /\ \E r \in Lose(c) \cup UNION {Take(c, a.row, ed, Heeded(a), FALSE) :
                                       ed \in {e \in Editions(a, newest) : DateConsistent(a, e)}} :
           call' = [call EXCEPT ![c] = r]
      /\ UNCHANGED <<now, newest, key, menu, entry, flight>>

-----------------------------------------------------------------------------
\* The request returns and its outcome is handed to all who wait for it.
Brought(got, ed, heeded, row) == [got |-> got, ed |-> ed, heeded |-> heeded, row |-> row]
HandOut(outcome) ==
  call' = [c \in Clients |-> IF c \in flight.who THEN [call[c] EXCEPT !.wait = outcome] ELSE call[c]]

Upstream ==
  LET a == flight.ask
  IN  /\ flight # NoFlight
      /\ \E ed \in {e \in Editions(a, newest) : DateConsistent(a, e)} :
           /\ entry' = [ed |-> ed, heeded |-> Heeded(a), row |-> a.row, fresh |-> TRUE, disk |-> flight.disk]
           /\ HandOut(Brought("fresh", ed, Heeded(a), a.row))
      /\ flight' = NoFlight
      /\ UNCHANGED <<now, newest, key, menu>>

\* It fails (unreachable, refused by Validate, another day's report): an
\* expired row on disk is served instead, where the policy allows it.
UpstreamFails ==
  /\ flight # NoFlight
  /\ HandOut(IF entry # NoEntry /\ entry.disk /\ ~entry.fresh /\ StaleServed(flight.ask)
             THEN Brought("stale", entry.ed, entry.heeded, flight.ask.row)
             ELSE Failed)
  /\ flight' = NoFlight
  /\ UNCHANGED <<now, newest, key, menu, entry>>

\* A waiter goes on.  One that decodes the rows to another type than the
\* request's cannot take them.
Woken(c) ==
  LET from == call[c].wait
      a    == call[c].at.ask
  IN  /\ call[c].at.pc = "read" /\ from.got \in {"nothing", "fresh", "stale"}
      /\ \E r \in IF from = Failed THEN Lose(c)
                  ELSE IF from.row # a.row THEN {[call[c] EXCEPT !.at = End("panic"), !.wait = Running]}
                  ELSE Take(c, from.row, from.ed, from.heeded, from.got = "stale") :
           call' = [call EXCEPT ![c] = r]
      /\ UNCHANGED <<now, newest, key, menu, entry, flight>>

-----------------------------------------------------------------------------
\* The entry's time is over: on disk it remains for the stale fallback.
Expire ==
  /\ entry # NoEntry /\ entry.fresh
  /\ entry' = IF entry.disk THEN [entry EXCEPT !.fresh = FALSE] ELSE NoEntry
  /\ UNCHANGED <<now, newest, key, menu, flight, call>>

Publish ==
  /\ newest < now.day
  /\ newest' = newest + 1
  /\ UNCHANGED <<now, key, menu, entry, flight, call>>

Tick ==
  /\ now' = CASE ~now.late -> [now EXCEPT !.late = TRUE]
              [] ~now.post /\ now.late -> [now EXCEPT !.post = TRUE]
              [] OTHER -> Opening(now.day + 1)
  /\ now'.day <= LastDay
  /\ UNCHANGED <<newest, key, menu, entry, flight, call>>

GoOn(c) == ReadHit(c) \/ ReadMiss(c) \/ ReadDirect(c) \/ Woken(c)
Next == \/ \E c \in Clients : Start(c) \/ GoOn(c)
        \/ Upstream \/ UpstreamFails
        \/ Expire \/ Publish \/ Tick

Spec == Init /\ [][Next]_vars

\* Handlers run on, and every request ends: the client in front of the source
\* has a time limit.
Fairness == /\ \A c \in Clients : WF_vars(GoOn(c))
            /\ WF_vars(Upstream \/ UpstreamFails)
FairSpec == Spec /\ Fairness

-----------------------------------------------------------------------------
(* Properties.                                                             *)

Ends == {"answer", "error", "hollow", "panic", "option", "symbol", "argument", "pair"}
TypeOK ==
  /\ now \in Nows /\ newest \in FirstDay - 1..LastDay
  /\ entry = NoEntry \/ entry.ed \in 0..LastDay
  /\ flight = NoFlight \/ flight.who \subseteq Clients
  /\ \A c \in Clients : /\ call[c].at.pc \in {"idle", "read"} \cup Ends
                        /\ call[c].wait = Waiting => c \in flight.who

Seen == UNION {call[c].seen : c \in Clients}

\* The rows a call is given answer the very question it asked, whoever asked
\* first: two asks that share a key do not differ in anything the official
\* endpoint pays heed to (key.go; the url builders of the adapters).
OneQuestionPerKey == \A r \in Seen : r.heeded = Heeded(r.ask)

\* A handler that names a row type decodes the one the data set's normaliser
\* makes, also when another handler's rows are found under the key.
DecodedAsNormalized ==
  \A r \in Seen : r.row = r.ask.row /\ (r.ask.row # "map" => r.row = Normalized(r.ask))

\* Rows a report page was asked for by day, and that name a day, are of that
\* day, fresh or stale, however long before and by whichever call they were
\* fetched.  An answer that names none is taken as it comes, as Validate takes
\* it (validateDateConsistency).
DatedRowsAreOfTheirDay ==
  \A r \in Seen : AsksForDay(r.ask) => r.ed \in {DayAsked(r.ask), NoDay}

\* Every data set a handler reads has a cache policy: no table is fetched anew
\* by each call for want of an entry in policyDataset (fetch.go).
EveryTableHasAPolicy ==
  \A c \in Clients : call[c].at.pc = "read" => AskCacheable(call[c].at.ask, FALSE)

\* No single value a schema's enum allows is turned away by the handler behind
\* it.  A pair of allowed values it refuses ("pair") and an argument it misses
\* ("argument") are other ends, and not counted.
EnumsAreServed == \A c \in Clients : call[c].at.pc # "option"

\* cache.go says that rows found under a key with another type are dropped,
\* "the guard against misuse of one key across types".
NoCallPanics == \A c \in Clients : call[c].at.pc # "panic"

\* fetch.go says that a handler marks the freshness of its lineage as a stale
\* fallback when an expired row was served.
StaleIsTold == \A c \in Clients : call[c].at.pc = "answer" /\ call[c].stale => call[c].told
=============================================================================
