----------------------------- MODULE EsgSource -----------------------------
(***************************************************************************)
(* The ESG report's two sources (mcp/tools_esg.go): the first call probes  *)
(* both for the faster one, later calls ask the preferred source first and *)
(* turn to the other when it failed every topic, which then becomes the    *)
(* preferred one.                                                          *)
(*                                                                         *)
(* Calls run at the same time; one mutex guards the preference and is held *)
(* all through a probe.  A source may answer or fail any request; what it  *)
(* answered is in the cache for a while and answers in its place.  How     *)
(* long a source takes is left out, except that the first probe may use up *)
(* the time that both are given; so either may turn out to be the faster.  *)
(***************************************************************************)
EXTENDS Integers

CONSTANTS Calls,        \* callers of the tool, each with one call at a time
          Topics,       \* the subjects of a report
          ProbeTopic    \* the one both sources are probed with

Twse == "TWSE_API"
Mops == "MOPS"
Sources == {Twse, Mops}
Undecided == "none"
Free == "free"
ASSUME EsgAssumption == Topics \subseteq Nat /\ ProbeTopic \in Topics /\ {Undecided, Free} \cap Calls = {}

VARIABLES
  preference,   \* the preferred source, or Undecided: gone with the process
  lock,         \* the call that holds the mutex, or Free
  kept,         \* the topics of a source that the cache answers
  call
vars == <<preference, lock, kept, call>>

-----------------------------------------------------------------------------
\* The other source.
Other(src) == CHOOSE s \in Sources : s # src

\* primary: the source the call was told to ask first; src: the one it asks;
\* todo: the topics it has still to ask for; got: whether src answered any.
\* History, of the probes or of what follows: failed, the topics a source did
\* not answer; served, the sources that did answer.  cut: whether the probes'
\* time ran out.
NoCall == [pc |-> "idle", wanted |-> {}, primary |-> Undecided, src |-> Undecided, todo |-> {}, got |-> FALSE,
           failed |-> {}, served |-> {}, cut |-> FALSE]

Init ==
  /\ preference = Undecided /\ lock = Free
  /\ kept = {}
  /\ call = [c \in Calls |-> NoCall]

\* fetchESGTopic: a topic the cache holds needs no source; a source out of
\* time cannot answer.  An answer need not hold any row.
Outcomes(c, topic) ==
  IF <<topic, call[c].src>> \in kept THEN {"rows"}
  ELSE IF call[c].cut THEN {"failure"}
  ELSE {"rows", "empty", "failure"}
FetchESGTopic(c, topic, outcome) ==
  /\ outcome \in Outcomes(c, topic)
  /\ kept' = IF outcome = "rows" THEN kept \cup {<<topic, call[c].src>>} ELSE kept

\* What the call has learnt of the source it asked.
Learnt(c, topic, answered) ==
  LET src == call[c].src
  IN  IF answered THEN [call[c] EXCEPT !.served = @ \cup {src}]
      ELSE [call[c] EXCEPT !.failed = @ \cup {<<topic, src>>}]

-----------------------------------------------------------------------------
\* get_esg_report of some topics, none named meaning all (filterTopics).
GetESGReport(c) ==
  /\ call[c].pc = "idle"
  /\ \E topics \in (SUBSET Topics) \ {{}} : call' = [call EXCEPT ![c].pc = "resolve", ![c].wanted = topics]
  /\ UNCHANGED <<preference, lock, kept>>

Asking(c, src) ==
  [NoCall EXCEPT !.pc = "fetch", !.wanted = call[c].wanted, !.primary = src, !.src = src, !.todo = call[c].wanted]

(* Mutant: the preference is looked at before the mutex is taken, and not  *)
(* again.                                                                  *)
ProbeWhateverIsSet(c) ==
  /\ call[c].pc = "resolve" /\ lock = Free
  /\ lock' = c
  /\ call' = [call EXCEPT ![c].pc = "probe", ![c].src = Twse]
  /\ UNCHANGED <<preference, kept>>

\* resolveESGPrimary: only while nothing is preferred are the sources probed,
\* one after the other, with the mutex held.
ResolveESGPrimary(c) ==
  /\ call[c].pc = "resolve" /\ lock = Free
  /\ IF preference # Undecided
     THEN call' = [call EXCEPT ![c] = Asking(c, preference)] /\ lock' = lock
     ELSE call' = [call EXCEPT ![c].pc = "probe", ![c].src = Twse] /\ lock' = c
  /\ UNCHANGED <<preference, kept>>

\* probeESGSource: an answer without rows does not count.  A failure may be
\* one of the time limit, which is one for both probes.
ProbeESGSource(c) ==
  /\ call[c].pc = "probe"
  /\ \E outcome \in {"rows", "empty", "failure"} :
       /\ FetchESGTopic(c, ProbeTopic, outcome)
       /\ \E late \in {call[c].cut, outcome = "failure" \/ call[c].cut} :
            call' = [call EXCEPT ![c] =
              [Learnt(c, ProbeTopic, outcome = "rows") EXCEPT
                !.cut = late, !.src = Mops, !.pc = IF call[c].src = Twse THEN "probe" ELSE "decide"]]
  /\ UNCHANGED <<preference, lock>>

(* Mutant: a probe that fails returns with the mutex held.                 *)
DecideForgettingTheLock(c) ==
  /\ call[c].pc = "decide"
  /\ IF call[c].served = {}
     THEN /\ call' = [call EXCEPT ![c].pc = "unavailable"]
          /\ UNCHANGED <<preference, lock>>
     ELSE \E src \in call[c].served :
            /\ preference' = src /\ lock' = Free
            /\ call' = [call EXCEPT ![c] = Asking(c, src)]
  /\ kept' = kept

\* The end of resolveESGPrimary: the source that answered, of two the faster;
\* of none, nothing is preferred and the next call will probe again.
Decide(c) ==
  /\ call[c].pc = "decide"
  /\ lock' = Free
  /\ IF call[c].served = {}
     THEN call' = [call EXCEPT ![c].pc = "unavailable"] /\ preference' = preference
     ELSE \E src \in call[c].served :
            /\ preference' = src
            /\ call' = [call EXCEPT ![c] = Asking(c, src)]
  /\ kept' = kept

\* fetchAll: topic by topic; one that fails is left out of the report.
FetchAll(c) ==
  /\ call[c].pc = "fetch"
  /\ \E topic \in call[c].todo, outcome \in {"rows", "empty", "failure"} :
       /\ \A t \in call[c].todo : topic <= t
       /\ FetchESGTopic(c, topic, outcome)
       /\ call' = [call EXCEPT ![c] =
            [Learnt(c, topic, outcome # "failure") EXCEPT !.todo = @ \ {topic}, !.got = @ \/ outcome # "failure"]]
  /\ UNCHANGED <<preference, lock>>

(* Mutant: one topic the first source failed is enough to turn to the other.*)
FallBackOnAnyFailure(c) ==
  LET r == call[c]
  IN  /\ r.pc = "fetch" /\ r.todo = {}
      /\ call' = [call EXCEPT ![c] =
           IF r.src = r.primary /\ r.failed # {} THEN [r EXCEPT !.src = Other(@), !.todo = r.wanted, !.got = FALSE]
           ELSE [r EXCEPT !.pc = IF ~r.got THEN "bothFailed" ELSE IF r.src = r.primary THEN "report" ELSE "swap"]]
      /\ UNCHANGED <<preference, lock, kept>>

\* fetchESGTopics, after the first source and, if that failed every topic,
\* after the other.
Fetched(c) ==
  LET r == call[c]
  IN  /\ r.pc = "fetch" /\ r.todo = {}
      /\ call' = [call EXCEPT ![c] =
           IF r.src = r.primary /\ ~r.got THEN [r EXCEPT !.src = Other(@), !.todo = r.wanted]
           ELSE [r EXCEPT !.pc = IF ~r.got THEN "bothFailed" ELSE IF r.src = r.primary THEN "report" ELSE "swap"]]
      /\ UNCHANGED <<preference, lock, kept>>

(* Mutant: the preference is turned round, whichever it is by now.         *)
TurnRound(c) ==
  /\ call[c].pc = "swap" /\ lock = Free
  /\ preference' = Other(preference)
  /\ call' = [call EXCEPT ![c].pc = "report"]
  /\ UNCHANGED <<lock, kept>>

\* swapESGPrimary, unless another call has done it.
SwapESGPrimary(c) ==
  /\ call[c].pc = "swap" /\ lock = Free
  /\ preference' = IF preference = call[c].primary THEN Other(preference) ELSE preference
  /\ call' = [call EXCEPT ![c].pc = "report"]
  /\ UNCHANGED <<lock, kept>>

\* The report, with the governance rules if they are to be had, or word that
\* there is nothing to report of the company; or the error.
Ended == {"report", "unavailable", "bothFailed"}
Reply(c) ==
  /\ call[c].pc \in Ended
  /\ call' = [call EXCEPT ![c] = NoCall]
  /\ UNCHANGED <<preference, lock, kept>>

-----------------------------------------------------------------------------
\* Cached answers expire, a new day's are asked for anew.
Expire == kept # {} /\ kept' = {} /\ UNCHANGED <<preference, lock, call>>

\* The preference is memory, the cached answers outlive the process.
Restart ==
  /\ preference' = Undecided /\ lock' = Free
  /\ call' = [c \in Calls |-> NoCall]
  /\ kept' = kept

Acquire(c) == ResolveESGPrimary(c) \/ SwapESGPrimary(c)
Go(c) == ProbeESGSource(c) \/ Decide(c) \/ FetchAll(c) \/ Fetched(c) \/ Reply(c)
Next == \/ \E c \in Calls : GetESGReport(c) \/ Acquire(c) \/ Go(c)
        \/ Expire \/ Restart

Spec == Init /\ [][Next]_vars

\* Requests end, their clients see to it; a Go mutex is handed to a waiter in
\* the end, however often others take it in between.
Fairness == \A c \in Calls : WF_vars(Go(c)) /\ SF_vars(Acquire(c))
FairSpec == Spec /\ Fairness

-----------------------------------------------------------------------------
(* Properties.                                                             *)

\* With the right types: only the call that holds the mutex probes, and only
\* while nothing is preferred (resolveESGPrimary).
Probing(c) == call[c].pc \in {"probe", "decide"}
TypeOK ==
  /\ preference \in Sources \cup {Undecided} /\ lock \in Calls \cup {Free}
  /\ kept \subseteq Topics \X Sources
  /\ \A c \in Calls :
       /\ call[c].pc \in {"idle", "resolve", "probe", "decide", "fetch", "swap"} \cup Ended
       /\ call[c].primary \in Sources \cup {Undecided} /\ call[c].src \in Sources \cup {Undecided}
       /\ call[c].todo \subseteq call[c].wanted /\ call[c].wanted \subseteq Topics
       /\ call[c].failed \subseteq Topics \X Sources /\ call[c].served \subseteq Sources
       /\ Probing(c) => lock = c /\ preference = Undecided

\* The preference changes for a reason that holds for it as it then is: to a
\* source that has just answered a call, and from one that has just failed all
\* that call's topics.  Calls that fail over at the same time do not turn each
\* other's choice round (swapESGPrimary).
Failed(c, src) == call[c].wanted \X {src} \subseteq call[c].failed
SwapsAreEarned ==
  [][preference' \notin {preference, Undecided} =>
       \E c \in Calls : /\ preference' \in call[c].served
                        /\ preference # Undecided => Failed(c, preference)]_vars

\* A call is refused only after both sources failed it: the probe, or every
\* topic it wanted (fetchESGTopics).
RefusedOnlyByBoth ==
  \A c \in Calls :
    /\ call[c].pc = "unavailable" => {ProbeTopic} \X Sources \subseteq call[c].failed
    /\ call[c].pc = "bothFailed" => \A src \in Sources : Failed(c, src)

\* Every call comes to its end, though it may wait for another's probes
\* (resolveESGPrimary, swapESGPrimary).
CallsEnd == \A c \in Calls : call[c].pc = "resolve" ~> call[c].pc = "idle"
=============================================================================
