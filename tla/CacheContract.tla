---------------------------- MODULE CacheContract ----------------------------
(***************************************************************************)
(* What a caller of GetOrFetch or Get may rely on, with no levels, TTL      *)
(* policy or singleflight in sight: requests to the official source go out  *)
(* one at a time per key, and every call is closed by one reply, which is   *)
(* either a version that is current enough and no older than what earlier   *)
(* calls were told, or an expired version marked as such, or nothing.       *)
(***************************************************************************)
EXTENDS Naturals

CONSTANTS Callers, Keys

VARIABLES
  now,       \* the clock
  upstream,  \* per key, the version the source publishes
  fetching,  \* the keys with a request at the source
  told,      \* per key, the newest version a reply presented as fresh
  state,     \* per caller: "free", "open" or "closed"
  ask,       \* per caller: the key asked for and what was told before
  reply      \* per caller: the reply

vars == <<now, upstream, fetching, told, state, ask, reply>>

Max2(a, b) == IF a < b THEN b ELSE a
AskOf(k)   == [key |-> k, toldBefore |-> told[k]]
Reply      == [kind : {"fresh", "stale", "nothing"}, ver : Nat, overdue : BOOLEAN]

Init ==
  /\ now = 0
  /\ upstream \in [Keys -> Nat]
  /\ fetching = {}
  /\ told = [k \in Keys |-> 0]
  /\ state = [c \in Callers |-> "free"]
  /\ ask \in [Callers -> [key : Keys, toldBefore : {0}]]
  /\ reply \in [Callers -> {[kind |-> "nothing", ver |-> 0, overdue |-> FALSE]}]

(* A reply that may close the calls C on key k.                            *)
Admissible(r, C, k) ==
  CASE r.kind = "fresh"   -> /\ ~r.overdue
                             /\ r.ver \in 1..upstream[k]
                             /\ \A c \in C : r.ver >= ask'[c].toldBefore
    [] r.kind = "stale"   -> r.ver \in 1..upstream[k]
    [] r.kind = "nothing" -> r.ver = 0

Tell(r, C, k) ==
  /\ Admissible(r, C, k)
  /\ state' = [c \in Callers |-> IF c \in C THEN "closed" ELSE state[c]]
  /\ reply' = [c \in Callers |-> IF c \in C THEN r ELSE reply[c]]
  /\ told' = IF r.kind = "fresh" THEN [told EXCEPT ![k] = Max2(@, r.ver)] ELSE told

Advance == now' = now + 1 /\ UNCHANGED <<upstream, fetching, told, state, ask, reply>>

Publish(k) ==
  /\ upstream' = [upstream EXCEPT ![k] = @ + 1]
  /\ UNCHANGED <<now, fetching, told, state, ask, reply>>

Ask(c, k) ==
  /\ state[c] = "free"
  /\ ask' = [ask EXCEPT ![c] = AskOf(k)]
  /\ \/ state' = [state EXCEPT ![c] = "open"] /\ UNCHANGED <<told, reply>>
     \/ /\ reply'[c].kind = "fresh"
        /\ Tell(reply'[c], {c}, k)
  /\ UNCHANGED <<now, upstream, fetching>>

(* The calls C wait for the same key and are closed by the same reply.      *)
Close(C, k) ==
  /\ C # {}
  /\ \A c \in C : state[c] = "open" /\ ask[c].key = k
  /\ UNCHANGED ask
  /\ \E c \in C : Tell(reply'[c], C, k)
  /\ UNCHANGED <<now, upstream, fetching>>

SendRequest(k) ==
  /\ k \notin fetching
  /\ \E c \in Callers : state[c] = "open" /\ ask[c].key = k
  /\ fetching' = fetching \cup {k}
  /\ UNCHANGED <<now, upstream, told, state, ask, reply>>

EndRequest(k) ==
  /\ k \in fetching
  /\ fetching' = fetching \ {k}
  /\ UNCHANGED <<now, upstream, told, state, ask, reply>>

Leave(c) ==
  /\ state[c] = "closed"
  /\ state' = [state EXCEPT ![c] = "free"]
  /\ ask' \in [Callers -> [key : Keys, toldBefore : Nat]]
  /\ reply' \in [Callers -> Reply]
  /\ \A d \in Callers \ {c} : ask'[d] = ask[d] /\ reply'[d] = reply[d]
  /\ UNCHANGED <<now, upstream, fetching, told>>

(* A restart forgets every open call and request, and nothing it told.      *)
Restart ==
  /\ state' = [c \in Callers |-> "free"]
  /\ fetching' = {}
  /\ ask' \in [Callers -> [key : Keys, toldBefore : Nat]]
  /\ reply' \in [Callers -> Reply]
  /\ UNCHANGED <<now, upstream, told>>

Next ==
  \/ Advance
  \/ Restart
  \/ \E k \in Keys : Publish(k) \/ SendRequest(k) \/ EndRequest(k)
  \/ \E c \in Callers : Leave(c) \/ \E k \in Keys : Ask(c, k)
  \/ \E C \in SUBSET Callers, k \in Keys : Close(C, k)

Spec == Init /\ [][Next]_vars
=============================================================================
