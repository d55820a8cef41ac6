---------------------------- MODULE PriorityService ----------------------------
(***************************************************************************)
(* What the priority gate promises its callers, without its mechanism: no  *)
(* lock, no slot multiset, no oneshot channel, no permit, no spawned task, *)
(* no entries of departed clients.  A request is served at once when it    *)
(* outranks everyone being served; otherwise it waits, and each time a     *)
(* service ends the first waiter (highest priority, then earliest) starts  *)
(* if it outranks everyone who is left.                                    *)
(***************************************************************************)
EXTENDS Integers

CONSTANTS Requests, MinPriority, MaxPriority

VARIABLES prio,      \* the priority of each request
          stage,     \* "new", "waiting", "active" or "gone"
          arrival,   \* the arrival number of the requests that had to wait
          clock      \* the next arrival number

vars == <<prio, stage, arrival, clock>>

Init ==
    /\ prio \in [Requests -> MinPriority .. MaxPriority]
    /\ stage = [r \in Requests |-> "new"]
    /\ arrival = [r \in Requests |-> 0]
    /\ clock = 0

\* r outranks everyone being served except, where it is leaving, the request x.
OutranksActive(r, x) ==
    \A s \in Requests \ {x} : stage[s] = "active" => prio[r] > prio[s]

\* r is the first of the waiters.
First(r) ==
    /\ stage[r] = "waiting"
    /\ \A s \in Requests \ {r} : stage[s] = "waiting" =>
          \/ prio[r] > prio[s]
          \/ prio[r] = prio[s] /\ arrival[r] < arrival[s]

Admit(r) ==
    /\ stage[r] = "new"
    /\ OutranksActive(r, r)
    /\ stage' = [stage EXCEPT ![r] = "active"]
    /\ UNCHANGED <<prio, arrival, clock>>

Queue(r) ==
    /\ stage[r] = "new"
    /\ ~OutranksActive(r, r)
    /\ stage' = [stage EXCEPT ![r] = "waiting"]
    /\ arrival' = [arrival EXCEPT ![r] = clock]
    /\ clock' = clock + 1
    /\ UNCHANGED prio

Leave(r) ==
    /\ stage[r] = "waiting"
    /\ stage' = [stage EXCEPT ![r] = "gone"]
    /\ UNCHANGED <<prio, arrival, clock>>

FinishAndServe(r, s) ==
    /\ stage[r] = "active"
    /\ First(s)
    /\ OutranksActive(s, r)
    /\ stage' = [stage EXCEPT ![r] = "gone", ![s] = "active"]
    /\ UNCHANGED <<prio, arrival, clock>>

FinishOnly(r) ==
    /\ stage[r] = "active"
    /\ \A s \in Requests : First(s) => ~OutranksActive(s, r)
    /\ stage' = [stage EXCEPT ![r] = "gone"]
    /\ UNCHANGED <<prio, arrival, clock>>

Finish(r) == FinishOnly(r) \/ \E s \in Requests : FinishAndServe(r, s)

Next == \E r \in Requests : Admit(r) \/ Queue(r) \/ Leave(r) \/ Finish(r)

Spec == Init /\ [][Next]_vars
=============================================================================
