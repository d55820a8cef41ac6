-------------------------------- MODULE Escalate --------------------------------
(***************************************************************************)
(* Mode B of router/modes.rs: requests that climb the ladder of tiers up   *)
(* to max_auto_tier until an answer is good enough.  Each gated tier has   *)
(* its own priority gate, which appears here as the abstract service its   *)
(* requests see; a permit given back on the way up is released by a task   *)
(* of its own while the request is already waiting further up.             *)
(***************************************************************************)
EXTENDS Integers, Sequences

CONSTANTS Requests, MinPriority, MaxPriority,
          Top,     \* the index of max_auto_tier
          Gated,   \* the tiers with a gate: local and known at startup
          Outages  \* the sets of tiers a request may find unusable

ASSUME EscalateAssumption ==
    /\ MinPriority \in Int
    /\ MaxPriority \in Int
    /\ Top \in Nat \ {0}
    /\ Gated \subseteq 1 .. Top
    /\ Outages \subseteq SUBSET (1 .. Top)

Tiers == 1 .. Top

VARIABLES
    prio,      \* the priority of each request
    place,     \* place[t][r]: where r stands in the gate of t
    arrival,   \* arrival[t][r]: its arrival number there, if it had to wait
    clock,     \* clock[t]: the next arrival number of the gate of t
    floor,     \* token_floor_idx: the lowest tier the request fits
    unusable,  \* tiers with a degraded backend, or whose client cannot be built
    at,        \* tier_idx of the loop
    phase,     \* where the walk stands
    tried      \* the tiers called so far, in order

gateVars == <<place, arrival, clock>>
vars == <<prio, place, arrival, clock, floor, unusable, at, phase, tried>>

(***************************************************************************)
(* A permit that was dropped is "leaving" until its task runs; a "ghost"   *)
(* was handed a slot when its client had just left.  Both occupy the gate. *)
(***************************************************************************)
Places == {"new", "waiting", "active", "leaving", "ghost", "gone"}
Ended == {"answered", "exhausted", "left"}
Phases == {"walking", "queued", "calling"} \union Ended

Seen(p) == IF p \in {"leaving", "ghost"} THEN "active" ELSE p

\* What the gate of tier t promises its requests.
Service(t) == INSTANCE PriorityService
              WITH stage <- [r \in Requests |-> Seen(place[t][r])],
                   arrival <- arrival[t], clock <- clock[t]

Init ==
    /\ prio \in [Requests -> MinPriority .. MaxPriority]
    /\ place = [t \in Tiers |-> [r \in Requests |-> "new"]]
    /\ arrival = [t \in Tiers |-> [r \in Requests |-> 0]]
    /\ clock = [t \in Tiers |-> 0]
    /\ floor \in [Requests -> Tiers]
    /\ unusable \in [Requests -> Outages]
    /\ at = [r \in Requests |-> 1]
    /\ phase = [r \in Requests |-> "walking"]
    /\ tried = [r \in Requests |-> <<>>]

-----------------------------------------------------------------------------
\* Seeded fault: the floor is forgotten.
SkippedUnusable(r, t) == t \in unusable[r]

Skipped(r, t) == t < floor[r] \/ t \in unusable[r]

SkipTier(r) ==
    /\ phase[r] = "walking" /\ at[r] \in Tiers
    /\ Skipped(r, at[r])
    /\ at' = [at EXCEPT ![r] = @ + 1]
    /\ UNCHANGED <<prio, gateVars, floor, unusable, phase, tried>>

Exhaust(r) ==
    /\ phase[r] = "walking" /\ at[r] > Top
    /\ phase' = [phase EXCEPT ![r] = "exhausted"]
    /\ UNCHANGED <<prio, gateVars, floor, unusable, at, tried>>

Calls(r) ==
    /\ phase' = [phase EXCEPT ![r] = "calling"]
    /\ tried' = [tried EXCEPT ![r] = Append(@, at[r])]

Reaches(r) == phase[r] = "walking" /\ at[r] \in Tiers /\ ~Skipped(r, at[r])

BypassGate(r) ==
    /\ Reaches(r) /\ at[r] \notin Gated
    /\ Calls(r)
    /\ UNCHANGED <<prio, gateVars, floor, unusable, at>>

\* Seeded fault: whoever is served is not asked.
EnterGateUnranked(r) ==
    /\ Reaches(r) /\ at[r] \in Gated
    /\ place' = [place EXCEPT ![at[r]][r] = "active"]
    /\ Calls(r)
    /\ UNCHANGED <<prio, arrival, clock, floor, unusable, at>>

EnterGate(r) ==
    /\ Reaches(r) /\ at[r] \in Gated
    /\ Service(at[r])!OutranksActive(r, r)
    /\ place' = [place EXCEPT ![at[r]][r] = "active"]
    /\ Calls(r)
    /\ UNCHANGED <<prio, arrival, clock, floor, unusable, at>>

WaitAtGate(r) ==
    /\ Reaches(r) /\ at[r] \in Gated
    /\ ~Service(at[r])!OutranksActive(r, r)
    /\ place' = [place EXCEPT ![at[r]][r] = "waiting"]
    /\ arrival' = [arrival EXCEPT ![at[r]][r] = clock[at[r]]]
    /\ clock' = [clock EXCEPT ![at[r]] = @ + 1]
    /\ phase' = [phase EXCEPT ![r] = "queued"]
    /\ UNCHANGED <<prio, floor, unusable, at, tried>>

Resume(r) ==
    /\ phase[r] = "queued"
    /\ place[at[r]][r] = "active"
    /\ Calls(r)
    /\ UNCHANGED <<prio, gateVars, floor, unusable, at>>

\* The end of an iteration: its permit, if any, is dropped.
DropPermit(r) ==
    place' = IF at[r] \in Gated THEN [place EXCEPT ![at[r]][r] = "leaving"] ELSE place

Answered(r) ==
    /\ phase[r] = "calling"
    /\ phase' = [phase EXCEPT ![r] = "answered"]
    /\ DropPermit(r)
    /\ UNCHANGED <<prio, arrival, clock, floor, unusable, at, tried>>

\* Seeded fault: the permit lives in the function, not in the iteration.
EscalatesHolding(r) ==
    /\ phase[r] = "calling"
    /\ phase' = [phase EXCEPT ![r] = "walking"]
    /\ at' = [at EXCEPT ![r] = @ + 1]
    /\ UNCHANGED <<prio, gateVars, floor, unusable, tried>>

\* An error or an answer that is not good enough: the next tier.
Escalates(r) ==
    /\ phase[r] = "calling"
    /\ phase' = [phase EXCEPT ![r] = "walking"]
    /\ at' = [at EXCEPT ![r] = @ + 1]
    /\ DropPermit(r)
    /\ UNCHANGED <<prio, arrival, clock, floor, unusable, tried>>

\* The client disconnects while its handler awaits the gate or the backend.
LeavesQueue(r) ==
    /\ phase[r] = "queued" /\ place[at[r]][r] = "waiting"
    /\ place' = [place EXCEPT ![at[r]][r] = "gone"]
    /\ phase' = [phase EXCEPT ![r] = "left"]
    /\ UNCHANGED <<prio, arrival, clock, floor, unusable, at, tried>>

LeavesInHandOver(r) ==
    /\ phase[r] = "queued" /\ place[at[r]][r] = "active"
    /\ place' = [place EXCEPT ![at[r]][r] = "ghost"]
    /\ phase' = [phase EXCEPT ![r] = "left"]
    /\ UNCHANGED <<prio, arrival, clock, floor, unusable, at, tried>>

LeavesCall(r) ==
    /\ phase[r] = "calling"
    /\ phase' = [phase EXCEPT ![r] = "left"]
    /\ DropPermit(r)
    /\ UNCHANGED <<prio, arrival, clock, floor, unusable, at, tried>>

\* Seeded fault: the slot is freed and nobody is woken.
ReleaseSilent(t, r) ==
    /\ place[t][r] = "leaving"
    /\ place' = [place EXCEPT ![t][r] = "gone"]
    /\ UNCHANGED <<prio, arrival, clock, floor, unusable, at, phase, tried>>

\* The task of a dropped permit, and the waiter it hands the slot to.
Release(t, r) ==
    /\ place[t][r] = "leaving"
    /\ \/ \E s \in Requests :
             /\ Service(t)!First(s) /\ Service(t)!OutranksActive(s, r)
             /\ place' = [place EXCEPT ![t][r] = "gone", ![t][s] = "active"]
       \/ /\ \A s \in Requests : Service(t)!First(s) => ~Service(t)!OutranksActive(s, r)
          /\ place' = [place EXCEPT ![t][r] = "gone"]
    /\ UNCHANGED <<prio, arrival, clock, floor, unusable, at, phase, tried>>

-----------------------------------------------------------------------------
Walks(r) == SkipTier(r) \/ Exhaust(r) \/ BypassGate(r) \/ EnterGate(r) \/ WaitAtGate(r) \/ Resume(r)
CallEnds(r) == Answered(r) \/ Escalates(r)
Leaves(r) == LeavesQueue(r) \/ LeavesInHandOver(r) \/ LeavesCall(r)

Next == \E r \in Requests :
    Walks(r) \/ CallEnds(r) \/ Leaves(r) \/ \E t \in Gated : Release(t, r)

Spec == Init /\ [][Next]_vars

\* The runtime polls every ready future, and the backend's own timeout_ms ends a
\* call: in this mode the gateway has no timeout.
FairSpec == /\ Spec
            /\ \A r \in Requests : WF_vars(Walks(r)) /\ WF_vars(CallEnds(r))
            /\ \A r \in Requests, t \in Gated : WF_vars(Release(t, r))

-----------------------------------------------------------------------------
TypeOK ==
    /\ prio \in [Requests -> MinPriority .. MaxPriority]
    /\ place \in [Tiers -> [Requests -> Places]]
    /\ arrival \in [Tiers -> [Requests -> Nat]]
    /\ clock \in [Tiers -> Nat]
    /\ floor \in [Requests -> Tiers]
    /\ unusable \in [Requests -> Outages]
    /\ at \in [Requests -> 1 .. Top + 1]
    /\ phase \in [Requests -> Phases]
    /\ tried \in [Requests -> Seq(Tiers)]

\* A request holds, or is being handed, at most the permit of the tier it stands
\* at: none is taken up the ladder, none survives the request.
OnePermit ==
    \A r \in Requests, t \in Tiers :
        place[t][r] \in {"waiting", "active"} => t = at[r] /\ phase[r] \in {"queued", "calling"}

\* The ladder is climbed rung by rung: each tier from the floor to the one
\* reached has been called once, in order, unless it was skipped for its health
\* or its client; so a request that gives up has called all of them.
RungByRung ==
    \A r \in Requests :
        LET reached == IF phase[r] \in {"walking", "queued"} THEN at[r] - 1 ELSE at[r]
        IN  /\ \A i, j \in DOMAIN tried[r] : i < j => tried[r][i] < tried[r][j]
            /\ phase[r] # "left" =>
                  {tried[r][i] : i \in DOMAIN tried[r]}
                    = {t \in floor[r] .. Top : t <= reached /\ t \notin unusable[r]}

\* Towards its callers, every tier is a priority service of its own: each step of
\* the walks and of the release tasks is, at each tier, a step of its service or
\* a stutter.
TiersAreServices ==
    /\ \A t \in Tiers : Service(t)!Init
    /\ [][\A t \in Tiers : Service(t)!Next \/ UNCHANGED Service(t)!vars]_<<prio, gateVars>>

Ghost(r) == \E t \in Gated : place[t][r] = "ghost"

\* Every walk ends, or some slot was handed to a client that had just left: no
\* two requests can wait for each other on different rungs.
WalkEndsBarGhosts ==
    \A r \in Requests : phase[r] = "walking" ~> phase[r] \in Ended \/ \E g \in Requests : Ghost(g)
=============================================================================
