----------------------------- MODULE PriorityGate -----------------------------
(***************************************************************************)
(* The per-tier priority gate of router/priority.rs: "fire if top, queue   *)
(* if not".  One gate (TierPriorityGate) and the requests that pass        *)
(* through it, each once.  The gate's mutex makes every critical section   *)
(* one atomic step; what happens outside it (a oneshot value travelling to *)
(* a suspended waiter, the spawned task that a dropped permit leaves       *)
(* behind, a client that disconnects) is an action of its own.             *)
(***************************************************************************)
EXTENDS Integers

CONSTANTS Requests,       \* the requests that use this gate
          MinPriority,    \* X-LMG-Priority is an i32: the bounds of that type
          MaxPriority

ASSUME PriorityAssumption ==
    /\ MinPriority \in Int
    /\ MaxPriority \in Int

Priorities == MinPriority .. MaxPriority

VARIABLES
    inFlight,     \* GateState.in_flight, a multiset: how often each priority occurs
    pending,      \* GateState.pending: the requests with an entry in the queue
    nextTicket,   \* GateState.next_ticket
    prio,         \* the priority each request carries
    ticket,       \* PendingEntry.ticket of the requests that were queued
    pc            \* where each request stands

vars == <<inFlight, pending, nextTicket, prio, ticket, pc>>

(***************************************************************************)
(* idle       has not called acquire                                       *)
(* waiting    suspended in rx.await, its entry is in pending               *)
(* cancelled  its future was dropped while waiting: receiver closed        *)
(* granted    a value was sent to its receiver, rx.await not yet resumed   *)
(* ghost      its future was dropped while granted                         *)
(* holding    owns a PriorityPermit                                        *)
(* releasing  its permit was dropped, the spawned task has not yet run     *)
(* done       the spawned task has run                                     *)
(***************************************************************************)
Stages == {"idle", "waiting", "cancelled", "granted", "ghost", "holding",
           "releasing", "done"}

\* The stages in which a request accounts for an entry of in_flight.
Occupying == {"granted", "ghost", "holding", "releasing"}

Init ==
    /\ inFlight = [p \in Priorities |-> 0]
    /\ pending = {}
    /\ nextTicket = 0
    /\ prio \in [Requests -> Priorities]
    /\ ticket = [r \in Requests |-> 0]
    /\ pc = [r \in Requests |-> "idle"]

-----------------------------------------------------------------------------
(* Helpers of GateState.                                                   *)

\* Seeded fault: an equal priority fires beside its equal.
CanFireNonStrict(slots, p) == \A q \in Priorities : slots[q] > 0 => p >= q

\* can_fire: strictly greater than every in-flight priority.
CanFire(slots, p) == \A q \in Priorities : slots[q] > 0 => p > q

\* Seeded fault: the sort forgets the ticket's direction (last in, first out).
BeforeLifo(r, s) ==
    \/ prio[r] > prio[s]
    \/ prio[r] = prio[s] /\ ticket[r] > ticket[s]

\* The order pending is kept in: highest priority first, FIFO within a level.
Before(r, s) ==
    \/ prio[r] > prio[s]
    \/ prio[r] = prio[s] /\ ticket[r] < ticket[s]

\* tx.is_closed()
Closed(r) == pc[r] = "cancelled"

\* Seeded fault: closed entries are not popped.
ReapedNone == {}

\* The closed entries that try_unblock_next pops: those ahead of every live one.
Reaped == {r \in pending : Closed(r) /\ \A s \in pending : Closed(s) \/ Before(r, s)}

IsFront(r, queue) == r \in queue /\ \A s \in queue \ {r} : Before(r, s)

\* in_flight after one occurrence of r's priority is removed, if there is one.
Freed(r) == [inFlight EXCEPT ![prio[r]] = IF @ > 0 THEN @ - 1 ELSE 0]

-----------------------------------------------------------------------------
(* acquire, under the lock.                                                *)

\* The fast path: the permit is built before the lock is released.
FireNow(r) ==
    /\ pc[r] = "idle"
    /\ CanFire(inFlight, prio[r])
    /\ inFlight' = [inFlight EXCEPT ![prio[r]] = @ + 1]
    /\ pc' = [pc EXCEPT ![r] = "holding"]
    /\ UNCHANGED <<pending, nextTicket, prio, ticket>>

\* The slow path: an entry with the next ticket, then rx.await.
Enqueue(r) ==
    /\ pc[r] = "idle"
    /\ ~CanFire(inFlight, prio[r])
    /\ pending' = pending \union {r}
    /\ ticket' = [ticket EXCEPT ![r] = nextTicket]
    /\ nextTicket' = nextTicket + 1
    /\ pc' = [pc EXCEPT ![r] = "waiting"]
    /\ UNCHANGED <<inFlight, prio>>

\* rx.await resumes and the PriorityPermit is built.
Resume(r) ==
    /\ pc[r] = "granted"
    /\ pc' = [pc EXCEPT ![r] = "holding"]
    /\ UNCHANGED <<inFlight, pending, nextTicket, prio, ticket>>

\* PriorityPermit::drop: the call returned, failed, timed out or its future
\* was dropped by a disconnect.  The slot itself is freed by the spawned task.
DropPermit(r) ==
    /\ pc[r] = "holding"
    /\ pc' = [pc EXCEPT ![r] = "releasing"]
    /\ UNCHANGED <<inFlight, pending, nextTicket, prio, ticket>>

\* A client disconnects while its request is queued: the future of acquire is
\* dropped, which closes the receiver and leaves the entry in pending.
DisconnectQueued(r) ==
    /\ pc[r] = "waiting"
    /\ pc' = [pc EXCEPT ![r] = "cancelled"]
    /\ UNCHANGED <<inFlight, pending, nextTicket, prio, ticket>>

\* A client disconnects after its entry was granted (or after is_closed was
\* tested and before send) and before rx.await resumed: no permit exists yet.
DisconnectGranted(r) ==
    /\ pc[r] = "granted"
    /\ pc' = [pc EXCEPT ![r] = "ghost"]
    /\ UNCHANGED <<inFlight, pending, nextTicket, prio, ticket>>

-----------------------------------------------------------------------------
(* The task PriorityPermit::drop spawns: remove one occurrence from        *)
(* in_flight, then try_unblock_next, all under the lock.                   *)

\* The front live entry can fire: it takes a slot and its receiver the value.
ReleaseAndWake(r, s) ==
    /\ pc[r] = "releasing"
    /\ IsFront(s, pending \ Reaped)
    /\ CanFire(Freed(r), prio[s])
    /\ pending' = pending \ (Reaped \union {s})
    /\ inFlight' = [Freed(r) EXCEPT ![prio[s]] = @ + 1]
    /\ pc' = [pc EXCEPT ![r] = "done", ![s] = "granted"]
    /\ UNCHANGED <<nextTicket, prio, ticket>>

\* Seeded fault: the task frees the slot and does not call try_unblock_next.
ReleaseWithoutUnblock(r) ==
    /\ pc[r] = "releasing"
    /\ pending' = pending
    /\ inFlight' = Freed(r)
    /\ pc' = [pc EXCEPT ![r] = "done"]
    /\ UNCHANGED <<nextTicket, prio, ticket>>

\* Nobody waits, or the front live entry cannot fire and nothing behind it may.
ReleaseOnly(r) ==
    /\ pc[r] = "releasing"
    /\ ~ \E s \in pending : IsFront(s, pending \ Reaped) /\ CanFire(Freed(r), prio[s])
    /\ pending' = pending \ Reaped
    /\ inFlight' = Freed(r)
    /\ pc' = [pc EXCEPT ![r] = "done"]
    /\ UNCHANGED <<nextTicket, prio, ticket>>

Release(r) == ReleaseOnly(r) \/ \E s \in Requests : ReleaseAndWake(r, s)

-----------------------------------------------------------------------------
\* What every request and its spawned task do when the client stays, or leaves
\* at a moment when its future owns an entry or a permit.
Attended(r) ==
    \/ FireNow(r)
    \/ Enqueue(r)
    \/ Resume(r)
    \/ DropPermit(r)
    \/ DisconnectQueued(r)
    \/ Release(r)

Next == \E r \in Requests : Attended(r) \/ DisconnectGranted(r)

(***************************************************************************)
(* The runtime polls every woken future and every spawned task, and a call *)
(* that holds a permit ends (the reqwest client's timeout_ms, or the       *)
(* profile's request_timeout_ms).  No client is obliged to arrive or leave.*)
(***************************************************************************)
Fairness == \A r \in Requests :
    WF_vars(Resume(r)) /\ WF_vars(DropPermit(r)) /\ WF_vars(Release(r))

Spec == Init /\ [][Next]_vars
FairSpec == Spec /\ Fairness

-----------------------------------------------------------------------------
TypeOK ==
    /\ inFlight \in [Priorities -> Nat]
    /\ pending \in SUBSET Requests
    /\ nextTicket \in Nat
    /\ prio \in [Requests -> Priorities]
    /\ ticket \in [Requests -> Nat]
    /\ pc \in [Requests -> Stages]

\* Two requests of one priority never occupy the gate together: in_flight,
\* kept as a Vec that "may have duplicates", is in fact a set.
OnePerPriority ==
    \A r, s \in Requests :
        pc[r] \in Occupying /\ pc[s] \in Occupying /\ prio[r] = prio[s] => r = s

\* in_flight counts exactly the requests that occupy the gate: no permit is
\* released twice, and no grant or release miscounts.
SlotsAccounted ==
    \A p \in Priorities :
        inFlight[p] = IF \E r \in Requests : pc[r] \in Occupying /\ prio[r] = p
                      THEN 1 ELSE 0

\* No wake-up is lost: no queued entry could fire.  Every release that makes
\* room for the front of the queue also hands it the slot.
WaitersBlocked == \A r \in pending : ~CanFire(inFlight, prio[r])

\* pending and the suspended waiters agree: every waiter still has an entry for
\* a release to find, no entry outlives its request's stay in the queue (a
\* grant or a pop removes it for good), and tickets order the entries totally.
QueueConsistent ==
    /\ \A r \in Requests : pc[r] = "waiting" => r \in pending
    /\ \A r \in pending : pc[r] \in {"waiting", "cancelled"} /\ ticket[r] < nextTicket
    /\ \A r, s \in pending : ticket[r] = ticket[s] => r = s

\* The inductive invariant: no conjunct is inductive without the others.
GateInv == TypeOK /\ QueueConsistent /\ OnePerPriority /\ SlotsAccounted /\ WaitersBlocked

\* A request is admitted only ahead of every request still suspended: strictly
\* higher priority, or the same priority and queued earlier.  It holds for the
\* fast path too, where a newcomer must not overtake an equal.
AdmissionOrder ==
    [][\A r, s \in Requests :
          /\ pc[r] \notin Occupying /\ pc'[r] \in Occupying
          /\ pc'[s] = "waiting"
          => /\ prio[r] >= prio[s]
             /\ pc[r] = "idle" => prio[r] > prio[s]
             /\ prio[r] = prio[s] => ticket[r] < ticket[s]]_vars

\* A queued request leaves the queue, served or because its client left, unless
\* a slot it must wait for was handed to a request whose client had just left.
WaiterServedBarGhosts ==
    \A r \in Requests :
        pc[r] = "waiting"
            ~> pc[r] # "waiting" \/ \E g \in Requests : pc[g] = "ghost" /\ prio[g] >= prio[r]

\* A queued request is served, or its client leaves: what the comments of
\* dispatch say a dropped permit guarantees the requests behind it.
WaiterServed == \A r \in Requests : pc[r] = "waiting" ~> pc[r] # "waiting"

-----------------------------------------------------------------------------
(***************************************************************************)
(* The gate implements the service of PriorityService: a granted request   *)
(* is being served from the moment the releaser hands it the slot until    *)
(* the spawned task frees it, and the entries of departed clients, popped  *)
(* lazily, are invisible.                                                  *)
(***************************************************************************)
ServiceStage ==
    [r \in Requests |->
        IF pc[r] = "idle" THEN "new"
        ELSE IF pc[r] = "waiting" THEN "waiting"
        ELSE IF pc[r] \in Occupying THEN "active" ELSE "gone"]

Service == INSTANCE PriorityService
             WITH stage <- ServiceStage, arrival <- ticket, clock <- nextTicket

\* Every step of the gate is a step of the service or leaves it unchanged.
ImplementsService == Service!Spec
=============================================================================
