---------------------------- MODULE DispatchProofs ----------------------------
(***************************************************************************)
(* Proofs about PriorityGate, for every set of requests and every range of *)
(* priorities, and about Dispatch, which extends it, for any retry         *)
(* settings.                                                               *)
(***************************************************************************)
EXTENDS Dispatch, WellFoundedInduction, TLAPS

-----------------------------------------------------------------------------
(* Type correctness.                                                       *)

\* One step of any request keeps the types.
LEMMA TypeStep == TypeOK /\ [Next]_vars => TypeOK'
<1> SUFFICES ASSUME TypeOK, [Next]_vars
             PROVE  TypeOK'
  OBVIOUS
<1>. USE DEF TypeOK, Stages
<1>1. ASSUME NEW r \in Requests, FireNow(r)
      PROVE  TypeOK'
  BY <1>1 DEF FireNow
<1>2. ASSUME NEW r \in Requests, Enqueue(r)
      PROVE  TypeOK'
  BY <1>2 DEF Enqueue
<1>3. ASSUME NEW r \in Requests, Resume(r)
      PROVE  TypeOK'
  BY <1>3 DEF Resume
<1>4. ASSUME NEW r \in Requests, DropPermit(r)
      PROVE  TypeOK'
  BY <1>4 DEF DropPermit
<1>5. ASSUME NEW r \in Requests, DisconnectQueued(r)
      PROVE  TypeOK'
  BY <1>5 DEF DisconnectQueued
<1>6. ASSUME NEW r \in Requests, DisconnectGranted(r)
      PROVE  TypeOK'
  BY <1>6 DEF DisconnectGranted
<1>7. ASSUME NEW r \in Requests PROVE Freed(r) \in [Priorities -> Nat]
  BY DEF Freed
<1>8. ASSUME NEW r \in Requests, ReleaseOnly(r)
      PROVE  TypeOK'
  BY <1>7, <1>8 DEF ReleaseOnly
<1>9. ASSUME NEW r \in Requests, NEW s \in Requests, ReleaseAndWake(r, s)
      PROVE  TypeOK'
  BY <1>7, <1>9 DEF ReleaseAndWake
<1>10. CASE UNCHANGED vars
  BY <1>10 DEF vars
<1>. QED
  BY <1>1, <1>2, <1>3, <1>4, <1>5, <1>6, <1>8, <1>9, <1>10
  DEF Next, Attended, Release

\* Whatever the requests do, the gate's state keeps its shape; in particular
\* no release drives a slot count below zero.
THEOREM TypeCorrect == Spec => []TypeOK
<1>1. Init => TypeOK
  BY DEF Init, TypeOK, Stages
<1>. QED  BY <1>1, TypeStep, PTL DEF Spec

-----------------------------------------------------------------------------
(* The front of the queue.                                                 *)

\* Every nonempty set of naturals has a least element.
LEMMA LeastNatural ==
  ASSUME NEW S \in SUBSET Nat, S # {}
  PROVE  \E n \in S : \A m \in S : n <= m
<1>1. PICK n \in S : \A m \in S : ~ (<<m, n>> \in OpToRel(<, Nat))
  BY WFMin, NatLessThanWellFounded
<1>2. ASSUME NEW m \in S PROVE n <= m
  <2>1. <<m, n>> \in Nat \X Nat /\ <<m, n>>[1] = m /\ <<m, n>>[2] = n
    OBVIOUS
  <2>2. ~ (m < n)
    BY <1>1, <2>1 DEF OpToRel
  <2>. QED  BY <2>2
<1>. QED  BY <1>2

\* A nonempty part of the queue has a front: try_unblock_next always finds the
\* one entry that every other entry comes after.
LEMMA FrontExists ==
  ASSUME TypeOK, QueueConsistent, NEW Q \in SUBSET pending, Q # {}
  PROVE  \E s \in Q : IsFront(s, Q)
<1>. USE DEF TypeOK
<1>. DEFINE Rank == {MaxPriority - prio[r] : r \in Q}
<1>1. \A r \in Q : /\ prio[r] \in Int /\ MaxPriority - prio[r] \in Nat
                   /\ ticket[r] \in Nat
  BY PriorityAssumption DEF Priorities
<1>2. PICK best \in Q : \A r \in Q : prio[r] <= prio[best]
  <2>1. PICK m \in Rank : \A n \in Rank : m <= n
    <3>1. Rank \in SUBSET Nat /\ Rank # {}
      BY <1>1
    <3>. QED  BY <3>1, LeastNatural
  <2>2. PICK best \in Q : m = MaxPriority - prio[best]
    OBVIOUS
  <2>3. ASSUME NEW r \in Q PROVE prio[r] <= prio[best]
    <3>1. MaxPriority - prio[best] <= MaxPriority - prio[r]
      BY <2>1, <2>2
    <3>. QED  BY <1>1, <3>1, PriorityAssumption
  <2>. QED  BY <2>3
<1>. DEFINE Top == {r \in Q : prio[r] = prio[best]}
            Tickets == {ticket[r] : r \in Top}
<1>3. PICK first \in Top : \A r \in Top : ticket[first] <= ticket[r]
  <2>1. Tickets \in SUBSET Nat /\ Tickets # {}
    BY <1>1
  <2>2. PICK t \in Tickets : \A u \in Tickets : t <= u
    BY <2>1, LeastNatural
  <2>. QED  BY <2>2
<1>4. ASSUME NEW s \in Q \ {first} PROVE Before(first, s)
  BY <1>1, <1>2, <1>3, <1>4 DEF Before, QueueConsistent
<1>. QED  BY <1>4 DEF IsFront

\* The front that remains once the closed entries ahead of it are popped is a
\* live waiter, so a grant is never sent to a receiver known to be closed.
LEMMA FrontIsLive ==
  ASSUME TypeOK, QueueConsistent, NEW s, IsFront(s, pending \ Reaped)
  PROVE  s \in pending /\ pc[s] = "waiting"
<1>1. s \in pending /\ s \notin Reaped
  BY DEF IsFront
<1>2. ASSUME Closed(s) PROVE FALSE
  <2>1. PICK t \in pending : ~Closed(t) /\ ~Before(s, t)
    BY <1>1, <1>2 DEF Reaped
  <2>2. t \in (pending \ Reaped) \ {s}
    BY <1>2, <2>1 DEF Reaped
  <2>. QED  BY <2>1, <2>2 DEF IsFront
<1>. QED  BY <1>1, <1>2 DEF QueueConsistent, Closed

-----------------------------------------------------------------------------
(* The inductive invariant.                                                *)

\* The slot a releasing request frees was its own and nobody else's.
LEMMA FreedSlot ==
  ASSUME GateInv, NEW r \in Requests, pc[r] = "releasing"
  PROVE  /\ Freed(r) \in [Priorities -> Nat]
         /\ Freed(r)[prio[r]] = 0
         /\ \A q \in Priorities \ {prio[r]} : Freed(r)[q] = inFlight[q]
<1>1. inFlight[prio[r]] = 1 /\ prio[r] \in Priorities
  BY DEF GateInv, TypeOK, SlotsAccounted, Occupying
<1>. QED  BY <1>1 DEF GateInv, TypeOK, Freed

\* An admission at a priority that can fire takes a slot that was free.
LEMMA CanFireFree ==
  ASSUME NEW slots \in [Priorities -> Nat], NEW p \in Priorities, CanFire(slots, p)
  PROVE  slots[p] = 0
BY DEF CanFire, Priorities

\* Queue part of the invariant.
LEMMA QueueStep == GateInv /\ [Next]_vars => QueueConsistent'
<1> SUFFICES ASSUME GateInv, [Next]_vars
             PROVE  QueueConsistent'
  OBVIOUS
<1>. USE DEF GateInv, TypeOK, Stages, QueueConsistent
<1>1. ASSUME NEW r \in Requests, FireNow(r)
      PROVE  QueueConsistent'
  BY <1>1 DEF FireNow
<1>2. ASSUME NEW r \in Requests, Enqueue(r)
      PROVE  QueueConsistent'
  BY <1>2 DEF Enqueue
<1>3. ASSUME NEW r \in Requests, Resume(r)
      PROVE  QueueConsistent'
  BY <1>3 DEF Resume
<1>4. ASSUME NEW r \in Requests, DropPermit(r)
      PROVE  QueueConsistent'
  BY <1>4 DEF DropPermit
<1>5. ASSUME NEW r \in Requests, DisconnectQueued(r)
      PROVE  QueueConsistent'
  BY <1>5 DEF DisconnectQueued
<1>6. ASSUME NEW r \in Requests, DisconnectGranted(r)
      PROVE  QueueConsistent'
  BY <1>6 DEF DisconnectGranted
<1>7. ASSUME NEW r \in Requests, ReleaseOnly(r)
      PROVE  QueueConsistent'
  BY <1>7 DEF ReleaseOnly, Reaped, Closed
<1>8. ASSUME NEW r \in Requests, NEW s \in Requests, ReleaseAndWake(r, s)
      PROVE  QueueConsistent'
  <2>1. s \in pending /\ pc[s] = "waiting"
    BY <1>8, FrontIsLive DEF ReleaseAndWake
  <2>. QED  BY <1>8, <2>1 DEF ReleaseAndWake, Reaped, Closed
<1>9. CASE UNCHANGED vars
  BY <1>9 DEF vars
<1>. QED
  BY <1>1, <1>2, <1>3, <1>4, <1>5, <1>6, <1>7, <1>8, <1>9
  DEF Next, Attended, Release

\* Slot part of the invariant.
LEMMA SlotStep == GateInv /\ [Next]_vars => (OnePerPriority /\ SlotsAccounted)'
<1> SUFFICES ASSUME GateInv, [Next]_vars
             PROVE  (OnePerPriority /\ SlotsAccounted)'
  OBVIOUS
<1>. USE DEF GateInv, TypeOK, Stages, Occupying
<1>1. ASSUME NEW r \in Requests, FireNow(r)
      PROVE  (OnePerPriority /\ SlotsAccounted)'
  <2>1. inFlight[prio[r]] = 0
    BY <1>1, CanFireFree DEF FireNow
  <2>2. \A s \in Requests : pc[s] \in Occupying => prio[s] # prio[r]
    BY <2>1 DEF SlotsAccounted
  <2>3. OnePerPriority'
    BY <1>1, <2>2 DEF FireNow, OnePerPriority
  <2>4. SlotsAccounted'
    BY <1>1, <2>1, <2>2 DEF FireNow, SlotsAccounted
  <2>. QED  BY <2>3, <2>4
<1>2. ASSUME NEW r \in Requests,
             \/ Enqueue(r) \/ Resume(r) \/ DropPermit(r)
             \/ DisconnectQueued(r) \/ DisconnectGranted(r)
      PROVE  (OnePerPriority /\ SlotsAccounted)'
  <2>1. /\ inFlight' = inFlight /\ prio' = prio
        /\ \A s \in Requests : pc'[s] \in Occupying <=> pc[s] \in Occupying
    BY <1>2 DEF Enqueue, Resume, DropPermit, DisconnectQueued, DisconnectGranted
  <2>. QED  BY <2>1 DEF OnePerPriority, SlotsAccounted
<1>3. ASSUME NEW r \in Requests, ReleaseOnly(r)
      PROVE  (OnePerPriority /\ SlotsAccounted)'
  <2>1. /\ pc[r] \in Occupying /\ prio' = prio /\ inFlight' = Freed(r)
        /\ \A s \in Requests : pc'[s] \in Occupying <=> pc[s] \in Occupying /\ s # r
    BY <1>3 DEF ReleaseOnly
  <2>2. OnePerPriority'
    BY <2>1 DEF OnePerPriority
  <2>3. SlotsAccounted'
    BY <1>3, <2>1, FreedSlot DEF ReleaseOnly, OnePerPriority, SlotsAccounted
  <2>. QED  BY <2>2, <2>3
<1>4. ASSUME NEW r \in Requests, NEW s \in Requests, ReleaseAndWake(r, s)
      PROVE  (OnePerPriority /\ SlotsAccounted)'
  <2>1. pc[s] = "waiting"
    BY <1>4, FrontIsLive DEF ReleaseAndWake
  <2>2. /\ pc[r] \in Occupying /\ r # s /\ prio' = prio
        /\ \A t \in Requests :
              pc'[t] \in Occupying <=> t = s \/ (pc[t] \in Occupying /\ t # r)
    BY <1>4, <2>1 DEF ReleaseAndWake
  <2>3. Freed(r)[prio[s]] = 0
    BY <1>4, FreedSlot, CanFireFree DEF ReleaseAndWake
  <2>4. \A t \in Requests : pc[t] \in Occupying /\ t # r => prio[t] # prio[s]
    <3> SUFFICES ASSUME NEW t \in Requests, pc[t] \in Occupying, t # r, prio[t] = prio[s]
                 PROVE  FALSE
      OBVIOUS
    <3>1. prio[t] # prio[r]
      BY <2>2 DEF OnePerPriority
    <3>2. inFlight[prio[t]] = 0
      BY <1>4, <2>3, <3>1, FreedSlot DEF ReleaseAndWake
    <3>. QED  BY <3>2 DEF SlotsAccounted
  <2>5. OnePerPriority'
    BY <2>2, <2>4 DEF OnePerPriority
  <2>6. /\ inFlight'[prio[s]] = 1
        /\ \A q \in Priorities \ {prio[s]} : inFlight'[q] = Freed(r)[q]
    BY <1>4, <2>3, FreedSlot DEF ReleaseAndWake
  <2>7. SlotsAccounted'
    BY <1>4, <2>2, <2>4, <2>6, FreedSlot DEF ReleaseAndWake, OnePerPriority, SlotsAccounted
  <2>. QED  BY <2>5, <2>7
<1>5. CASE UNCHANGED vars
  BY <1>5 DEF vars, OnePerPriority, SlotsAccounted
<1>. QED
  BY <1>1, <1>2, <1>3, <1>4, <1>5 DEF Next, Attended, Release

\* No-lost-wake-up part of the invariant.
LEMMA BlockedStep == GateInv /\ [Next]_vars => WaitersBlocked'
<1> SUFFICES ASSUME GateInv, [Next]_vars
             PROVE  WaitersBlocked'
  OBVIOUS
<1>. USE DEF GateInv, TypeOK
<1>1. ASSUME NEW r \in Requests, FireNow(r)
      PROVE  WaitersBlocked'
  <2>1. UNCHANGED <<pending, prio>>
    BY <1>1 DEF FireNow
  <2>2. ASSUME NEW t \in pending PROVE ~CanFire(inFlight', prio[t])
    <3>1. PICK q \in Priorities : inFlight[q] > 0 /\ ~(prio[t] > q)
      BY DEF WaitersBlocked, CanFire
    <3>2. inFlight'[q] > 0
      BY <1>1, <3>1 DEF FireNow
    <3>. QED  BY <3>1, <3>2 DEF CanFire
  <2>. QED  BY <2>1, <2>2 DEF WaitersBlocked, CanFire
<1>2. ASSUME NEW r \in Requests, Enqueue(r)
      PROVE  WaitersBlocked'
  BY <1>2 DEF Enqueue, WaitersBlocked, CanFire
<1>3. ASSUME NEW r \in Requests,
             Resume(r) \/ DropPermit(r) \/ DisconnectQueued(r) \/ DisconnectGranted(r)
      PROVE  WaitersBlocked'
  BY <1>3 DEF Resume, DropPermit, DisconnectQueued, DisconnectGranted,
              WaitersBlocked, CanFire
<1>4. ASSUME NEW r \in Requests, ReleaseOnly(r)
      PROVE  WaitersBlocked'
  <2>1. pending' = pending \ Reaped /\ inFlight' = Freed(r) /\ prio' = prio
    BY <1>4 DEF ReleaseOnly
  <2>2. SUFFICES ASSUME NEW t \in pending \ Reaped
                 PROVE  ~CanFire(Freed(r), prio[t])
    BY <2>1 DEF WaitersBlocked, CanFire
  <2>3. PICK f \in pending \ Reaped : IsFront(f, pending \ Reaped)
    BY <2>2, FrontExists
  <2>4. ~CanFire(Freed(r), prio[f])
    BY <1>4, <2>3 DEF ReleaseOnly
  <2>5. prio[t] <= prio[f]
    <3>1. prio[t] \in Int /\ prio[f] \in Int /\ (t = f \/ Before(f, t))
      BY <2>2, <2>3 DEF IsFront, Priorities
    <3>. QED  BY ONLY <3>1 DEF Before
  <2>6. PICK q \in Priorities : Freed(r)[q] > 0 /\ ~(prio[f] > q)
    BY ONLY <2>4 DEF CanFire
  <2>7. prio[t] \in Int /\ prio[f] \in Int /\ q \in Int
    BY <2>2, <2>3, <2>6 DEF IsFront, Priorities
  <2>8. ~(prio[t] > q)
    BY ONLY <2>5, <2>6, <2>7
  <2>. QED  BY ONLY <2>6, <2>8 DEF CanFire
<1>5. ASSUME NEW r \in Requests, NEW s \in Requests, ReleaseAndWake(r, s)
      PROVE  WaitersBlocked'
  <2>1. /\ pending' = (pending \ Reaped) \ {s}
        /\ prio' = prio
        /\ inFlight'[prio[s]] > 0
    BY <1>5, FreedSlot DEF ReleaseAndWake
  <2>2. ASSUME NEW t \in pending' PROVE prio[t] <= prio[s]
    <3>1. t \in (pending \ Reaped) \ {s} /\ IsFront(s, pending \ Reaped)
      BY <1>5, <2>1, <2>2 DEF ReleaseAndWake
    <3>2. Before(s, t) /\ prio[s] \in Int /\ prio[t] \in Int
      BY <3>1 DEF IsFront, Priorities
    <3>. QED  BY <3>2 DEF Before
  <2>. QED  BY <2>1, <2>2 DEF WaitersBlocked, CanFire, Priorities
<1>6. CASE UNCHANGED vars
  BY <1>6 DEF vars, WaitersBlocked, CanFire
<1>. QED
  BY <1>1, <1>2, <1>3, <1>4, <1>5, <1>6 DEF Next, Attended, Release

\* Every state the gate can reach satisfies the inductive invariant.
THEOREM GateInvariant == Spec => []GateInv
<1>1. Init => GateInv
  BY DEF Init, GateInv, TypeOK, Stages, QueueConsistent, OnePerPriority,
         SlotsAccounted, WaitersBlocked, Occupying
<1>2. GateInv /\ [Next]_vars => GateInv'
  BY TypeStep, QueueStep, SlotStep, BlockedStep DEF GateInv
<1>. QED  BY <1>1, <1>2, PTL DEF Spec

-----------------------------------------------------------------------------
(* The properties of the gate.                                             *)

\* However many requests share the gate and whoever disconnects, no two of one
\* priority occupy it together.
THEOREM MutualExclusionPerPriority == Spec => []OnePerPriority
BY GateInvariant, PTL DEF GateInv

\* in_flight never miscounts: every release frees exactly the slot it took.
THEOREM SlotAccounting == Spec => []SlotsAccounted
BY GateInvariant, PTL DEF GateInv

\* No request is ever left suspended while it could fire.
THEOREM NoLostWakeup == Spec => []WaitersBlocked
BY GateInvariant, PTL DEF GateInv

\* The queue keeps an entry for every suspended waiter and for nobody else but
\* departed ones.
THEOREM QueueConsistency == Spec => []QueueConsistent
BY GateInvariant, PTL DEF GateInv

\* Requests are admitted in priority order, first come first served within a
\* priority, whatever entries of departed clients stand between them.
THEOREM PriorityOrder == Spec => AdmissionOrder
<1>. DEFINE Ordered ==
       \A r, s \in Requests :
          /\ pc[r] \notin Occupying /\ pc'[r] \in Occupying
          /\ pc'[s] = "waiting"
          => /\ prio[r] >= prio[s]
             /\ pc[r] = "idle" => prio[r] > prio[s]
             /\ prio[r] = prio[s] => ticket[r] < ticket[s]
<1>1. GateInv /\ [Next]_vars => [Ordered]_vars
  <2> SUFFICES ASSUME GateInv, Next PROVE Ordered
    OBVIOUS
  <2>. USE DEF GateInv, TypeOK, Stages, Occupying
  <2>1. ASSUME NEW r \in Requests, FireNow(r)
        PROVE  Ordered
    <3> SUFFICES ASSUME NEW s \in Requests, pc'[s] = "waiting"
                 PROVE  prio[r] > prio[s]
      BY <2>1 DEF FireNow, Priorities
    <3>1. s \in pending
      BY <2>1 DEF FireNow, QueueConsistent
    <3>2. PICK q \in Priorities : inFlight[q] > 0 /\ prio[s] <= q
      BY <3>1 DEF WaitersBlocked, CanFire, Priorities
    <3>. QED  BY <2>1, <3>1, <3>2 DEF FireNow, CanFire, Priorities
  <2>2. ASSUME NEW r \in Requests,
               \/ Enqueue(r) \/ Resume(r) \/ DropPermit(r)
               \/ DisconnectQueued(r) \/ DisconnectGranted(r) \/ ReleaseOnly(r)
        PROVE  Ordered
    BY <2>2 DEF Enqueue, Resume, DropPermit, DisconnectQueued, DisconnectGranted,
                ReleaseOnly
  <2>3. ASSUME NEW r \in Requests, NEW s \in Requests, ReleaseAndWake(r, s)
        PROVE  Ordered
    <3>1. pc[s] = "waiting" /\ UNCHANGED <<prio, ticket>>
      BY <2>3, FrontIsLive DEF ReleaseAndWake
    <3>2. \A t \in Requests : pc[t] \notin Occupying /\ pc'[t] \in Occupying => t = s
      BY <2>3 DEF ReleaseAndWake
    <3>3. ASSUME NEW t \in Requests, pc'[t] = "waiting"
          PROVE  Before(s, t)
      <4>1. t # s /\ pc[t] = "waiting"
        BY <2>3, <3>1, <3>3 DEF ReleaseAndWake
      <4>2. t \in pending \ Reaped
        BY <4>1 DEF QueueConsistent, Reaped, Closed
      <4>. QED  BY <2>3, <4>1, <4>2 DEF ReleaseAndWake, IsFront
    <3>4. \A t \in Requests : prio[t] \in Int
      BY DEF Priorities
    <3>. QED  BY <3>1, <3>2, <3>3, <3>4 DEF Before
  <2>. QED  BY <2>1, <2>2, <2>3 DEF Next, Attended, Release
<1>2. GateInv /\ [Next]_vars => [\A r, s \in Requests :
          /\ pc[r] \notin Occupying /\ pc'[r] \in Occupying
          /\ pc'[s] = "waiting"
          => /\ prio[r] >= prio[s]
             /\ pc[r] = "idle" => prio[r] > prio[s]
             /\ prio[r] = prio[s] => ticket[r] < ticket[s]]_vars
  BY <1>1
<1>. QED  BY <1>2, GateInvariant, PTL DEF Spec, AdmissionOrder

-----------------------------------------------------------------------------
(* The gate implements PriorityService.                                    *)

\* The front of the queue without its popped entries is the first live waiter.
LEMMA FirstIsFront ==
  ASSUME GateInv, NEW s \in Requests
  PROVE  Service!First(s) <=> IsFront(s, pending \ Reaped)
<1>. USE DEF GateInv, TypeOK, Stages
<1>. DEFINE Queue == pending \ Reaped
<1>1. \A t \in Requests : pc[t] = "waiting" <=> t \in pending /\ ~Closed(t)
  BY DEF QueueConsistent, Closed
<1>2. \A t \in Requests : ServiceStage[t] = "waiting" <=> pc[t] = "waiting"
  BY DEF ServiceStage, Occupying
<1>3. Service!First(s) <=>
        pc[s] = "waiting" /\ \A t \in Requests \ {s} : pc[t] = "waiting" => Before(s, t)
  BY <1>2 DEF Service!First, Before
<1>4. ASSUME IsFront(s, Queue)
      PROVE  Service!First(s)
  <2>1. pc[s] = "waiting"
    BY <1>4, FrontIsLive
  <2>2. ASSUME NEW t \in Requests \ {s}, pc[t] = "waiting"
        PROVE  Before(s, t)
    BY <1>1, <1>4, <2>2 DEF IsFront, Reaped
  <2>. QED  BY <1>3, <2>1, <2>2
<1>5. ASSUME Service!First(s)
      PROVE  IsFront(s, Queue)
  <2>1. s \in Queue
    BY <1>1, <1>3, <1>5 DEF Reaped
  <2>2. ASSUME NEW c \in Queue \ {s} PROVE Before(s, c)
    <3>1. CASE ~Closed(c)
      BY <1>1, <1>3, <1>5, <2>2, <3>1
    <3>2. CASE Closed(c)
      <4>1. PICK t \in pending : ~Closed(t) /\ ~Before(c, t)
        BY <2>2, <3>2 DEF Reaped
      <4>2. t = s \/ Before(s, t)
        BY <1>1, <1>3, <1>5, <4>1
      <4>3. /\ prio[s] \in Int /\ prio[c] \in Int /\ prio[t] \in Int
            /\ ticket[s] \in Int /\ ticket[c] \in Int /\ ticket[t] \in Int
            /\ ticket[s] # ticket[c]
        BY <2>1, <2>2, <4>1 DEF Priorities, QueueConsistent
      <4>. QED  BY <4>1, <4>2, <4>3 DEF Before
    <3>. QED  BY <3>1, <3>2
  <2>. QED  BY <2>1, <2>2 DEF IsFront
<1>. QED  BY <1>4, <1>5

\* "Greater than every in-flight priority" is "outranks everyone served".
LEMMA CanFireOutranks ==
  ASSUME GateInv, NEW s \in Requests
  PROVE  /\ pc[s] = "idle" => (CanFire(inFlight, prio[s]) <=> Service!OutranksActive(s, s))
         /\ \A r \in Requests : pc[r] = "releasing" =>
              (CanFire(Freed(r), prio[s]) <=> Service!OutranksActive(s, r))
<1>. USE DEF GateInv, TypeOK, Stages, Occupying
<1>1. \A t \in Requests : ServiceStage[t] = "active" <=> pc[t] \in Occupying
  BY DEF ServiceStage
<1>2. ASSUME pc[s] = "idle"
      PROVE  CanFire(inFlight, prio[s]) <=> Service!OutranksActive(s, s)
  <2>1. \A q \in Priorities : inFlight[q] > 0 <=>
           \E t \in Requests \ {s} : ServiceStage[t] = "active" /\ prio[t] = q
    BY <1>1, <1>2 DEF SlotsAccounted
  <2>. QED  BY <2>1 DEF CanFire, Service!OutranksActive
<1>3. ASSUME NEW r \in Requests, pc[r] = "releasing"
      PROVE  CanFire(Freed(r), prio[s]) <=> Service!OutranksActive(s, r)
  <2>1. \A q \in Priorities : Freed(r)[q] > 0 <=>
           \E t \in Requests \ {r} : pc[t] \in Occupying /\ prio[t] = q
    <3> SUFFICES ASSUME NEW q \in Priorities
                 PROVE  Freed(r)[q] > 0 <=>
                          \E t \in Requests \ {r} : pc[t] \in Occupying /\ prio[t] = q
      OBVIOUS
    <3>1. CASE q = prio[r]
      BY <1>3, <3>1, FreedSlot DEF OnePerPriority
    <3>2. CASE q # prio[r]
      <4>1. Freed(r)[q] = inFlight[q]
        BY <1>3, <3>2, FreedSlot
      <4>. QED  BY <3>2, <4>1 DEF SlotsAccounted
    <3>. QED  BY <3>1, <3>2
  <2>. QED  BY <1>1, <2>1 DEF CanFire, Service!OutranksActive
<1>. QED  BY <1>2, <1>3

\* Every step of the gate is a step of the service, or invisible to it.
LEMMA ServiceStep == GateInv /\ [Next]_vars => [Service!Next]_(Service!vars)
<1> SUFFICES ASSUME GateInv, [Next]_vars
             PROVE  Service!Next \/ UNCHANGED Service!vars
  OBVIOUS
<1>. USE DEF GateInv, TypeOK, Stages, Occupying
<1>1. ASSUME NEW r \in Requests, FireNow(r)
      PROVE  Service!Admit(r)
  <2>1. Service!OutranksActive(r, r) /\ ServiceStage[r] = "new"
    BY <1>1, CanFireOutranks DEF FireNow, ServiceStage
  <2>2. ServiceStage' = [ServiceStage EXCEPT ![r] = "active"]
    BY <1>1 DEF FireNow, ServiceStage
  <2>. QED  BY <1>1, <2>1, <2>2 DEF FireNow, Service!Admit
<1>2. ASSUME NEW r \in Requests, Enqueue(r)
      PROVE  Service!Queue(r)
  <2>1. ~Service!OutranksActive(r, r) /\ ServiceStage[r] = "new"
    BY <1>2, CanFireOutranks DEF Enqueue, ServiceStage
  <2>2. ServiceStage' = [ServiceStage EXCEPT ![r] = "waiting"]
    BY <1>2 DEF Enqueue, ServiceStage
  <2>. QED  BY <1>2, <2>1, <2>2 DEF Enqueue, Service!Queue
<1>3. ASSUME NEW r \in Requests, Resume(r) \/ DropPermit(r) \/ DisconnectGranted(r)
      PROVE  UNCHANGED Service!vars
  <2>1. ServiceStage' = ServiceStage
    BY <1>3 DEF Resume, DropPermit, DisconnectGranted, ServiceStage
  <2>. QED  BY <1>3, <2>1 DEF Resume, DropPermit, DisconnectGranted, Service!vars
<1>4. ASSUME NEW r \in Requests, DisconnectQueued(r)
      PROVE  Service!Leave(r)
  <2>1. ServiceStage[r] = "waiting" /\ ServiceStage' = [ServiceStage EXCEPT ![r] = "gone"]
    BY <1>4 DEF DisconnectQueued, ServiceStage
  <2>. QED  BY <1>4, <2>1 DEF DisconnectQueued, Service!Leave
<1>5. ASSUME NEW r \in Requests, ReleaseOnly(r)
      PROVE  Service!FinishOnly(r)
  <2>1. ServiceStage[r] = "active" /\ ServiceStage' = [ServiceStage EXCEPT ![r] = "gone"]
    BY <1>5 DEF ReleaseOnly, ServiceStage
  <2>2. ASSUME NEW s \in Requests, Service!First(s)
        PROVE  ~Service!OutranksActive(s, r)
    <3>1. IsFront(s, pending \ Reaped) /\ s \in pending
      BY <2>2, FirstIsFront DEF IsFront
    <3>2. ~CanFire(Freed(r), prio[s])
      BY <1>5, <3>1 DEF ReleaseOnly
    <3>. QED  BY <1>5, <3>2, CanFireOutranks DEF ReleaseOnly
  <2>. QED  BY <1>5, <2>1, <2>2 DEF ReleaseOnly, Service!FinishOnly
<1>6. ASSUME NEW r \in Requests, NEW s \in Requests, ReleaseAndWake(r, s)
      PROVE  Service!FinishAndServe(r, s)
  <2>1. Service!First(s) /\ Service!OutranksActive(s, r)
    BY <1>6, FirstIsFront, CanFireOutranks DEF ReleaseAndWake
  <2>2. ServiceStage[r] = "active"
    BY <1>6 DEF ReleaseAndWake, ServiceStage
  <2>3. ServiceStage' = [ServiceStage EXCEPT ![r] = "gone", ![s] = "active"]
    BY <1>6 DEF ReleaseAndWake, ServiceStage
  <2>. QED  BY <1>6, <2>1, <2>2, <2>3 DEF ReleaseAndWake, Service!FinishAndServe
<1>7. CASE UNCHANGED vars
  BY <1>7 DEF vars, Service!vars, ServiceStage
<1>. QED
  BY <1>1, <1>2, <1>3, <1>4, <1>5, <1>6, <1>7
  DEF Next, Attended, Release, Service!Next, Service!Finish

\* The gate implements the service its callers rely on, for every number of
\* requests: queueing, grants, departures and lazily popped entries included.
THEOREM GateImplementsService == Spec => ImplementsService
<1>1. Init => Service!Init
  BY DEF Init, Service!Init, ServiceStage, Occupying, Priorities
<1>. QED
  BY <1>1, ServiceStep, GateInvariant, PTL DEF Spec, ImplementsService, Service!Spec

-----------------------------------------------------------------------------
\* Every step of a dispatch is a step of the shared gate or leaves it alone, so
\* everything proved of the gate holds of it here.
LEMMA DispatchUsesGate == DispatchSpec => Spec
<1>1. DispatchInit => Init
  BY DEF DispatchInit
<1>2. [DispatchNext]_dispatchVars => [Next]_vars
  <2> SUFFICES ASSUME [DispatchNext]_dispatchVars
               PROVE  Next \/ UNCHANGED vars
    OBVIOUS
  <2>. USE DEF vars
  <2>1. ASSUME NEW r \in Requests, Starts(r)
        PROVE  Attended(r) \/ UNCHANGED vars
    BY <2>1 DEF Starts, LookupFails, EnterGate, BypassGate, Attended
  <2>2. ASSUME NEW r \in Requests, Proceeds(r)
        PROVE  Attended(r) \/ UNCHANGED vars
    BY <2>2 DEF Proceeds, LeaveQueue, BuildFails, FirstCall, Retry, StartCall, End,
                Attended
  <2>3. ASSUME NEW r \in Requests, BackendAnswers(r)
        PROVE  Attended(r) \/ UNCHANGED vars
    BY <2>3 DEF BackendAnswers, CallSucceeds, CallFails, LastCallFails, End, Attended
  <2>4. ASSUME NEW r \in Requests, TimeOut(r) \/ Disconnects(r) \/ ReleaseSlot(r)
        PROVE  Attended(r) \/ UNCHANGED vars
    BY <2>4 DEF TimeOut, Disconnects, DisconnectInQueue, DisconnectInCall, ReleaseSlot,
                End, Attended
  <2>5. ASSUME NEW r \in Requests, DisconnectInHandOver(r)
        PROVE  DisconnectGranted(r)
    BY <2>5 DEF DisconnectInHandOver
  <2>6. CASE Reload \/ UNCHANGED dispatchVars
    BY <2>6 DEF Reload, dispatchVars, vars
  <2>. QED  BY <2>1, <2>2, <2>3, <2>4, <2>5, <2>6 DEF DispatchNext, Served, Next
<1>. QED  BY <1>1, <1>2, PTL DEF DispatchSpec, Spec

\* The gate's own invariant, in this system.
LEMMA GateHolds == DispatchSpec => [](TypeOK /\ QueueConsistent /\ OnePerPriority)
<1>1. Spec => []GateInv
  BY GateInvariant
<1>2. GateInv => TypeOK /\ QueueConsistent /\ OnePerPriority
  BY DEF GateInv
<1>. QED  BY <1>1, <1>2, DispatchUsesGate, PTL

-----------------------------------------------------------------------------
\* Where a dispatch stands decides where its request stands in the gate.
Coupled ==
    \A r \in Requests :
        /\ ~Gated(r) => pc[r] = "idle"
        /\ phase[r] = "start" => pc[r] = "idle"
        /\ phase[r] = "queued" => Gated(r) /\ pc[r] \in {"waiting", "granted"}
        /\ phase[r] \in {"ready", "calling", "sleeping"} /\ Gated(r) => pc[r] = "holding"
        /\ phase[r] \in Ended => pc[r] \in {"idle", "cancelled", "ghost", "releasing", "done"}

CoupledInv ==
    /\ pc \in [Requests -> Stages]
    /\ phase \in [Requests -> Phases]
    /\ hasGate \in BOOLEAN /\ local \in [Requests -> BOOLEAN]
    /\ Coupled

LEMMA CoupledInit == DispatchInit => CoupledInv
BY DEF DispatchInit, CoupledInv, Coupled, Phases, Ended, Init, Stages

USE DEF Phases, Ended, Stages, Gated, tierVars, loopVars

\* The end of a dispatch that is past the gate keeps the coupling.
LEMMA EndCoupled ==
  ASSUME CoupledInv, NEW r \in Requests, NEW outcome \in Ended,
         phase[r] \in {"ready", "calling", "sleeping"}, End(r, outcome),
         UNCHANGED <<tierVars, local>>
  PROVE  CoupledInv'
<1>1. CASE Gated(r)
  BY <1>1 DEF End, DropPermit, CoupledInv, Coupled
<1>2. CASE ~Gated(r)
  BY <1>2 DEF End, vars, CoupledInv, Coupled
<1>. QED  BY <1>1, <1>2

LEMMA CoupledStep == TypeOK /\ QueueConsistent /\ CoupledInv /\ [DispatchNext]_dispatchVars => CoupledInv'
<1> SUFFICES ASSUME TypeOK, QueueConsistent, CoupledInv, [DispatchNext]_dispatchVars
             PROVE  CoupledInv'
  OBVIOUS
<1>1. ASSUME NEW r \in Requests, Starts(r) PROVE CoupledInv'
  <2>1. CASE LookupFails(r)
    BY <2>1 DEF LookupFails, vars, CoupledInv, Coupled
  <2>2. CASE EnterGate(r)
    BY <2>2 DEF EnterGate, FireNow, Enqueue, CoupledInv, Coupled
  <2>3. CASE BypassGate(r)
    <3>1. phase[r] = "start" /\ pc[r] = "idle"
      BY <2>3 DEF BypassGate, CoupledInv, Coupled
    <3>2. hasGate => local' = [local EXCEPT ![r] = FALSE]
      BY <2>3 DEF BypassGate
    <3>. QED  BY <2>3, <3>1, <3>2 DEF BypassGate, vars, CoupledInv, Coupled
  <2>. QED  BY <1>1, <2>1, <2>2, <2>3 DEF Starts
<1>2. ASSUME NEW r \in Requests, LeaveQueue(r) PROVE CoupledInv'
  BY <1>2 DEF LeaveQueue, Resume, CoupledInv, Coupled
<1>3. ASSUME NEW r \in Requests, FirstCall(r) \/ Retry(r) PROVE CoupledInv'
  BY <1>3 DEF FirstCall, Retry, StartCall, vars, CoupledInv, Coupled
<1>4. ASSUME NEW r \in Requests, NEW kind \in ErrorKinds, CallFails(r, kind)
      PROVE  CoupledInv'
  BY <1>4 DEF CallFails, vars, CoupledInv, Coupled
<1>5. ASSUME NEW r \in Requests, NEW kind \in ErrorKinds,
             BuildFails(r) \/ CallSucceeds(r) \/ LastCallFails(r, kind)
             \/ TimeOut(r) \/ DisconnectInCall(r)
      PROVE  CoupledInv'
  <2>1. /\ phase[r] \in {"ready", "calling", "sleeping"} /\ UNCHANGED <<tierVars, local>>
        /\ \E outcome \in Ended : End(r, outcome)
    BY <1>5 DEF BuildFails, CallSucceeds, LastCallFails, TimeOut, DisconnectInCall
  <2>. QED  BY <2>1, EndCoupled
<1>6. ASSUME NEW r \in Requests, DisconnectInQueue(r) \/ DisconnectInHandOver(r)
      PROVE  CoupledInv'
  BY <1>6 DEF DisconnectInQueue, DisconnectInHandOver, DisconnectQueued,
              DisconnectGranted, CoupledInv, Coupled
<1>7. ASSUME NEW r \in Requests, ReleaseSlot(r) PROVE CoupledInv'
  <2>1. CASE ReleaseOnly(r)
    BY <1>7, <2>1 DEF ReleaseSlot, ReleaseOnly, ownVars, CoupledInv, Coupled
  <2>2. ASSUME NEW s \in Requests, ReleaseAndWake(r, s) PROVE CoupledInv'
    <3>1. pc[s] = "waiting"
      <4>1. IsFront(s, pending \ Reaped)
        BY <2>2 DEF ReleaseAndWake
      <4>. QED  BY <4>1, FrontIsLive
    <3>. QED
      BY <1>7, <2>2, <3>1 DEF ReleaseSlot, ReleaseAndWake, ownVars, CoupledInv, Coupled
  <2>. QED  BY <1>7, <2>1, <2>2 DEF ReleaseSlot, Release
<1>8. CASE Reload \/ UNCHANGED dispatchVars
  BY <1>8 DEF Reload, dispatchVars, vars, ownVars, CoupledInv, Coupled
<1>. QED
  BY <1>1, <1>2, <1>3, <1>4, <1>5, <1>6, <1>7, <1>8
  DEF DispatchNext, Served, Proceeds, BackendAnswers, Disconnects, ErrorKinds

LEMMA CoupledAlways == DispatchSpec => []CoupledInv
BY CoupledInit, CoupledStep, GateHolds, PTL DEF DispatchSpec

-----------------------------------------------------------------------------
\* A dispatch past the gate owns a permit exactly until its future ends: no
\* retry, error, timeout or disconnect drops it early or keeps it.
THEOREM PermitSpansTheLoop == DispatchSpec => []PermitSpansLoop
<1>1. CoupledInv => PermitSpansLoop
  BY DEF CoupledInv, Coupled, PermitSpansLoop
<1>. QED  BY <1>1, CoupledAlways, PTL

\* A local backend never works on two requests of one priority at a time.
THEOREM OneBackendCall == DispatchSpec => []OneCallPerPriority
<1>1. CoupledInv /\ OnePerPriority => OneCallPerPriority
  BY DEF CoupledInv, Coupled, OneCallPerPriority, OnePerPriority, Occupying
<1>. QED  BY <1>1, CoupledAlways, GateHolds, PTL

-----------------------------------------------------------------------------
\* The sleep due after the sleeps s.
NextSleep(s) == Least(IF s = <<>> THEN RetryDelay ELSE 2 * s[Len(s)], DelayCap)

\* What the retry loop of one request knows: how many calls and sleeps there
\* were, that they follow the schedule, and that delay is due for the next one.
Looping(r) ==
    /\ slept[r] \in Seq(Nat) /\ attempts[r] \in Nat /\ delay[r] \in Nat
    /\ \A k \in DOMAIN slept[r] :
          slept[r][k] = Least(IF k = 1 THEN RetryDelay ELSE 2 * slept[r][k - 1], DelayCap)
    /\ Least(delay[r], DelayCap) = NextSleep(slept[r])
    /\ phase[r] \in {"start", "queued", "ready"} => attempts[r] = 0 /\ slept[r] = <<>>
    /\ phase[r] = "calling" => Len(slept[r]) = attempts[r] - 1 /\ attempts[r] <= MaxRetries + 1
    /\ phase[r] = "sleeping" => Len(slept[r]) = attempts[r] /\ attempts[r] <= MaxRetries
    /\ phase[r] = "failed" /\ attempts[r] > 0 => attempts[r] = MaxRetries + 1

LoopInv ==
    /\ DOMAIN phase = Requests /\ DOMAIN attempts = Requests
    /\ DOMAIN delay = Requests /\ DOMAIN slept = Requests
    /\ \A r \in Requests : Looping(r)

\* Doubling, saturating and capping comes to doubling what was slept, capped.
LEMMA CappedDouble ==
  ASSUME NEW d \in Nat
  PROVE  Least(Least(2 * d, MaxDelay), DelayCap) = Least(2 * Least(d, DelayCap), DelayCap)
BY DispatchAssumption DEF Least

\* An appended sleep disturbs none of the earlier ones.
LEMMA Appended ==
  ASSUME NEW s \in Seq(Nat), NEW n \in Nat
  PROVE  /\ Len(s) \in Nat /\ DOMAIN s = 1 .. Len(s) /\ DOMAIN Append(s, n) = 1 .. Len(s) + 1
         /\ \A k \in 1 .. Len(s) : Append(s, n)[k] = s[k]
OBVIOUS

\* One more sleep keeps the schedule and makes the next one due.
LEMMA OneMoreSleep ==
  ASSUME NEW r \in Requests, Looping(r), LoopInv, NEW kind \in ErrorKinds, CallFails(r, kind)
  PROVE  Looping(r)'
<1> DEFINE d == delay[r]
           s == slept[r]
           t == slept'[r]
           nap == Least(d, DelayCap)
<1>1. /\ s \in Seq(Nat) /\ d \in Nat /\ nap \in Nat /\ nap = NextSleep(s)
      /\ attempts[r] \in Nat /\ attempts[r] <= MaxRetries /\ Len(s) = attempts[r] - 1
  BY DispatchAssumption DEF Looping, CallFails, Least
<1>2. /\ t = Append(s, nap) /\ delay'[r] = Least(2 * d, MaxDelay)
      /\ phase'[r] = "sleeping" /\ attempts'[r] = attempts[r]
  BY DEF CallFails, LoopInv
<1>3. t \in Seq(Nat) /\ Len(t) = Len(s) + 1 /\ t[Len(t)] = nap /\ t # <<>>
  BY <1>1, <1>2
<1>4. delay'[r] \in Nat
  BY <1>1, <1>2, DispatchAssumption DEF Least
<1>5. Least(delay'[r], DelayCap) = NextSleep(t)
  BY <1>1, <1>2, <1>3, CappedDouble DEF NextSleep
<1>6. ASSUME NEW k \in DOMAIN t
      PROVE  t[k] = Least(IF k = 1 THEN RetryDelay ELSE 2 * t[k - 1], DelayCap)
  <2>1. CASE k = Len(t) /\ s = <<>>
    <3>1. k = 1 /\ nap = Least(RetryDelay, DelayCap)
      BY <1>1, <1>3, <2>1 DEF NextSleep
    <3>. QED  BY <1>3, <2>1, <3>1
  <2>2. CASE k = Len(t) /\ s # <<>>
    <3>0. Len(s) \in Nat /\ Len(s) # 0
      BY <1>1, <2>2
    <3>1. k # 1 /\ k - 1 = Len(s) /\ t[k - 1] = s[Len(s)]
      BY <1>1, <1>2, <1>3, <2>2, <3>0
    <3>. QED  BY <1>1, <1>3, <2>2, <3>1 DEF NextSleep
  <2>3. CASE k # Len(t)
    <3>0. Len(s) \in Nat /\ DOMAIN t = 1 .. Len(s) + 1 /\ k \in 1 .. Len(s) /\ DOMAIN s = 1 .. Len(s)
      <4>1. /\ Len(s) \in Nat /\ DOMAIN s = 1 .. Len(s) /\ DOMAIN t = 1 .. Len(s) + 1
            /\ Len(t) = Len(s) + 1
        BY <1>1, <1>2, <1>3, Appended
      <4>. QED  BY <1>6, <2>3, <4>1
    <3>1. k \in DOMAIN s /\ t[k] = s[k] /\ (k # 1 => t[k - 1] = s[k - 1])
      <4>1. \A i \in 1 .. Len(s) : t[i] = s[i]
        BY <1>1, <1>2, Appended
      <4>2. k # 1 => k - 1 \in 1 .. Len(s)
        BY <3>0
      <4>. QED  BY <3>0, <4>1, <4>2
    <3>. QED  BY <3>1 DEF Looping
  <2>. QED  BY <2>1, <2>2, <2>3
<1>7. Len(t) = attempts'[r] /\ attempts'[r] \in Nat /\ attempts'[r] <= MaxRetries
  BY <1>1, <1>2, <1>3
<1>. QED  BY <1>2, <1>3, <1>4, <1>5, <1>6, <1>7 DEF Looping

\* A step that moves the phase of one request and leaves the loop alone.
LEMMA PhaseMoves ==
  ASSUME LoopInv, NEW r \in Requests, DOMAIN phase' = Requests,
         attempts' = attempts, delay' = delay, slept' = slept,
         \A q \in Requests : q # r => phase'[q] = phase[q],
         \/ phase[r] \in {"start", "queued"} /\ phase'[r] \in {"queued", "ready"}
         \/ /\ phase'[r] \in Ended
            /\ phase'[r] = "failed" /\ attempts[r] > 0 => attempts[r] = MaxRetries + 1
  PROVE  LoopInv'
<1>1. Looping(r)
  BY DEF LoopInv
<1>2. Looping(r)'
  <2>1. Least(delay[r], DelayCap)' = NextSleep(slept[r])'
    BY <1>1 DEF Looping
  <2>. QED  BY <1>1, <2>1 DEF Looping
<1>3. ASSUME NEW q \in Requests, q # r PROVE Looping(q)'
  <2>1. Looping(q) /\ phase'[q] = phase[q]
    BY <1>3 DEF LoopInv
  <2>2. Least(delay[q], DelayCap)' = NextSleep(slept[q])'
    BY <2>1 DEF Looping
  <2>. QED  BY <2>1, <2>2 DEF Looping
<1>. QED  BY <1>2, <1>3 DEF LoopInv

LEMMA LoopStep == LoopInv /\ [DispatchNext]_dispatchVars => LoopInv'
<1> SUFFICES ASSUME LoopInv, [DispatchNext]_dispatchVars PROVE LoopInv'
  OBVIOUS
<1> USE DispatchAssumption
<1>1. ASSUME NEW r \in Requests, Starts(r) \/ LeaveQueue(r) PROVE LoopInv'
  <2>1. /\ attempts' = attempts /\ delay' = delay /\ slept' = slept
        /\ phase[r] \in {"start", "queued"} /\ DOMAIN phase' = Requests
        /\ phase'[r] \in {"queued", "ready", "failed"}
        /\ \A q \in Requests : q # r => phase'[q] = phase[q]
    BY <1>1 DEF Starts, LookupFails, EnterGate, BypassGate, LeaveQueue, LoopInv
  <2>2. attempts[r] = 0
    BY <2>1 DEF LoopInv, Looping
  <2>. QED  BY <2>1, <2>2, PhaseMoves
<1>2. ASSUME NEW r \in Requests, FirstCall(r) \/ Retry(r) PROVE LoopInv'
  <2>1. /\ delay' = delay /\ slept' = slept /\ phase[r] \in {"ready", "sleeping"}
        /\ DOMAIN phase' = Requests /\ DOMAIN attempts' = Requests
        /\ phase'[r] = "calling" /\ attempts'[r] = attempts[r] + 1
        /\ \A q \in Requests : q # r => phase'[q] = phase[q] /\ attempts'[q] = attempts[q]
    BY <1>2 DEF FirstCall, Retry, StartCall, LoopInv
  <2>2. ASSUME NEW q \in Requests, q # r PROVE Looping(q)'
    <3>1. Looping(q) /\ phase'[q] = phase[q] /\ attempts'[q] = attempts[q]
      BY <2>1, <2>2 DEF LoopInv
    <3>2. Least(delay[q], DelayCap)' = NextSleep(slept[q])'
      BY <2>1, <3>1 DEF Looping
    <3>. QED  BY <2>1, <3>1, <3>2 DEF Looping
  <2>3. Looping(r)'
    <3>1. Looping(r) /\ Len(<<>>) = 0
      BY DEF LoopInv
    <3>2. Least(delay[r], DelayCap)' = NextSleep(slept[r])'
      BY <2>1, <3>1 DEF Looping
    <3>. QED  BY <2>1, <3>1, <3>2 DEF Looping
  <2>. QED  BY <2>1, <2>2, <2>3 DEF LoopInv
<1>3. ASSUME NEW r \in Requests, NEW kind \in ErrorKinds, CallFails(r, kind) PROVE LoopInv'
  <2>1. Looping(r)'
    BY <1>3, OneMoreSleep DEF LoopInv
  <2>2. ASSUME NEW q \in Requests, q # r PROVE Looping(q)'
    BY <1>3, <2>2 DEF CallFails, LoopInv, Looping
  <2>. QED  BY <1>3, <2>1, <2>2 DEF CallFails, LoopInv
<1>4. ASSUME NEW r \in Requests, NEW kind \in ErrorKinds,
             BuildFails(r) \/ CallSucceeds(r) \/ LastCallFails(r, kind)
             \/ TimeOut(r) \/ DisconnectInCall(r)
      PROVE  LoopInv'
  <2>1. /\ attempts' = attempts /\ delay' = delay /\ slept' = slept /\ DOMAIN phase' = Requests
        /\ phase'[r] \in Ended /\ \A q \in Requests : q # r => phase'[q] = phase[q]
        /\ phase'[r] = "failed" => phase[r] = "ready" \/ (phase[r] = "calling" /\ attempts[r] > MaxRetries)
    BY <1>4 DEF BuildFails, CallSucceeds, LastCallFails, TimeOut, DisconnectInCall, End, LoopInv
  <2>2. phase'[r] = "failed" /\ attempts[r] > 0 => attempts[r] = MaxRetries + 1
    BY <2>1 DEF LoopInv, Looping
  <2>. QED  BY <2>1, <2>2, PhaseMoves
<1>5. ASSUME NEW r \in Requests, DisconnectInQueue(r) \/ DisconnectInHandOver(r) PROVE LoopInv'
  <2>1. /\ attempts' = attempts /\ delay' = delay /\ slept' = slept /\ DOMAIN phase' = Requests
        /\ phase'[r] = "gone" /\ \A q \in Requests : q # r => phase'[q] = phase[q]
    BY <1>5 DEF DisconnectInQueue, DisconnectInHandOver, LoopInv
  <2>. QED  BY <2>1, PhaseMoves
<1>6. CASE UNCHANGED <<phase, attempts, delay, slept>>
  BY <1>6 DEF LoopInv, Looping
<1>7. CASE Reload \/ UNCHANGED ownVars
  BY <1>6, <1>7 DEF Reload, ownVars
<1>8. ASSUME NEW r \in Requests, Served(r) \/ DisconnectInHandOver(r) PROVE LoopInv'
  BY <1>1, <1>2, <1>3, <1>4, <1>5, <1>7, <1>8
  DEF Served, Proceeds, BackendAnswers, Disconnects, ErrorKinds, ReleaseSlot
<1>. QED  BY <1>7, <1>8 DEF DispatchNext, dispatchVars

LEMMA LoopAlways == DispatchSpec => []LoopInv
<1>1. DispatchInit => LoopInv
  BY DispatchAssumption DEF DispatchInit, LoopInv, Looping, NextSleep, Least
<1>. QED  BY <1>1, LoopStep, PTL DEF DispatchSpec

-----------------------------------------------------------------------------
LoopTypes ==
    /\ provider \in Providers
    /\ attempts \in [Requests -> 0 .. MaxRetries + 1]
    /\ delay \in [Requests -> Nat]
    /\ slept \in [Requests -> Seq(Nat)]
    /\ errors \in [Requests -> SUBSET ErrorKinds]
    /\ \A r \in Requests : errors[r] # {} => attempts[r] > 0

LEMMA LoopTypesStep == LoopInv /\ LoopTypes /\ [DispatchNext]_dispatchVars => LoopTypes'
<1> SUFFICES ASSUME LoopInv, LoopTypes, [DispatchNext]_dispatchVars PROVE LoopTypes'
  OBVIOUS
<1>0. \A r \in Requests : phase[r] = "calling" => attempts[r] > 0
  <2> SUFFICES ASSUME NEW r \in Requests, phase[r] = "calling" PROVE attempts[r] > 0
    OBVIOUS
  <2>1. slept[r] \in Seq(Nat) /\ attempts[r] \in Nat /\ Len(slept[r]) = attempts[r] - 1
    BY DEF LoopInv, Looping
  <2>. QED  BY <2>1
<1>1. ASSUME NEW r \in Requests, FirstCall(r) \/ Retry(r) PROVE LoopTypes'
  <2>1. attempts[r] + 1 \in 0 .. MaxRetries + 1
    <3>1. attempts[r] \in Nat /\ attempts[r] <= MaxRetries
      BY <1>1, DispatchAssumption DEF LoopInv, Looping, FirstCall, Retry
    <3>. QED  BY <3>1, DispatchAssumption
  <2>2. /\ attempts' = [attempts EXCEPT ![r] = @ + 1]
        /\ UNCHANGED <<provider, delay, slept, errors>>
    BY <1>1 DEF FirstCall, Retry, StartCall
  <2>3. attempts[r] \in Nat
    BY DEF LoopTypes
  <2>. QED  BY <2>1, <2>2, <2>3 DEF LoopTypes
<1>2. ASSUME NEW r \in Requests, NEW kind \in ErrorKinds, CallFails(r, kind) PROVE LoopTypes'
  <2>1. Least(delay[r], DelayCap) \in Nat /\ Least(2 * delay[r], MaxDelay) \in Nat
    BY DispatchAssumption DEF LoopTypes, Least
  <2>2. Append(slept[r], Least(delay[r], DelayCap)) \in Seq(Nat)
    BY <2>1 DEF LoopTypes
  <2>. QED  BY <1>0, <1>2, <2>1, <2>2 DEF CallFails, LoopTypes
<1>3. ASSUME NEW r \in Requests, NEW kind \in ErrorKinds, LastCallFails(r, kind) PROVE LoopTypes'
  BY <1>0, <1>3 DEF LastCallFails, LoopTypes
<1>4. CASE UNCHANGED <<provider, attempts, delay, slept, errors>>
  BY <1>4 DEF LoopTypes
<1>5. CASE Reload
  BY <1>5 DEF Reload, LoopTypes
<1>. QED
  BY <1>1, <1>2, <1>3, <1>4, <1>5
  DEF DispatchNext, Served, Starts, LookupFails, EnterGate, BypassGate, Proceeds, LeaveQueue, BuildFails,
      BackendAnswers, CallSucceeds, Disconnects, DisconnectInQueue, DisconnectInCall, TimeOut,
      DisconnectInHandOver, ReleaseSlot, ownVars, dispatchVars, vars

LEMMA LoopTypesAlways == DispatchSpec => []LoopTypes
<1>1. DispatchInit => LoopTypes
  BY DispatchAssumption DEF DispatchInit, LoopTypes, Providers
<1>. QED
  BY <1>1, LoopAlways, LoopTypesStep, PTL DEF DispatchSpec

\* For every retry count and every delay, the sleeps double up to the cap and
\* never shrink when the doubling saturates, one between any two calls, and a
\* dispatch whose errors were all transient gives up only after its last call.
THEOREM BackoffDoubles == DispatchSpec => []BackoffSchedule
<1>1. LoopInv /\ LoopTypes => BackoffSchedule
  BY DEF LoopInv, Looping, LoopTypes, BackoffSchedule
<1>. QED  BY <1>1, LoopAlways, LoopTypesAlways, PTL

\* For any requests and retry settings a dispatch keeps its types, makes no more
\* than MaxRetries + 1 calls, and its gate keeps the gate's.
THEOREM DispatchTypeCorrect == DispatchSpec => []DispatchTypeOK
<1>1. CoupledInv /\ LoopTypes /\ TypeOK => DispatchTypeOK
  BY DEF CoupledInv, LoopTypes, DispatchTypeOK
<1>. QED
  BY <1>1, LoopTypesAlways, CoupledAlways, GateHolds, PTL

-----------------------------------------------------------------------------
(* Why a dispatch comes to its end: it has a bounded number of steps, and   *)
(* whom it waits for is never itself waiting.                               *)

\* Who is queued is behind someone at least as urgent whose slot is about to be
\* freed, or lost with its client, or who has it and is past the queue or about
\* to be.
NoWaitBehindWaiter ==
    \A r \in Requests : pc[r] = "waiting" =>
        \E s \in Requests \ {r} :
            /\ prio[s] >= prio[r]
            /\ \/ pc[s] \in {"releasing", "ghost"}
               \/ pc[s] = "granted" /\ phase[s] = "queued"
               \/ pc[s] = "holding" /\ phase[s] \in {"ready", "calling", "sleeping"}

\* However many dispatches share a gate, no two can wait for each other: behind
\* a waiter there is always one that holds the slot and does not wait for it.
THEOREM NobodyWaitsForAWaiter == DispatchSpec => []NoWaitBehindWaiter
<1>1. GateInv /\ CoupledInv => NoWaitBehindWaiter
  <2> SUFFICES ASSUME GateInv, CoupledInv, NEW r \in Requests, pc[r] = "waiting"
               PROVE  \E s \in Requests \ {r} :
                         /\ prio[s] >= prio[r]
                         /\ \/ pc[s] \in {"releasing", "ghost"}
                            \/ pc[s] = "granted" /\ phase[s] = "queued"
                            \/ pc[s] = "holding" /\ phase[s] \in {"ready", "calling", "sleeping"}
    BY DEF NoWaitBehindWaiter
  <2>1. ~CanFire(inFlight, prio[r])
    BY DEF GateInv, QueueConsistent, WaitersBlocked
  <2>2. PICK q \in Priorities : inFlight[q] > 0 /\ ~(prio[r] > q)
    BY <2>1 DEF CanFire
  <2>3. PICK s \in Requests : pc[s] \in Occupying /\ prio[s] = q
    BY <2>2 DEF GateInv, SlotsAccounted
  <2>4. s # r /\ prio[s] >= prio[r]
    <3>1. prio[r] \in Int /\ prio[s] \in Int
      BY PriorityAssumption DEF GateInv, TypeOK, Priorities
    <3>. QED  BY <2>2, <2>3, <3>1 DEF Occupying
  <2>5. pc[s] = "granted" => phase[s] = "queued"
    BY DEF CoupledInv, Coupled
  <2>6. pc[s] = "holding" => phase[s] \in {"ready", "calling", "sleeping"}
    BY DEF CoupledInv, Coupled
  <2>. QED  BY <2>3, <2>4, <2>5, <2>6 DEF Occupying
<1>2. DispatchSpec => []GateInv
  BY GateInvariant, DispatchUsesGate, PTL
<1>. QED  BY <1>1, <1>2, CoupledAlways, PTL

\* At most so many steps of r are left: a call and a sleep for every round.
StepsLeft(r) ==
    CASE phase[r] = "start"    -> 2 * MaxRetries + 5
      [] phase[r] = "queued"   -> 2 * MaxRetries + 4
      [] phase[r] = "ready"    -> 2 * MaxRetries + 3
      [] phase[r] = "calling"  -> 2 * (MaxRetries + 1 - attempts[r]) + 2
      [] phase[r] = "sleeping" -> 2 * (MaxRetries + 1 - attempts[r]) + 1
      [] phase[r] \in Ended    -> 0

Moves(r) == \/ Starts(r) \/ Proceeds(r) \/ BackendAnswers(r) \/ TimeOut(r)
            \/ Disconnects(r) \/ DisconnectInHandOver(r)

\* What the retry loop knows bounds what is left.
LEMMA StepsLeftIsNat ==
  ASSUME LoopInv, CoupledInv, NEW r \in Requests
  PROVE  StepsLeft(r) \in Nat
<1>1. Looping(r) /\ phase[r] \in Phases /\ MaxRetries \in Nat
  BY DispatchAssumption DEF LoopInv, CoupledInv
<1>2. CASE phase[r] \in {"start", "queued", "ready"}
  BY <1>1, <1>2 DEF StepsLeft
<1>3. CASE phase[r] \in {"calling", "sleeping"}
  <2>1. MaxRetries + 1 - attempts[r] \in Nat
    BY <1>1, <1>3 DEF Looping
  <2>. QED  BY <1>3, <2>1 DEF StepsLeft
<1>4. CASE phase[r] \in Ended
  BY <1>4 DEF StepsLeft
<1>. QED  BY <1>1, <1>2, <1>3, <1>4

\* A dispatch takes at most StepsLeft steps, whatever the backend answers and
\* whoever leaves: each of its own brings it down and no step of another, or of
\* a release task, changes it.
THEOREM DispatchIsBounded ==
    DispatchSpec =>
        /\ [](\A r \in Requests : StepsLeft(r) \in Nat)
        /\ [][\A r \in Requests : /\ Moves(r) => StepsLeft(r)' < StepsLeft(r)
                                  /\ ~Moves(r) => StepsLeft(r)' = StepsLeft(r)]_dispatchVars
<1>1. LoopInv /\ CoupledInv => \A r \in Requests : StepsLeft(r) \in Nat
  BY StepsLeftIsNat
<1>2. LoopInv /\ CoupledInv /\ [DispatchNext]_dispatchVars
      => [\A r \in Requests : /\ Moves(r) => StepsLeft(r)' < StepsLeft(r)
                              /\ ~Moves(r) => StepsLeft(r)' = StepsLeft(r)]_dispatchVars
  <2> SUFFICES ASSUME LoopInv, CoupledInv, DispatchNext, NEW r \in Requests
               PROVE  /\ Moves(r) => StepsLeft(r)' < StepsLeft(r)
                      /\ ~Moves(r) => StepsLeft(r)' = StepsLeft(r)
    OBVIOUS
  <2>0. /\ MaxRetries \in Nat /\ attempts[r] \in Nat
        /\ DOMAIN attempts = Requests /\ DOMAIN phase = Requests /\ phase[r] \in Phases
        /\ phase[r] \in {"start", "queued", "ready"} => attempts[r] = 0
        /\ phase[r] = "calling" => attempts[r] <= MaxRetries + 1
        /\ phase[r] = "sleeping" => attempts[r] <= MaxRetries
    BY DispatchAssumption DEF LoopInv, Looping, CoupledInv
  <2>1. ASSUME phase[r] \notin Ended, phase'[r] \in Ended
        PROVE  StepsLeft(r)' < StepsLeft(r)
    <3>1. StepsLeft(r)' = 0
      BY <2>1 DEF StepsLeft
    <3>2. StepsLeft(r) > 0
      BY <2>0, <2>1 DEF StepsLeft
    <3>. QED  BY <3>1, <3>2
  <2>2. ASSUME Starts(r)
        PROVE  StepsLeft(r)' < StepsLeft(r)
    <3>1. phase[r] = "start" /\ phase'[r] \in {"queued", "ready"} \union Ended
      BY <2>0, <2>2 DEF Starts, LookupFails, EnterGate, BypassGate
    <3>. QED  BY <2>0, <2>1, <3>1 DEF StepsLeft
  <2>3. ASSUME LeaveQueue(r)
        PROVE  StepsLeft(r)' < StepsLeft(r)
    <3>1. phase[r] = "queued" /\ phase'[r] = "ready"
      BY <2>0, <2>3 DEF LeaveQueue
    <3>. QED  BY <2>0, <3>1 DEF StepsLeft
  <2>4. ASSUME FirstCall(r) \/ Retry(r)
        PROVE  StepsLeft(r)' < StepsLeft(r)
    <3>1. /\ phase[r] \in {"ready", "sleeping"} /\ phase'[r] = "calling"
          /\ attempts'[r] = attempts[r] + 1
      BY <2>0, <2>4 DEF FirstCall, Retry, StartCall
    <3>. QED  BY <2>0, <3>1 DEF StepsLeft
  <2>5. ASSUME NEW kind \in ErrorKinds, CallFails(r, kind)
        PROVE  StepsLeft(r)' < StepsLeft(r)
    <3>1. phase[r] = "calling" /\ phase'[r] = "sleeping" /\ attempts'[r] = attempts[r]
      BY <2>0, <2>5 DEF CallFails
    <3>. QED  BY <2>0, <3>1 DEF StepsLeft
  <2>6. ASSUME NEW kind \in ErrorKinds,
               BuildFails(r) \/ CallSucceeds(r) \/ LastCallFails(r, kind) \/ TimeOut(r)
               \/ Disconnects(r) \/ DisconnectInHandOver(r)
        PROVE  StepsLeft(r)' < StepsLeft(r)
    <3>1. phase[r] \notin Ended /\ phase'[r] \in Ended
      BY <2>0, <2>6
      DEF BuildFails, CallSucceeds, LastCallFails, TimeOut, Disconnects, DisconnectInQueue,
          DisconnectInCall, DisconnectInHandOver, End
    <3>. QED  BY <2>1, <3>1
  <2>7. ASSUME ~Moves(r)
        PROVE  StepsLeft(r)' = StepsLeft(r)
    <3>1. Reload \/ \E q \in Requests : Moves(q) \/ ReleaseSlot(q)
      BY DEF DispatchNext, Served, Moves
    <3>0. ASSUME Reload
          PROVE  UNCHANGED <<phase, attempts>>
      BY <3>0 DEF Reload
    <3>2. ASSUME NEW q \in Requests, Moves(q)
          PROVE  phase'[r] = phase[r] /\ attempts'[r] = attempts[r]
      <4>1. q # r
        BY <2>7, <3>2
      <4>. QED
        BY <2>0, <3>2, <4>1
        DEF Moves, Starts, LookupFails, EnterGate, BypassGate, Proceeds, LeaveQueue, BuildFails,
            FirstCall, Retry, StartCall, BackendAnswers, CallSucceeds, CallFails, LastCallFails,
            TimeOut, Disconnects, DisconnectInQueue, DisconnectInCall, DisconnectInHandOver, End
    <3>3. ASSUME NEW q \in Requests, ReleaseSlot(q)
          PROVE  UNCHANGED <<phase, attempts>>
      BY <3>3 DEF ReleaseSlot, ownVars
    <3>. QED  BY <3>0, <3>1, <3>2, <3>3 DEF StepsLeft
  <2>. QED
    BY <2>2, <2>3, <2>4, <2>5, <2>6, <2>7 DEF Moves, Proceeds, BackendAnswers, ErrorKinds
<1>. QED  BY <1>1, <1>2, LoopAlways, CoupledAlways, PTL DEF DispatchSpec
=============================================================================
