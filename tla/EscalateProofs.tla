---------------------------- MODULE EscalateProofs ----------------------------
(***************************************************************************)
(* Proofs about Escalate for every set of requests, every ladder, every    *)
(* choice of gated tiers and every pattern of outages.                     *)
(***************************************************************************)
EXTENDS Escalate, WellFoundedInduction, TLAPS

-----------------------------------------------------------------------------
(* Types.  That at stays on the ladder needs that a request in a gate or   *)
(* in a call stands on a rung.                                             *)

OnRung == \A r \in Requests : phase[r] \in {"queued", "calling"} => at[r] \in Tiers

TypeInv == TypeOK /\ OnRung

\* Setting one entry of a table of tables keeps its type.
LEMMA Update ==
    ASSUME NEW D, NEW E, NEW S, NEW f \in [D -> [E -> S]], NEW d \in D, NEW e \in E, NEW x \in S
    PROVE  [f EXCEPT ![d][e] = x] \in [D -> [E -> S]]
OBVIOUS

\* Dropping a permit keeps the type of place.
LEMMA DropType ==
    ASSUME TypeInv, NEW r \in Requests, DropPermit(r)
    PROVE  place' \in [Tiers -> [Requests -> Places]]
<1>1. "leaving" \in Places
  BY DEF Places
<1>2. CASE at[r] \in Gated
  <2>1. at[r] \in Tiers
    BY <1>2, EscalateAssumption DEF Tiers
  <2>. QED  BY <1>1, <1>2, <2>1, Update DEF TypeInv, TypeOK, DropPermit
<1>3. CASE at[r] \notin Gated
  BY <1>3 DEF TypeInv, TypeOK, DropPermit
<1>. QED  BY <1>2, <1>3

\* Starting a call of a tier of the ladder keeps the types.
LEMMA CallsType ==
    ASSUME TypeInv, NEW r \in Requests, at[r] \in Tiers, Calls(r)
    PROVE  phase' \in [Requests -> Phases] /\ tried' \in [Requests -> Seq(Tiers)]
<1>1. Append(tried[r], at[r]) \in Seq(Tiers)
  BY DEF TypeInv, TypeOK
<1>2. "calling" \in Phases
  BY DEF Phases
<1>. QED  BY <1>1, <1>2 DEF TypeInv, TypeOK, Calls

\* Going on to the next tier keeps the types.
LEMMA ClimbType ==
    ASSUME TypeInv, NEW r \in Requests, at[r] \in Tiers, at' = [at EXCEPT ![r] = @ + 1]
    PROVE  at' \in [Requests -> 1 .. Top + 1]
<1>1. at[r] + 1 \in 1 .. Top + 1
  BY EscalateAssumption DEF Tiers
<1>. QED  BY <1>1 DEF TypeInv, TypeOK

\* One step of any request or release task keeps the types.
LEMMA TypeStep == TypeInv /\ [Next]_vars => TypeInv'
<1> SUFFICES ASSUME TypeInv, [Next]_vars
             PROVE  TypeOK' /\ OnRung'
  BY DEF TypeInv
<1>. USE DEF TypeInv, TypeOK
<1>0. /\ {"waiting", "active", "gone", "ghost"} \subseteq Places
      /\ {"walking", "queued", "answered", "exhausted", "left"} \subseteq Phases
  BY DEF Places, Phases, Ended
<1>1. ASSUME NEW r \in Requests, SkipTier(r)
      PROVE  TypeOK' /\ OnRung'
  <2>1. at' \in [Requests -> 1 .. Top + 1]
    BY <1>1, ClimbType DEF SkipTier
  <2>2. OnRung'
    BY <1>1 DEF SkipTier, OnRung
  <2>. QED  BY <1>1, <2>1, <2>2 DEF SkipTier, gateVars
<1>2. ASSUME NEW r \in Requests, Exhaust(r)
      PROVE  TypeOK' /\ OnRung'
  BY <1>0, <1>2 DEF Exhaust, OnRung, gateVars
<1>3. ASSUME NEW r \in Requests, at[r] \in Tiers, Calls(r), UNCHANGED at
      PROVE  OnRung'
  BY <1>3 DEF Calls, OnRung
<1>4. ASSUME NEW r \in Requests, BypassGate(r)
      PROVE  TypeOK' /\ OnRung'
  BY <1>3, <1>4, CallsType DEF BypassGate, Reaches, gateVars
<1>5. ASSUME NEW r \in Requests, EnterGate(r)
      PROVE  TypeOK' /\ OnRung'
  <2>1. at[r] \in Tiers
    BY <1>5 DEF EnterGate, Reaches
  <2>2. place' \in [Tiers -> [Requests -> Places]]
    BY <1>0, <1>5, <2>1, Update DEF EnterGate
  <2>. QED  BY <1>3, <1>5, <2>1, <2>2, CallsType DEF EnterGate
<1>6. ASSUME NEW r \in Requests, WaitAtGate(r)
      PROVE  TypeOK' /\ OnRung'
  <2>1. at[r] \in Tiers
    BY <1>6 DEF WaitAtGate, Reaches
  <2>2. place' \in [Tiers -> [Requests -> Places]]
    BY <1>0, <1>6, <2>1, Update DEF WaitAtGate
  <2>3. arrival' \in [Tiers -> [Requests -> Nat]] /\ clock' \in [Tiers -> Nat]
    BY <1>6, <2>1, Update DEF WaitAtGate
  <2>4. phase' \in [Requests -> Phases]
    BY <1>0, <1>6 DEF WaitAtGate
  <2>5. OnRung'
    BY <1>6, <2>1 DEF WaitAtGate, OnRung
  <2>. QED  BY <1>6, <2>2, <2>3, <2>4, <2>5 DEF WaitAtGate
<1>7. ASSUME NEW r \in Requests, Resume(r)
      PROVE  TypeOK' /\ OnRung'
  <2>1. at[r] \in Tiers
    BY <1>7 DEF Resume, OnRung
  <2>. QED  BY <1>3, <1>7, <2>1, CallsType DEF Resume, gateVars
<1>8. ASSUME NEW r \in Requests, Answered(r)
      PROVE  TypeOK' /\ OnRung'
  <2>1. OnRung'
    BY <1>8 DEF Answered, OnRung
  <2>. QED  BY <1>0, <1>8, <2>1, DropType DEF Answered
<1>9. ASSUME NEW r \in Requests, Escalates(r)
      PROVE  TypeOK' /\ OnRung'
  <2>1. at' \in [Requests -> 1 .. Top + 1]
    BY <1>9, ClimbType DEF Escalates, OnRung
  <2>2. OnRung'
    BY <1>9 DEF Escalates, OnRung
  <2>. QED  BY <1>0, <1>9, <2>1, <2>2, DropType DEF Escalates
<1>10. ASSUME NEW r \in Requests, LeavesQueue(r)
       PROVE  TypeOK' /\ OnRung'
  <2>1. at[r] \in Tiers
    BY <1>10 DEF LeavesQueue, OnRung
  <2>2. place' \in [Tiers -> [Requests -> Places]]
    BY <1>0, <1>10, <2>1, Update DEF LeavesQueue
  <2>3. OnRung'
    BY <1>10 DEF LeavesQueue, OnRung
  <2>. QED  BY <1>0, <1>10, <2>2, <2>3 DEF LeavesQueue
<1>11. ASSUME NEW r \in Requests, LeavesInHandOver(r)
       PROVE  TypeOK' /\ OnRung'
  <2>1. at[r] \in Tiers
    BY <1>11 DEF LeavesInHandOver, OnRung
  <2>2. place' \in [Tiers -> [Requests -> Places]]
    BY <1>0, <1>11, <2>1, Update DEF LeavesInHandOver
  <2>3. OnRung'
    BY <1>11 DEF LeavesInHandOver, OnRung
  <2>. QED  BY <1>0, <1>11, <2>2, <2>3 DEF LeavesInHandOver
<1>12. ASSUME NEW r \in Requests, LeavesCall(r)
       PROVE  TypeOK' /\ OnRung'
  <2>1. OnRung'
    BY <1>12 DEF LeavesCall, OnRung
  <2>. QED  BY <1>0, <1>12, <2>1, DropType DEF LeavesCall
<1>13. ASSUME NEW r \in Requests, NEW t \in Gated, Release(t, r)
       PROVE  TypeOK' /\ OnRung'
  <2>1. t \in Tiers
    BY EscalateAssumption DEF Tiers
  <2>2. [place EXCEPT ![t][r] = "gone"] \in [Tiers -> [Requests -> Places]]
    BY <1>0, <2>1, Update
  <2>3. ASSUME NEW s \in Requests
        PROVE  [place EXCEPT ![t][r] = "gone", ![t][s] = "active"]
                 \in [Tiers -> [Requests -> Places]]
    <3>. DEFINE freed == [place EXCEPT ![t][r] = "gone"]
    <3>1. [place EXCEPT ![t][r] = "gone", ![t][s] = "active"] = [freed EXCEPT ![t][s] = "active"]
      OBVIOUS
    <3>2. freed \in [Tiers -> [Requests -> Places]]
      BY <2>2
    <3>. HIDE DEF freed
    <3>3. [freed EXCEPT ![t][s] = "active"] \in [Tiers -> [Requests -> Places]]
      BY <1>0, <2>1, <3>2, Update
    <3>. QED  BY <3>1, <3>3
  <2>4. place' \in [Tiers -> [Requests -> Places]]
    <3>1. \/ place' = [place EXCEPT ![t][r] = "gone"]
          \/ \E s \in Requests : place' = [place EXCEPT ![t][r] = "gone", ![t][s] = "active"]
      BY ONLY <1>13 DEF Release
    <3>2. ASSUME NEW s \in Requests,
                 place' = [place EXCEPT ![t][r] = "gone", ![t][s] = "active"]
          PROVE  place' \in [Tiers -> [Requests -> Places]]
      BY ONLY <2>3, <3>2, Zenon
    <3>. QED  BY ONLY <2>2, <3>1, <3>2, Zenon
  <2>. QED  BY <1>13, <2>4 DEF Release, OnRung
<1>14. CASE UNCHANGED vars
  BY <1>14 DEF vars, OnRung
<1>. QED
  BY <1>1, <1>2, <1>4, <1>5, <1>6, <1>7, <1>8, <1>9, <1>10, <1>11, <1>12, <1>13, <1>14
  DEF Next, Walks, CallEnds, Leaves

\* The initial state has the types.
LEMMA TypeInit == Init => TypeInv
BY EscalateAssumption DEF Init, TypeInv, TypeOK, OnRung, Phases, Places, Tiers

\* Whatever the requests do the walk stays on the ladder, and only tiers of the
\* ladder are ever called.
THEOREM TypeCorrect == Spec => []TypeOK
<1>1. TypeInv => TypeOK
  BY DEF TypeInv
<1>. QED  BY <1>1, TypeInit, TypeStep, PTL DEF Spec

-----------------------------------------------------------------------------
(* Where a request stands.  It is in no gate but that of its tier, it is a *)
(* newcomer to every gate it has not reached, and to every tier without a  *)
(* gate for ever; in a call to a gated tier it holds that tier's permit.   *)

Stands(t, p, a, h) ==
    /\ p \in {"waiting", "active"} => t = a /\ h \in {"queued", "calling"}
    /\ t \notin Gated \/ t > a \/ (t = a /\ h \in {"walking", "exhausted"}) => p = "new"
    /\ t = a /\ h = "queued" => p \in {"waiting", "active"}
    /\ t = a /\ h = "calling" /\ t \in Gated => p = "active"

Standing == \A t \in Tiers, r \in Requests : Stands(t, place[t][r], at[r], phase[r])

LadderInv == TypeInv /\ Standing

\* A dropped permit moves its request out of its place, and nobody else.
LEMMA Dropped ==
    ASSUME TypeInv, NEW r \in Requests, DropPermit(r)
    PROVE  \A u \in Tiers, q \in Requests :
              place'[u][q] = IF u = at[r] /\ q = r /\ u \in Gated THEN "leaving" ELSE place[u][q]
<1>1. CASE at[r] \in Gated
  <2>1. at[r] \in Tiers /\ place' = [place EXCEPT ![at[r]][r] = "leaving"]
    BY <1>1, EscalateAssumption DEF Tiers, DropPermit
  <2>. QED  BY <1>1, <2>1 DEF TypeInv, TypeOK
<1>2. CASE at[r] \notin Gated
  BY <1>2 DEF DropPermit
<1>. QED  BY <1>1, <1>2

\* A release frees the slot of r and hands it to a waiter, or to nobody.
LEMMA Released ==
    ASSUME TypeInv, NEW t \in Gated, NEW r \in Requests, Release(t, r)
    PROVE  \/ \E s \in Requests \ {r} :
                 /\ place[t][s] = "waiting"
                 /\ Service(t)!First(s) /\ Service(t)!OutranksActive(s, r)
                 /\ \A u \in Tiers, q \in Requests :
                      place'[u][q] = IF u = t /\ q = r THEN "gone"
                                     ELSE IF u = t /\ q = s THEN "active" ELSE place[u][q]
           \/ /\ \A s \in Requests : Service(t)!First(s) => ~Service(t)!OutranksActive(s, r)
              /\ \A u \in Tiers, q \in Requests :
                   place'[u][q] = IF u = t /\ q = r THEN "gone" ELSE place[u][q]
<1>1. t \in Tiers
  BY EscalateAssumption DEF Tiers
<1>2. ASSUME NEW s \in Requests, Service(t)!First(s), Service(t)!OutranksActive(s, r),
             place' = [place EXCEPT ![t][r] = "gone", ![t][s] = "active"]
      PROVE  /\ place[t][s] = "waiting"
             /\ s \in Requests \ {r}
             /\ \A u \in Tiers, q \in Requests :
                   place'[u][q] = IF u = t /\ q = r THEN "gone"
                                  ELSE IF u = t /\ q = s THEN "active" ELSE place[u][q]
  <2>1. place[t][s] = "waiting"
    BY <1>2 DEF Service!First, Seen
  <2>2. s # r
    BY <2>1 DEF Release
  <2>. QED  BY <1>1, <1>2, <2>1, <2>2 DEF TypeInv, TypeOK
<1>3. ASSUME place' = [place EXCEPT ![t][r] = "gone"]
      PROVE  \A u \in Tiers, q \in Requests :
                place'[u][q] = IF u = t /\ q = r THEN "gone" ELSE place[u][q]
  BY <1>1, <1>3 DEF TypeInv, TypeOK
<1>4. CASE \E s \in Requests :
             /\ Service(t)!First(s) /\ Service(t)!OutranksActive(s, r)
             /\ place' = [place EXCEPT ![t][r] = "gone", ![t][s] = "active"]
  <2>1. PICK s \in Requests :
             /\ Service(t)!First(s) /\ Service(t)!OutranksActive(s, r)
             /\ place' = [place EXCEPT ![t][r] = "gone", ![t][s] = "active"]
    BY <1>4
  <2>. QED  BY ONLY <1>2, <2>1, Zenon
<1>5. CASE /\ \A s \in Requests : Service(t)!First(s) => ~Service(t)!OutranksActive(s, r)
           /\ place' = [place EXCEPT ![t][r] = "gone"]
  BY ONLY <1>3, <1>5, Zenon
<1>6. \/ \E s \in Requests :
             /\ Service(t)!First(s) /\ Service(t)!OutranksActive(s, r)
             /\ place' = [place EXCEPT ![t][r] = "gone", ![t][s] = "active"]
      \/ /\ \A s \in Requests : Service(t)!First(s) => ~Service(t)!OutranksActive(s, r)
         /\ place' = [place EXCEPT ![t][r] = "gone"]
  BY ONLY Release(t, r), Zenon DEF Release
<1>. QED  BY <1>4, <1>5, <1>6

\* One step of any request or release task keeps everybody in place.
LEMMA LadderStep == LadderInv /\ [Next]_vars => LadderInv'
<1> SUFFICES ASSUME LadderInv, [Next]_vars, NEW t \in Tiers, NEW q \in Requests
             PROVE  Stands(t, place[t][q], at[q], phase[q])'
  BY TypeStep DEF LadderInv, Standing
<1>1. /\ Stands(t, place[t][q], at[q], phase[q])
      /\ t \in Nat /\ at[q] \in Nat
      /\ phase[q] \in {"queued", "calling"} => at[q] \in Tiers
  BY EscalateAssumption DEF LadderInv, Standing, TypeInv, TypeOK, OnRung, Tiers
<1>. USE DEF LadderInv
<1>2. ASSUME NEW r \in Requests, SkipTier(r)
     PROVE  Stands(t, place[t][q], at[q], phase[q])'
  <2>1. /\ at'[q] = IF q = r THEN at[q] + 1 ELSE at[q]
        /\ phase'[q] = phase[q]
        /\ place'[t][q] = place[t][q]
    BY <1>2 DEF SkipTier, gateVars, TypeInv, TypeOK
  <2>. QED  BY <1>1, <1>2, <2>1 DEF SkipTier, Stands
<1>3. ASSUME NEW r \in Requests, Exhaust(r)
     PROVE  Stands(t, place[t][q], at[q], phase[q])'
  <2>1. /\ at'[q] = at[q]
        /\ phase'[q] = IF q = r THEN "exhausted" ELSE phase[q]
        /\ place'[t][q] = place[t][q]
    BY <1>3 DEF Exhaust, gateVars, TypeInv, TypeOK
  <2>. QED  BY <1>1, <1>3, <2>1 DEF Exhaust, Stands
<1>4. ASSUME NEW r \in Requests, BypassGate(r)
     PROVE  Stands(t, place[t][q], at[q], phase[q])'
  <2>1. /\ at'[q] = at[q]
        /\ phase'[q] = IF q = r THEN "calling" ELSE phase[q]
        /\ place'[t][q] = place[t][q]
    BY <1>4 DEF BypassGate, gateVars, Calls, TypeInv, TypeOK
  <2>. QED  BY <1>1, <1>4, <2>1 DEF BypassGate, Reaches, Stands
<1>5. ASSUME NEW r \in Requests, EnterGate(r)
     PROVE  Stands(t, place[t][q], at[q], phase[q])'
  <2>1. /\ at'[q] = at[q]
        /\ phase'[q] = IF q = r THEN "calling" ELSE phase[q]
    BY <1>5 DEF EnterGate, Calls, TypeInv, TypeOK
  <2>3. place'[t][q] = IF t = at[r] /\ q = r THEN "active" ELSE place[t][q]
    BY <1>5 DEF EnterGate, Reaches, TypeInv, TypeOK
  <2>. QED  BY <1>1, <1>5, <2>1, <2>3 DEF EnterGate, Reaches, Stands
<1>6. ASSUME NEW r \in Requests, WaitAtGate(r)
     PROVE  Stands(t, place[t][q], at[q], phase[q])'
  <2>1. /\ at'[q] = at[q]
        /\ phase'[q] = IF q = r THEN "queued" ELSE phase[q]
    BY <1>6 DEF WaitAtGate, TypeInv, TypeOK
  <2>3. place'[t][q] = IF t = at[r] /\ q = r THEN "waiting" ELSE place[t][q]
    BY <1>6 DEF WaitAtGate, Reaches, TypeInv, TypeOK
  <2>. QED  BY <1>1, <1>6, <2>1, <2>3 DEF WaitAtGate, Reaches, Stands
<1>7. ASSUME NEW r \in Requests, Resume(r)
     PROVE  Stands(t, place[t][q], at[q], phase[q])'
  <2>1. /\ at'[q] = at[q]
        /\ phase'[q] = IF q = r THEN "calling" ELSE phase[q]
        /\ place'[t][q] = place[t][q]
    BY <1>7 DEF Resume, gateVars, Calls, TypeInv, TypeOK
  <2>. QED  BY <1>1, <1>7, <2>1 DEF Resume, Stands
<1>8. ASSUME NEW r \in Requests, Answered(r)
     PROVE  Stands(t, place[t][q], at[q], phase[q])'
  <2>1. /\ at'[q] = at[q]
        /\ phase'[q] = IF q = r THEN "answered" ELSE phase[q]
    BY <1>8 DEF Answered, TypeInv, TypeOK
  <2>2. place'[t][q] = IF t = at[r] /\ q = r /\ t \in Gated THEN "leaving" ELSE place[t][q]
    BY <1>8, Dropped DEF Answered
  <2>. QED  BY <1>1, <1>8, <2>1, <2>2 DEF Answered, Stands
<1>9. ASSUME NEW r \in Requests, Escalates(r)
     PROVE  Stands(t, place[t][q], at[q], phase[q])'
  <2>1. /\ at'[q] = IF q = r THEN at[q] + 1 ELSE at[q]
        /\ phase'[q] = IF q = r THEN "walking" ELSE phase[q]
    BY <1>9 DEF Escalates, TypeInv, TypeOK
  <2>2. place'[t][q] = IF t = at[r] /\ q = r /\ t \in Gated THEN "leaving" ELSE place[t][q]
    BY <1>9, Dropped DEF Escalates
  <2>. QED  BY <1>1, <1>9, <2>1, <2>2 DEF Escalates, Stands
<1>10. ASSUME NEW r \in Requests, LeavesQueue(r)
      PROVE  Stands(t, place[t][q], at[q], phase[q])'
  <2>1. /\ at'[q] = at[q]
        /\ phase'[q] = IF q = r THEN "left" ELSE phase[q]
    BY <1>10 DEF LeavesQueue, TypeInv, TypeOK
  <2>2. at[r] \in Tiers
    BY <1>10 DEF LeavesQueue, TypeInv, OnRung
  <2>3. place'[t][q] = IF t = at[r] /\ q = r THEN "gone" ELSE place[t][q]
    BY <1>10, <2>2 DEF LeavesQueue, TypeInv, TypeOK
  <2>. QED  BY <1>1, <1>10, <2>1, <2>3 DEF LeavesQueue, Stands
<1>11. ASSUME NEW r \in Requests, LeavesInHandOver(r)
      PROVE  Stands(t, place[t][q], at[q], phase[q])'
  <2>1. /\ at'[q] = at[q]
        /\ phase'[q] = IF q = r THEN "left" ELSE phase[q]
    BY <1>11 DEF LeavesInHandOver, TypeInv, TypeOK
  <2>2. at[r] \in Tiers
    BY <1>11 DEF LeavesInHandOver, TypeInv, OnRung
  <2>3. place'[t][q] = IF t = at[r] /\ q = r THEN "ghost" ELSE place[t][q]
    BY <1>11, <2>2 DEF LeavesInHandOver, TypeInv, TypeOK
  <2>. QED  BY <1>1, <1>11, <2>1, <2>3 DEF LeavesInHandOver, Stands
<1>12. ASSUME NEW r \in Requests, LeavesCall(r)
      PROVE  Stands(t, place[t][q], at[q], phase[q])'
  <2>1. /\ at'[q] = at[q]
        /\ phase'[q] = IF q = r THEN "left" ELSE phase[q]
    BY <1>12 DEF LeavesCall, TypeInv, TypeOK
  <2>2. place'[t][q] = IF t = at[r] /\ q = r /\ t \in Gated THEN "leaving" ELSE place[t][q]
    BY <1>12, Dropped DEF LeavesCall
  <2>. QED  BY <1>1, <1>12, <2>1, <2>2 DEF LeavesCall, Stands
<1>13. ASSUME NEW r \in Requests, NEW g \in Gated, Release(g, r)
      PROVE  Stands(t, place[t][q], at[q], phase[q])'
  <2>1. place[g][r] = "leaving" /\ UNCHANGED <<at, phase>>
    BY <1>13 DEF Release
  <2>2. ASSUME NEW s \in Requests \ {r}, place[g][s] = "waiting",
               place'[t][q] = IF t = g /\ q = r THEN "gone"
                              ELSE IF t = g /\ q = s THEN "active" ELSE place[t][q]
        PROVE  Stands(t, place[t][q], at[q], phase[q])'
    BY <1>1, <2>1, <2>2 DEF Stands
  <2>3. ASSUME place'[t][q] = IF t = g /\ q = r THEN "gone" ELSE place[t][q]
        PROVE  Stands(t, place[t][q], at[q], phase[q])'
    BY <1>1, <2>1, <2>3 DEF Stands
  <2>4. \/ \E s \in Requests \ {r} :
             /\ place[g][s] = "waiting"
             /\ place'[t][q] = IF t = g /\ q = r THEN "gone"
                               ELSE IF t = g /\ q = s THEN "active" ELSE place[t][q]
        \/ place'[t][q] = IF t = g /\ q = r THEN "gone" ELSE place[t][q]
    BY <1>13, Released
  <2>. QED  BY ONLY <2>2, <2>3, <2>4, Zenon
<1>14. CASE UNCHANGED vars
  BY <1>1, <1>14 DEF vars, Stands
<1>. QED
  BY <1>2, <1>3, <1>4, <1>5, <1>6, <1>7, <1>8, <1>9, <1>10, <1>11, <1>12, <1>13, <1>14
  DEF Next, Walks, CallEnds, Leaves

\* Everybody starts below the ladder.
LEMMA LadderInit == Init => LadderInv
<1>1. ASSUME Init, NEW t \in Tiers, NEW r \in Requests
      PROVE  Stands(t, place[t][r], at[r], phase[r])
  <2>1. place[t][r] = "new" /\ phase[r] = "walking"
    BY <1>1 DEF Init
  <2>. QED  BY <2>1 DEF Stands
<1>. QED  BY <1>1, TypeInit DEF LadderInv, Standing

\* In every reachable state everybody is in place.
LEMMA Ladder == Spec => []LadderInv
BY LadderInit, LadderStep, PTL DEF Spec

\* A request never stands in two gates: it climbs without the permit of the
\* rung below, and leaves without any.
THEOREM HoldsOnePermit == Spec => []OnePermit
<1>1. LadderInv => OnePermit
  BY DEF LadderInv, Standing, Stands, OnePermit
<1>. QED  BY <1>1, Ladder, PTL

-----------------------------------------------------------------------------
(* Towards its callers every tier is a priority service.                   *)

Serves(t) == Service(t)!Next \/ UNCHANGED Service(t)!vars

\* A tier in which nobody's standing changes stutters.
LEMMA Stutters ==
    ASSUME NEW t \in Tiers, UNCHANGED <<prio, arrival[t], clock[t]>>,
           \A q \in Requests : Seen(place[t][q])' = Seen(place[t][q])
    PROVE  Serves(t)
BY DEF Serves, Service!vars

\* A request that moves on, answers or escalates is still served until its task
\* has run; one that is handed a slot it never takes is served for ever.
LEMMA StaysServed ==
    ASSUME LadderInv, NEW r \in Requests, NEW t \in Tiers,
           Answered(r) \/ Escalates(r) \/ LeavesCall(r) \/ LeavesInHandOver(r)
    PROVE  Serves(t)
<1>1. UNCHANGED <<prio, arrival[t], clock[t]>>
  BY DEF Answered, Escalates, LeavesCall, LeavesInHandOver
<1>2. ASSUME NEW q \in Requests
      PROVE  Seen(place[t][q])' = Seen(place[t][q])
  <2>1. CASE LeavesInHandOver(r)
    <3>1. at[r] \in Tiers
      BY <2>1 DEF LeavesInHandOver, LadderInv, TypeInv, OnRung
    <3>2. place'[t][q] = IF t = at[r] /\ q = r THEN "ghost" ELSE place[t][q]
      BY <2>1, <3>1 DEF LeavesInHandOver, LadderInv, TypeInv, TypeOK
    <3>. QED  BY <2>1, <3>2 DEF LeavesInHandOver, Seen
  <2>2. CASE Answered(r) \/ Escalates(r) \/ LeavesCall(r)
    <3>1. phase[r] = "calling" /\ DropPermit(r)
      BY <2>2 DEF Answered, Escalates, LeavesCall
    <3>2. place'[t][q] = IF t = at[r] /\ q = r /\ t \in Gated THEN "leaving" ELSE place[t][q]
      BY <3>1, Dropped DEF LadderInv
    <3>3. t = at[r] /\ t \in Gated => place[t][r] = "active"
      BY <3>1 DEF LadderInv, Standing, Stands
    <3>. QED  BY <3>2, <3>3 DEF Seen
  <2>. QED  BY <2>1, <2>2
<1>. QED  BY <1>1, <1>2, Stutters

\* A request that reaches a gate enters it, queues there or leaves its queue; no
\* other gate notices.
LEMMA Arrives ==
    ASSUME LadderInv, NEW r \in Requests, NEW t \in Tiers,
           EnterGate(r) \/ WaitAtGate(r) \/ LeavesQueue(r)
    PROVE  Serves(t)
<1>1. at[r] \in Tiers
  BY DEF EnterGate, WaitAtGate, LeavesQueue, Reaches, LadderInv, TypeInv, OnRung
<1>2. CASE EnterGate(r)
  <2>1. ASSUME NEW q \in Requests
        PROVE  place'[t][q] = IF t = at[r] /\ q = r THEN "active" ELSE place[t][q]
    BY <1>1, <1>2 DEF EnterGate, LadderInv, TypeInv, TypeOK
  <2>2. CASE t = at[r]
    <3>1. place[t][r] = "new"
      BY <1>2, <2>2 DEF EnterGate, Reaches, LadderInv, Standing, Stands
    <3>2. Service(t)!OutranksActive(r, r) /\ UNCHANGED <<prio, arrival, clock>>
      BY <1>2, <2>2 DEF EnterGate
    <3>3. [q \in Requests |-> Seen(place[t][q])]'
             = [[q \in Requests |-> Seen(place[t][q])] EXCEPT ![r] = "active"]
      BY <2>1, <2>2 DEF Seen
    <3>4. Service(t)!Admit(r)
      BY <3>1, <3>2, <3>3 DEF Service!Admit, Seen
    <3>. QED  BY <3>4 DEF Serves, Service!Next
  <2>3. CASE t # at[r]
    BY <1>2, <2>1, <2>3, Stutters DEF EnterGate
  <2>. QED  BY <2>2, <2>3
<1>3. CASE WaitAtGate(r)
  <2>1. ASSUME NEW q \in Requests
        PROVE  place'[t][q] = IF t = at[r] /\ q = r THEN "waiting" ELSE place[t][q]
    BY <1>1, <1>3 DEF WaitAtGate, LadderInv, TypeInv, TypeOK
  <2>2. CASE t = at[r]
    <3>1. place[t][r] = "new"
      BY <1>3, <2>2 DEF WaitAtGate, Reaches, LadderInv, Standing, Stands
    <3>2. ~Service(t)!OutranksActive(r, r) /\ UNCHANGED prio
      BY <1>3, <2>2 DEF WaitAtGate
    <3>3. /\ arrival[t]' = [arrival[t] EXCEPT ![r] = clock[t]]
          /\ clock[t]' = clock[t] + 1
      BY <1>1, <1>3, <2>2 DEF WaitAtGate, LadderInv, TypeInv, TypeOK
    <3>4. [q \in Requests |-> Seen(place[t][q])]'
             = [[q \in Requests |-> Seen(place[t][q])] EXCEPT ![r] = "waiting"]
      BY <2>1, <2>2 DEF Seen
    <3>5. Service(t)!Queue(r)
      BY <3>1, <3>2, <3>3, <3>4 DEF Service!Queue, Seen
    <3>. QED  BY <3>5 DEF Serves, Service!Next
  <2>3. CASE t # at[r]
    <3>1. UNCHANGED <<prio, arrival[t], clock[t]>>
      BY <1>1, <1>3, <2>3 DEF WaitAtGate, LadderInv, TypeInv, TypeOK
    <3>. QED  BY <2>1, <2>3, <3>1, Stutters
  <2>. QED  BY <2>2, <2>3
<1>4. CASE LeavesQueue(r)
  <2>1. ASSUME NEW q \in Requests
        PROVE  place'[t][q] = IF t = at[r] /\ q = r THEN "gone" ELSE place[t][q]
    BY <1>1, <1>4 DEF LeavesQueue, LadderInv, TypeInv, TypeOK
  <2>2. CASE t = at[r]
    <3>1. place[t][r] = "waiting" /\ UNCHANGED <<prio, arrival, clock>>
      BY <1>4, <2>2 DEF LeavesQueue
    <3>2. [q \in Requests |-> Seen(place[t][q])]'
             = [[q \in Requests |-> Seen(place[t][q])] EXCEPT ![r] = "gone"]
      BY <2>1, <2>2 DEF Seen
    <3>3. Service(t)!Leave(r)
      BY <3>1, <3>2 DEF Service!Leave, Seen
    <3>. QED  BY <3>3 DEF Serves, Service!Next
  <2>3. CASE t # at[r]
    BY <1>4, <2>1, <2>3, Stutters DEF LeavesQueue
  <2>. QED  BY <2>2, <2>3
<1>. QED  BY <1>2, <1>3, <1>4

\* The release task of a gate ends a service there.
LEMMA Releases ==
    ASSUME LadderInv, NEW r \in Requests, NEW g \in Gated, Release(g, r), NEW t \in Tiers
    PROVE  Serves(t)
<1>1. /\ place[g][r] = "leaving"
      /\ UNCHANGED <<prio, arrival, clock>>
  BY DEF Release
<1>2. ASSUME NEW s \in Requests \ {r}, place[g][s] = "waiting",
             Service(g)!First(s), Service(g)!OutranksActive(s, r),
             \A u \in Tiers, q \in Requests :
                 place'[u][q] = IF u = g /\ q = r THEN "gone"
                                ELSE IF u = g /\ q = s THEN "active" ELSE place[u][q]
      PROVE  Serves(t)
  <2>1. CASE t = g
    <3>1. [q \in Requests |-> Seen(place[t][q])]'
             = [[q \in Requests |-> Seen(place[t][q])] EXCEPT ![r] = "gone", ![s] = "active"]
      BY <1>2, <2>1 DEF Seen
    <3>2. Service(t)!FinishAndServe(r, s)
      BY <1>1, <1>2, <2>1, <3>1 DEF Service!FinishAndServe, Seen
    <3>. QED  BY <3>2 DEF Serves, Service!Next, Service!Finish
  <2>2. CASE t # g
    BY <1>1, <1>2, <2>2, Stutters
  <2>. QED  BY <2>1, <2>2
<1>3. ASSUME \A s \in Requests : Service(g)!First(s) => ~Service(g)!OutranksActive(s, r),
             \A u \in Tiers, q \in Requests :
                 place'[u][q] = IF u = g /\ q = r THEN "gone" ELSE place[u][q]
      PROVE  Serves(t)
  <2>1. CASE t = g
    <3>1. [q \in Requests |-> Seen(place[t][q])]'
             = [[q \in Requests |-> Seen(place[t][q])] EXCEPT ![r] = "gone"]
      BY <1>3, <2>1 DEF Seen
    <3>2. Service(t)!FinishOnly(r)
      BY <1>1, <1>3, <2>1, <3>1 DEF Service!FinishOnly, Seen
    <3>. QED  BY <3>2 DEF Serves, Service!Next, Service!Finish
  <2>2. CASE t # g
    BY <1>1, <1>3, <2>2, Stutters
  <2>. QED  BY <2>1, <2>2
<1>. QED  BY <1>2, <1>3, Released DEF LadderInv

\* Every step is, at every tier, a step of its service or a stutter.
LEMMA ServiceStep ==
    LadderInv /\ [Next]_vars
      => [\A t \in Tiers : Service(t)!Next \/ UNCHANGED Service(t)!vars]_<<prio, gateVars>>
<1> SUFFICES ASSUME LadderInv, [Next]_vars, NEW t \in Tiers, ~UNCHANGED <<prio, gateVars>>
             PROVE  Serves(t)
  BY DEF Serves
<1>1. PICK r \in Requests :
          Walks(r) \/ CallEnds(r) \/ Leaves(r) \/ \E g \in Gated : Release(g, r)
  BY DEF Next, vars, gateVars
<1>2. ~SkipTier(r) /\ ~Exhaust(r) /\ ~BypassGate(r) /\ ~Resume(r)
  BY DEF SkipTier, Exhaust, BypassGate, Resume
<1>3. \/ EnterGate(r) \/ WaitAtGate(r) \/ LeavesQueue(r)
      \/ Answered(r) \/ Escalates(r) \/ LeavesCall(r) \/ LeavesInHandOver(r)
      \/ \E g \in Gated : Release(g, r)
  BY <1>1, <1>2 DEF Walks, CallEnds, Leaves
<1>. QED  BY <1>3, Arrives, StaysServed, Releases

\* Initially every tier is an idle service.
LEMMA ServiceInit == Init => \A t \in Tiers : Service(t)!Init
<1> SUFFICES ASSUME Init, NEW t \in Tiers
             PROVE  Service(t)!Init
  OBVIOUS
<1>1. [q \in Requests |-> Seen(place[t][q])] = [q \in Requests |-> "new"]
  BY DEF Init, Seen
<1>. QED  BY <1>1 DEF Init, Service!Init

\* Composed into one ladder, with permits released behind the climber's back,
\* every tier is still the priority service its callers expect.
THEOREM TiersImplementService == Spec => TiersAreServices
<1>. QED  BY ServiceInit, ServiceStep, Ladder, PTL DEF Spec, TiersAreServices

-----------------------------------------------------------------------------
(* Nobody waits for a waiter.  At the service of each tier: the waiters     *)
(* have arrival numbers of their own, and each is behind someone served.    *)

Stage(t, q) == Seen(place[t][q])

\* Someone at least as urgent as r is being served at t.
Behind(t, r) ==
    \E s \in Requests \ {r} : Stage(t, s) = "active" /\ prio[s] >= prio[r]

Numbered(t) ==
    \A r, s \in Requests :
        Stage(t, r) = "waiting" /\ Stage(t, s) = "waiting" =>
            arrival[t][r] < clock[t] /\ (arrival[t][r] = arrival[t][s] => r = s)

Busy(t) == Numbered(t) /\ \A r \in Requests : Stage(t, r) = "waiting" => Behind(t, r)

\* Who waits at a gate is behind someone at least as urgent whose permit is
\* about to be released, or lost with its client, or who has it while it stands
\* at this very rung, calling or about to.
NoWaitBehindWaiter ==
    \A t \in Gated, r \in Requests : place[t][r] = "waiting" =>
        \E s \in Requests \ {r} :
            /\ prio[s] >= prio[r]
            /\ \/ place[t][s] \in {"leaving", "ghost"}
               \/ place[t][s] = "active" /\ at[s] = t /\ phase[s] \in {"queued", "calling"}

\* Every nonempty set of naturals has a least element.
LEMMA LeastNatural ==
    ASSUME NEW S \in SUBSET Nat, S # {}
    PROVE  \E n \in S : \A m \in S : n <= m
<1>1. PICK n \in S : \A m \in S : ~ (<<m, n>> \in OpToRel(<, Nat))
  BY WFMin, NatLessThanWellFounded
<1>2. ASSUME NEW m \in S PROVE n <= m
  <2>1. <<m, n>> \in Nat \X Nat /\ <<m, n>>[1] = m /\ <<m, n>>[2] = n
    OBVIOUS
  <2>2. ~ (m < n)
    BY <1>1, <2>1 DEF OpToRel
  <2>. QED  BY <2>2
<1>. QED  BY <1>2

\* Where anyone waits, one waiter is the first.
LEMMA FirstExists ==
    ASSUME TypeOK, NEW t \in Tiers, Numbered(t), NEW w \in Requests, Stage(t, w) = "waiting"
    PROVE  \E f \in Requests : Service(t)!First(f) /\ prio[f] >= prio[w]
<1>. DEFINE Q == {r \in Requests : Stage(t, r) = "waiting"}
            Rank == {MaxPriority - prio[r] : r \in Q}
<1>1. \A r \in Q : prio[r] \in Int /\ MaxPriority - prio[r] \in Nat /\ arrival[t][r] \in Nat
  BY EscalateAssumption DEF TypeOK
<1>2. PICK best \in Q : \A r \in Q : prio[r] <= prio[best]
  <2>1. Rank \in SUBSET Nat /\ Rank # {}
    BY <1>1
  <2>2. PICK m \in Rank : \A n \in Rank : m <= n
    BY <2>1, LeastNatural
  <2>3. PICK best \in Q : m = MaxPriority - prio[best]
    OBVIOUS
  <2>4. ASSUME NEW r \in Q PROVE prio[r] <= prio[best]
    <3>1. MaxPriority - prio[best] <= MaxPriority - prio[r]
      BY <2>2, <2>3
    <3>. QED  BY <1>1, <3>1, EscalateAssumption
  <2>. QED  BY <2>4
<1>. DEFINE Urgent == {r \in Q : prio[r] = prio[best]}
            Numbers == {arrival[t][r] : r \in Urgent}
<1>3. PICK f \in Urgent : \A r \in Urgent : arrival[t][f] <= arrival[t][r]
  <2>1. Numbers \in SUBSET Nat /\ Numbers # {}
    BY <1>1
  <2>2. PICK a \in Numbers : \A b \in Numbers : a <= b
    BY <2>1, LeastNatural
  <2>. QED  BY <2>2
<1>4. ASSUME NEW s \in Requests \ {f}, Stage(t, s) = "waiting"
      PROVE  prio[f] > prio[s] \/ (prio[f] = prio[s] /\ arrival[t][f] < arrival[t][s])
  BY <1>1, <1>2, <1>3, <1>4 DEF Numbered
<1>5. Service(t)!First(f)
  BY <1>4 DEF Service!First, Stage
<1>. QED  BY <1>1, <1>2, <1>5

\* A step of the service of a tier leaves no waiter behind nobody: whoever ends
\* hands over to the first waiter, or keeps it behind someone else.
LEMMA BusyStep ==
    ASSUME TypeOK, NEW t \in Tiers, Busy(t), Serves(t)
    PROVE  Busy(t)'
<1>. DEFINE st == [q \in Requests |-> Seen(place[t][q])]
<1>0. /\ DOMAIN st = Requests
      /\ \A q \in Requests : st[q] = Stage(t, q) /\ st'[q] = Stage(t, q)'
      /\ \A q \in Requests : prio[q] \in Int /\ arrival[t][q] \in Nat
      /\ arrival[t] \in [Requests -> Nat] /\ clock[t] \in Nat
  BY EscalateAssumption DEF TypeOK, Stage
<1>. HIDE DEF st
<1>1. ASSUME UNCHANGED <<arrival[t], clock[t]>>,
             \A q \in Requests : Stage(t, q)' = "waiting" => Stage(t, q) = "waiting"
      PROVE  Numbered(t)'
  BY <1>1 DEF Busy, Numbered
<1>2. ASSUME NEW r \in Requests, Service(t)!Admit(r)
      PROVE  Busy(t)'
  <2>1. st[r] = "new" /\ st' = [st EXCEPT ![r] = "active"] /\ UNCHANGED <<prio, arrival[t], clock[t]>>
    BY <1>2 DEF Service!Admit, st
  <2>2. \A q \in Requests : Stage(t, q)' = IF q = r THEN "active" ELSE Stage(t, q)
    BY <1>0, <2>1
  <2>3. ASSUME NEW w \in Requests, Stage(t, w)' = "waiting"
        PROVE  Behind(t, w)'
    <3>1. Behind(t, w)
      BY <2>2, <2>3 DEF Busy
    <3>. QED  BY <2>1, <2>2, <3>1 DEF Behind
  <2>. QED  BY <1>1, <2>1, <2>2, <2>3 DEF Busy
<1>3. ASSUME NEW r \in Requests, Service(t)!Queue(r)
      PROVE  Busy(t)'
  <2>1. /\ st[r] = "new" /\ st' = [st EXCEPT ![r] = "waiting"]
        /\ arrival[t]' = [arrival[t] EXCEPT ![r] = clock[t]]
        /\ clock[t]' = clock[t] + 1 /\ UNCHANGED prio
    BY <1>3 DEF Service!Queue, st
  <2>2. \A q \in Requests :
           /\ Stage(t, q)' = IF q = r THEN "waiting" ELSE Stage(t, q)
           /\ arrival[t]'[q] = IF q = r THEN clock[t] ELSE arrival[t][q]
    BY <1>0, <2>1
  <2>3. \E s \in Requests \ {r} : Stage(t, s) = "active" /\ ~(prio[r] > prio[s])
    BY <1>3 DEF Service!Queue, Service!OutranksActive, Stage
  <2>4. Behind(t, r)'
    BY <1>0, <2>1, <2>2, <2>3 DEF Behind
  <2>5. ASSUME NEW w \in Requests \ {r}, Stage(t, w)' = "waiting"
        PROVE  Behind(t, w)'
    <3>1. Behind(t, w)
      BY <2>2, <2>5 DEF Busy
    <3>. QED  BY <1>0, <2>1, <2>2, <3>1 DEF Behind
  <2>6. Numbered(t)'
    BY <1>0, <2>1, <2>2 DEF Busy, Numbered
  <2>. QED  BY <2>4, <2>5, <2>6 DEF Busy
<1>4. ASSUME NEW r \in Requests, Service(t)!Leave(r)
      PROVE  Busy(t)'
  <2>1. /\ st[r] = "waiting" /\ st' = [st EXCEPT ![r] = "gone"]
        /\ UNCHANGED <<prio, arrival[t], clock[t]>>
    BY <1>4 DEF Service!Leave, st
  <2>2. \A q \in Requests : Stage(t, q)' = IF q = r THEN "gone" ELSE Stage(t, q)
    BY <1>0, <2>1
  <2>3. ASSUME NEW w \in Requests, Stage(t, w)' = "waiting"
        PROVE  Behind(t, w)'
    <3>1. Behind(t, w)
      BY <2>2, <2>3 DEF Busy
    <3>. QED  BY <1>0, <2>1, <2>2, <3>1 DEF Behind
  <2>. QED  BY <1>1, <2>1, <2>2, <2>3 DEF Busy
<1>5. ASSUME NEW r \in Requests, NEW s \in Requests, Service(t)!FinishAndServe(r, s)
      PROVE  Busy(t)'
  <2>1. /\ st[r] = "active" /\ st' = [st EXCEPT ![r] = "gone", ![s] = "active"]
        /\ Service(t)!First(s)
        /\ UNCHANGED <<prio, arrival[t], clock[t]>>
    BY <1>5 DEF Service!FinishAndServe, st
  <2>2. /\ Stage(t, s) = "waiting"
        /\ \A w \in Requests \ {s} : Stage(t, w) = "waiting" => prio[s] >= prio[w]
    BY <1>0, <2>1 DEF Service!First, Stage
  <2>3. \A q \in Requests :
           Stage(t, q)' = IF q = s THEN "active" ELSE IF q = r THEN "gone" ELSE Stage(t, q)
    BY <1>0, <2>1
  <2>4. ASSUME NEW w \in Requests, Stage(t, w)' = "waiting"
        PROVE  Behind(t, w)'
    BY <2>1, <2>2, <2>3, <2>4 DEF Behind
  <2>. QED  BY <1>1, <2>1, <2>2, <2>3, <2>4 DEF Busy
<1>6. ASSUME NEW r \in Requests, Service(t)!FinishOnly(r)
      PROVE  Busy(t)'
  <2>1. /\ st[r] = "active" /\ st' = [st EXCEPT ![r] = "gone"]
        /\ \A s \in Requests : Service(t)!First(s) => ~Service(t)!OutranksActive(s, r)
        /\ UNCHANGED <<prio, arrival[t], clock[t]>>
    BY <1>6 DEF Service!FinishOnly, st
  <2>2. \A q \in Requests : Stage(t, q)' = IF q = r THEN "gone" ELSE Stage(t, q)
    BY <1>0, <2>1
  <2>3. ASSUME NEW w \in Requests, Stage(t, w)' = "waiting"
        PROVE  Behind(t, w)'
    <3>1. Stage(t, w) = "waiting"
      BY <2>2, <2>3
    <3>2. PICK f \in Requests : Service(t)!First(f) /\ prio[f] >= prio[w]
      BY <3>1, FirstExists DEF Busy
    <3>3. PICK s \in Requests \ {r} : Stage(t, s) = "active" /\ ~(prio[f] > prio[s])
      BY <2>1, <3>2 DEF Service!OutranksActive, Stage
    <3>4. s # w /\ prio[s] >= prio[w]
      BY <1>0, <3>1, <3>2, <3>3
    <3>. QED  BY <2>1, <2>2, <3>3, <3>4 DEF Behind
  <2>. QED  BY <1>1, <2>1, <2>2, <2>3 DEF Busy
<1>7. CASE UNCHANGED Service(t)!vars
  <2>1. UNCHANGED <<prio, st, arrival[t], clock[t]>>
    BY <1>7 DEF Service!vars, st
  <2>2. \A q \in Requests : Stage(t, q)' = Stage(t, q)
    BY <1>0, <2>1
  <2>3. ASSUME NEW w \in Requests, Stage(t, w)' = "waiting"
        PROVE  Behind(t, w)'
    <3>1. Behind(t, w)
      BY <2>2, <2>3 DEF Busy
    <3>. QED  BY <2>1, <2>2, <3>1 DEF Behind
  <2>. QED  BY <1>1, <2>1, <2>2, <2>3 DEF Busy
<1>. QED
  BY <1>2, <1>3, <1>4, <1>5, <1>6, <1>7 DEF Serves, Service!Next, Service!Finish

\* Nobody waits when the climb begins.
LEMMA BusyInit == Init => \A t \in Tiers : Busy(t)
BY DEF Init, Busy, Numbered, Stage, Seen

\* At every tier, and at all times, whoever waits is behind someone served.
LEMMA BusyAlways == Spec => [](\A t \in Tiers : Busy(t))
<1>1. /\ LadderInv /\ (\A t \in Tiers : Busy(t))
      /\ [\A t \in Tiers : Service(t)!Next \/ UNCHANGED Service(t)!vars]_<<prio, gateVars>>
      => (\A t \in Tiers : Busy(t))'
  <2> SUFFICES ASSUME LadderInv, \A t \in Tiers : Busy(t), NEW t \in Tiers,
                      \/ \A u \in Tiers : Serves(u)
                      \/ UNCHANGED <<prio, gateVars>>
               PROVE  Busy(t)'
    BY DEF Serves
  <2>1. Serves(t)
    <3>1. CASE UNCHANGED <<prio, gateVars>>
      BY <3>1, Stutters DEF gateVars
    <3>. QED  BY <3>1
  <2>. QED  BY <2>1, BusyStep DEF LadderInv, TypeInv
<1>. QED  BY <1>1, BusyInit, ServiceStep, Ladder, PTL DEF Spec

\* However many requests climb however many rungs, no two can wait for each
\* other: what one waits for is never itself waiting, on this rung or another.
THEOREM NobodyWaitsForAWaiter == Spec => []NoWaitBehindWaiter
<1>1. LadderInv /\ (\A t \in Tiers : Busy(t)) => NoWaitBehindWaiter
  <2> SUFFICES ASSUME LadderInv, \A t \in Tiers : Busy(t),
                      NEW t \in Gated, NEW r \in Requests, place[t][r] = "waiting"
               PROVE  \E s \in Requests \ {r} :
                         /\ prio[s] >= prio[r]
                         /\ \/ place[t][s] \in {"leaving", "ghost"}
                            \/ place[t][s] = "active" /\ at[s] = t
                               /\ phase[s] \in {"queued", "calling"}
    BY DEF NoWaitBehindWaiter
  <2>1. t \in Tiers
    BY EscalateAssumption DEF Tiers
  <2>2. Stage(t, r) = "waiting"
    BY DEF Stage, Seen
  <2>3. PICK s \in Requests \ {r} : Stage(t, s) = "active" /\ prio[s] >= prio[r]
    BY <2>1, <2>2 DEF Busy, Behind
  <2>4. place[t][s] \in {"leaving", "ghost", "active"}
    BY <2>3 DEF Stage, Seen
  <2>5. place[t][s] = "active" => at[s] = t /\ phase[s] \in {"queued", "calling"}
    BY <2>1 DEF LadderInv, Standing, Stands
  <2>. QED  BY <2>3, <2>4, <2>5
<1>. QED  BY <1>1, BusyAlways, Ladder, PTL

-----------------------------------------------------------------------------
(* The climb is bounded.                                                    *)

\* At most so many steps of r are left: three for every rung above it.
StepsLeft(r) ==
    CASE phase[r] = "walking" -> 3 * (Top + 1 - at[r]) + 3
      [] phase[r] = "queued"  -> 3 * (Top + 1 - at[r]) + 2
      [] phase[r] = "calling" -> 3 * (Top + 1 - at[r]) + 1
      [] phase[r] \in Ended   -> 0

Moves(r) == Walks(r) \/ CallEnds(r) \/ Leaves(r)

\* A request takes at most StepsLeft steps, whatever the others do: each of its
\* own brings it down and no step of another, or of a release task, changes it.
THEOREM WalkIsBounded ==
    Spec => /\ [](\A r \in Requests : StepsLeft(r) \in Nat)
            /\ [][\A r \in Requests : /\ Moves(r) => StepsLeft(r)' < StepsLeft(r)
                                      /\ ~Moves(r) => StepsLeft(r)' = StepsLeft(r)]_vars
<1>1. TypeInv => \A r \in Requests : StepsLeft(r) \in Nat
  <2> SUFFICES ASSUME TypeInv, NEW r \in Requests PROVE StepsLeft(r) \in Nat
    OBVIOUS
  <2>1. Top + 1 - at[r] \in Nat /\ phase[r] \in Phases
    BY EscalateAssumption DEF TypeInv, TypeOK
  <2>2. CASE phase[r] \in Ended
    BY <2>2 DEF StepsLeft, Ended
  <2>3. CASE phase[r] \in {"walking", "queued", "calling"}
    BY <2>1, <2>3 DEF StepsLeft, Ended
  <2>. QED  BY <2>1, <2>2, <2>3 DEF Phases
<1>2. TypeInv /\ [Next]_vars
      => [\A r \in Requests : /\ Moves(r) => StepsLeft(r)' < StepsLeft(r)
                              /\ ~Moves(r) => StepsLeft(r)' = StepsLeft(r)]_vars
  <2> SUFFICES ASSUME TypeInv, Next, NEW r \in Requests
               PROVE  /\ Moves(r) => StepsLeft(r)' < StepsLeft(r)
                      /\ ~Moves(r) => StepsLeft(r)' = StepsLeft(r)
    OBVIOUS
  <2>0. /\ Top \in Nat /\ at[r] \in 1 .. Top + 1
        /\ at \in [Requests -> 1 .. Top + 1] /\ phase \in [Requests -> Phases]
        /\ phase[r] \in {"queued", "calling"} => at[r] \in 1 .. Top
    BY EscalateAssumption DEF TypeInv, TypeOK, OnRung, Tiers
  <2>1. ASSUME SkipTier(r)
        PROVE  StepsLeft(r)' < StepsLeft(r)
    <3>1. phase[r] = "walking" /\ phase'[r] = "walking" /\ at'[r] = at[r] + 1
      BY <2>0, <2>1 DEF SkipTier
    <3>. QED  BY <2>0, <3>1 DEF StepsLeft, Ended
  <2>2. ASSUME WaitAtGate(r)
        PROVE  StepsLeft(r)' < StepsLeft(r)
    <3>1. phase[r] = "walking" /\ phase'[r] = "queued" /\ at'[r] = at[r]
      BY <2>0, <2>2 DEF WaitAtGate, Reaches
    <3>. QED  BY <2>0, <3>1 DEF StepsLeft, Ended
  <2>3. ASSUME BypassGate(r) \/ EnterGate(r) \/ Resume(r)
        PROVE  StepsLeft(r)' < StepsLeft(r)
    <3>1. phase[r] \in {"walking", "queued"} /\ phase'[r] = "calling" /\ at'[r] = at[r]
      BY <2>0, <2>3 DEF BypassGate, EnterGate, Resume, Reaches, Calls
    <3>. QED  BY <2>0, <3>1 DEF StepsLeft, Ended
  <2>4. ASSUME Escalates(r)
        PROVE  StepsLeft(r)' < StepsLeft(r)
    <3>1. phase[r] = "calling" /\ phase'[r] = "walking" /\ at'[r] = at[r] + 1
      BY <2>0, <2>4 DEF Escalates
    <3>. QED  BY <2>0, <3>1 DEF StepsLeft, Ended
  <2>5. ASSUME Exhaust(r) \/ Answered(r) \/ Leaves(r)
        PROVE  StepsLeft(r)' < StepsLeft(r)
    <3>1. phase[r] \in {"walking", "queued", "calling"} /\ phase'[r] \in Ended
      BY <2>0, <2>5 DEF Exhaust, Answered, Leaves, LeavesQueue, LeavesInHandOver, LeavesCall, Ended
    <3>2. StepsLeft(r)' = 0
      BY <3>1 DEF StepsLeft, Ended
    <3>3. StepsLeft(r) > 0
      BY <2>0, <3>1 DEF StepsLeft, Ended
    <3>. QED  BY <3>2, <3>3
  <2>6. ASSUME ~Moves(r)
        PROVE  StepsLeft(r)' = StepsLeft(r)
    <3>1. PICK q \in Requests : Moves(q) \/ \E t \in Gated : Release(t, q)
      BY DEF Next, Moves
    <3>2. ASSUME Moves(q)
          PROVE  phase'[r] = phase[r] /\ at'[r] = at[r]
      <4>1. q # r
        BY <2>6, <3>2
      <4>. QED
        BY <2>0, <3>2, <4>1
        DEF Moves, Walks, CallEnds, Leaves, SkipTier, Exhaust, BypassGate, EnterGate, WaitAtGate,
            Resume, Calls, Answered, Escalates, LeavesQueue, LeavesInHandOver, LeavesCall
    <3>3. ASSUME NEW t \in Gated, Release(t, q)
          PROVE  UNCHANGED <<phase, at>>
      BY <3>3 DEF Release
    <3>. QED  BY <3>1, <3>2, <3>3 DEF StepsLeft
  <2>. QED  BY <2>1, <2>2, <2>3, <2>4, <2>5, <2>6 DEF Moves, Walks, CallEnds
<1>3. Spec => []TypeInv
  BY TypeInit, TypeStep, PTL DEF Spec
<1>. QED  BY <1>1, <1>2, <1>3, PTL DEF Spec

-----------------------------------------------------------------------------
(* The climb.                                                              *)

Called(q) == {tried[q][i] : i \in DOMAIN tried[q]}

Due(q, top) == {t \in floor[q] .. Top : t <= top /\ t \notin unusable[q]}

Reached(q) == IF phase[q] \in {"walking", "queued"} THEN at[q] - 1 ELSE at[q]

Ascends(q) == \A i, j \in DOMAIN tried[q] : i < j => tried[q][i] < tried[q][j]

Climbs(q) == Ascends(q) /\ (phase[q] # "left" => Called(q) = Due(q, Reached(q)))

\* A request in its gate or in its call stands on a tier it may use.
Usable(q) == phase[q] \in {"queued", "calling"} => ~Skipped(q, at[q])

ClimbInv == TypeInv /\ \A q \in Requests : Climbs(q) /\ Usable(q)

\* Calling the tier the request stands at adds it to the tiers called, above
\* all of them.
LEMMA CallsNext ==
    ASSUME ClimbInv, NEW r \in Requests, Calls(r), UNCHANGED <<floor, unusable, at>>,
           at[r] \in Tiers, ~Skipped(r, at[r]), phase[r] \in {"walking", "queued"}
    PROVE  Climbs(r)' /\ Usable(r)'
<1>1. /\ tried[r] \in Seq(Tiers) /\ floor[r] \in Tiers /\ Tiers \subseteq Nat /\ Top \in Nat
      /\ Tiers = 1 .. Top
  BY EscalateAssumption DEF ClimbInv, TypeInv, TypeOK, Tiers
<1>2. tried'[r] = Append(tried[r], at[r]) /\ phase'[r] = "calling"
  BY DEF Calls, ClimbInv, TypeInv, TypeOK
<1>3. Ascends(r) /\ Called(r) = Due(r, at[r] - 1)
  BY DEF ClimbInv, Climbs, Reached
<1>4. /\ DOMAIN tried'[r] = 1 .. Len(tried[r]) + 1
      /\ \A i \in DOMAIN tried[r] : tried'[r][i] = tried[r][i] /\ tried[r][i] \in Called(r)
      /\ tried'[r][Len(tried[r]) + 1] = at[r]
      /\ DOMAIN tried[r] = 1 .. Len(tried[r]) /\ Len(tried[r]) \in Nat
  BY <1>1, <1>2 DEF Called
<1>5. \A i \in DOMAIN tried[r] : tried[r][i] < at[r]
  BY <1>1, <1>3, <1>4 DEF Due
<1>6. Ascends(r)'
  <2> SUFFICES ASSUME NEW i \in DOMAIN tried'[r], NEW j \in DOMAIN tried'[r], i < j
               PROVE  tried'[r][i] < tried'[r][j]
    BY DEF Ascends
  <2>1. CASE j = Len(tried[r]) + 1
    BY <1>4, <1>5, <2>1
  <2>2. CASE j # Len(tried[r]) + 1
    BY <1>3, <1>4, <2>2 DEF Ascends
  <2>. QED  BY <2>1, <2>2
<1>7. Called(r)' = Called(r) \union {at[r]}
  BY <1>4 DEF Called
<1>8. Due(r, at[r])' = Due(r, at[r] - 1) \union {at[r]}
  BY <1>1 DEF Due, Skipped
<1>. QED  BY <1>2, <1>3, <1>6, <1>7, <1>8 DEF Climbs, Reached, Usable, Skipped

\* One step of any request or release task keeps the climb.
LEMMA ClimbStep == ClimbInv /\ [Next]_vars => ClimbInv'
<1> SUFFICES ASSUME ClimbInv, [Next]_vars, NEW q \in Requests
             PROVE  Climbs(q)' /\ Usable(q)'
  BY TypeStep DEF ClimbInv
<1>1. /\ TypeInv /\ Climbs(q) /\ Usable(q)
      /\ floor[q] \in Tiers /\ at[q] \in 1 .. Top + 1 /\ Top \in Nat /\ Tiers = 1 .. Top
  BY EscalateAssumption DEF ClimbInv, TypeInv, TypeOK, Tiers
<1>2. ASSUME phase'[q] = phase[q], at'[q] = at[q], tried'[q] = tried[q],
             UNCHANGED <<floor, unusable>>
      PROVE  Climbs(q)' /\ Usable(q)'
  BY <1>1, <1>2 DEF Climbs, Ascends, Called, Due, Reached, Usable, Skipped
<1>3. ASSUME NEW r \in Requests, r # q, Walks(r) \/ CallEnds(r) \/ Leaves(r)
      PROVE  Climbs(q)' /\ Usable(q)'
  <2>1. /\ phase'[q] = phase[q] /\ at'[q] = at[q] /\ tried'[q] = tried[q]
        /\ UNCHANGED <<floor, unusable>>
    BY <1>1, <1>3
    DEF Walks, CallEnds, Leaves, SkipTier, Exhaust, BypassGate, EnterGate, WaitAtGate, Resume,
        Calls, Answered, Escalates, LeavesQueue, LeavesInHandOver, LeavesCall, TypeInv, TypeOK
  <2>. QED  BY <1>2, <2>1
<1>4. CASE SkipTier(q)
  <2>1. /\ at[q] \in Tiers /\ Skipped(q, at[q]) /\ phase[q] = "walking"
        /\ at'[q] = at[q] + 1 /\ UNCHANGED <<phase, tried, floor, unusable>>
    BY <1>1, <1>4 DEF SkipTier, TypeInv, TypeOK
  <2>2. Due(q, at[q]) = Due(q, at[q] - 1)
    BY <1>1, <2>1 DEF Due, Skipped
  <2>. QED  BY <1>1, <2>1, <2>2 DEF Climbs, Ascends, Called, Due, Reached, Usable
<1>5. CASE Exhaust(q)
  <2>1. /\ at[q] > Top /\ phase[q] = "walking" /\ phase'[q] = "exhausted"
        /\ UNCHANGED <<at, tried, floor, unusable>>
    BY <1>1, <1>5 DEF Exhaust, TypeInv, TypeOK
  <2>2. Due(q, at[q]) = Due(q, at[q] - 1)
    BY <1>1, <2>1 DEF Due
  <2>. QED  BY <1>1, <2>1, <2>2 DEF Climbs, Ascends, Called, Due, Reached, Usable
<1>6. CASE BypassGate(q) \/ EnterGate(q)
  BY <1>6, CallsNext DEF BypassGate, EnterGate, Reaches
<1>7. CASE Resume(q)
  BY <1>1, <1>7, CallsNext DEF Resume, TypeInv, OnRung, Usable
<1>8. CASE WaitAtGate(q)
  <2>1. /\ phase[q] = "walking" /\ phase'[q] = "queued" /\ ~Skipped(q, at[q])
        /\ UNCHANGED <<at, tried, floor, unusable>>
    BY <1>1, <1>8 DEF WaitAtGate, Reaches, TypeInv, TypeOK
  <2>. QED  BY <1>1, <2>1 DEF Climbs, Ascends, Called, Due, Reached, Usable, Skipped
<1>9. CASE Answered(q)
  <2>1. /\ phase[q] = "calling" /\ phase'[q] = "answered"
        /\ UNCHANGED <<at, tried, floor, unusable>>
    BY <1>1, <1>9 DEF Answered, TypeInv, TypeOK
  <2>. QED  BY <1>1, <2>1 DEF Climbs, Ascends, Called, Due, Reached, Usable
<1>10. CASE Escalates(q)
  <2>1. /\ phase[q] = "calling" /\ phase'[q] = "walking" /\ at'[q] = at[q] + 1
        /\ UNCHANGED <<tried, floor, unusable>>
    BY <1>1, <1>10 DEF Escalates, TypeInv, TypeOK
  <2>. QED  BY <1>1, <2>1 DEF Climbs, Ascends, Called, Due, Reached, Usable
<1>11. CASE Leaves(q)
  <2>1. phase'[q] = "left" /\ UNCHANGED tried
    BY <1>1, <1>11 DEF Leaves, LeavesQueue, LeavesInHandOver, LeavesCall, TypeInv, TypeOK
  <2>. QED  BY <1>1, <2>1 DEF Climbs, Ascends, Usable
<1>12. ASSUME NEW r \in Requests, NEW t \in Gated, Release(t, r)
       PROVE  Climbs(q)' /\ Usable(q)'
  BY <1>2, <1>12 DEF Release
<1>13. CASE UNCHANGED vars
  BY <1>2, <1>13 DEF vars
<1>. QED
  BY <1>3, <1>4, <1>5, <1>6, <1>7, <1>8, <1>9, <1>10, <1>11, <1>12, <1>13
  DEF Next, Walks, CallEnds

\* Nobody has called anything when the climb begins.
LEMMA ClimbInit == Init => ClimbInv
<1> SUFFICES ASSUME Init, NEW q \in Requests
             PROVE  Climbs(q) /\ Usable(q)
  BY TypeInit DEF ClimbInv
<1>1. /\ tried[q] = <<>> /\ at[q] = 1 /\ phase[q] = "walking"
      /\ floor[q] \in 1 .. Top /\ Top \in Nat
  BY EscalateAssumption DEF Init, Tiers
<1>. QED  BY <1>1 DEF Climbs, Ascends, Called, Due, Reached, Usable

\* Each usable tier from the context floor up is called once and in order; who
\* gives up has called them all.
THEOREM ClimbsRungByRung == Spec => []RungByRung
<1>1. ClimbInv => RungByRung
  BY DEF ClimbInv, Climbs, Ascends, Called, Due, Reached, RungByRung
<1>. QED  BY <1>1, ClimbInit, ClimbStep, PTL DEF Spec
=============================================================================
