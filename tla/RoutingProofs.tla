----------------------------- MODULE RoutingProofs -----------------------------
(***************************************************************************)
(* Proofs about Routing for any configs, requests and classifier answers.  *)
(* Its configs have passed the search for cycles of ConfigLoadProofs.      *)
(***************************************************************************)
EXTENDS Routing, ConfigLoadProofs

-----------------------------------------------------------------------------
(* The operators.                                                          *)

\* First of a nonempty set is its least element.
LEMMA FirstIsLeast ==
  ASSUME NEW S \in SUBSET Nat, S # {}
  PROVE  First(S) \in S /\ \A j \in S : First(S) <= j
BY LeastNatural DEF First

LEMMA ConfigTyped ==
  ASSUME NEW c \in Configs
  PROVE  /\ Len(c.tiers) \in Nat /\ DOMAIN c.tiers = 1 .. Len(c.tiers)
         /\ \A i \in DOMAIN c.tiers : /\ c.tiers[i].name \in STRING
                                      /\ c.tiers[i].cap \in Nat \union {Uncapped}
         /\ \A n \in DOMAIN c.profiles : \A k \in DOMAIN c.profiles[n].rules :
               c.profiles[n].rules[k].to \in STRING /\ k \in Nat
<1>. DEFINE T == [name : STRING, label : STRING, cap : Nat \union {Uncapped}]
            R == [when : SUBSET STRING, to : STRING]
<1>1. c.tiers \in Seq(T) /\ \A n \in DOMAIN c.profiles : c.profiles[n].rules \in Seq(R)
  BY RoutingAssumption DEF ConfigOK
<1>0. /\ \A t \in T : t.name \in STRING /\ t.cap \in Nat \union {Uncapped}
      /\ \A r \in R : r.to \in STRING
  OBVIOUS
<1>. HIDE DEF T, R
<1>2. ASSUME NEW i \in DOMAIN c.tiers
      PROVE  c.tiers[i].name \in STRING /\ c.tiers[i].cap \in Nat \union {Uncapped}
  <2>1. c.tiers[i] \in T
    BY <1>1, <1>2
  <2>. QED  BY <1>0, <2>1
<1>3. ASSUME NEW n \in DOMAIN c.profiles, NEW k \in DOMAIN c.profiles[n].rules
      PROVE  c.profiles[n].rules[k].to \in STRING /\ k \in Nat
  <2>1. c.profiles[n].rules \in Seq(R)
    BY <1>1, <1>3
  <2>2. c.profiles[n].rules[k] \in R /\ k \in Nat
    BY <2>1, <1>3
  <2>. QED  BY <1>0, <2>2
<1>4. Len(c.tiers) \in Nat /\ DOMAIN c.tiers = 1 .. Len(c.tiers)
  BY <1>1
<1>. QED  BY <1>2, <1>3, <1>4

LEMMA PositionInLadder ==
  ASSUME NEW c \in Configs, NEW name \in TierNames(c)
  PROVE  /\ Position(c, name) \in DOMAIN c.tiers
         /\ c.tiers[Position(c, name)].name = name
         /\ \A j \in DOMAIN c.tiers : c.tiers[j].name = name => Position(c, name) <= j
<1>. DEFINE S == {i \in DOMAIN c.tiers : c.tiers[i].name = name}
<1>1. S \in SUBSET Nat /\ S # {}
  BY ConfigTyped DEF TierNames
<1>2. First(S) \in S /\ \A j \in S : First(S) <= j
  BY <1>1, FirstIsLeast
<1>. QED  BY <1>2 DEF Position

LEMMA CeilingInLadder ==
  ASSUME NEW c \in Configs, TierNames(c) # {}, NEW p
  PROVE  Ceiling(c, p) \in DOMAIN c.tiers /\ Ceiling(c, p) >= 1
BY ConfigTyped, PositionInLadder DEF Ceiling, TierNames

\* Context-window gating never goes down, never above top, passes over no tier
\* that fits, and settles on one that does not only when none is left.
LEMMA MinTierGates ==
  ASSUME NEW c \in Configs, NEW top \in DOMAIN c.tiers, NEW start \in 1 .. top, NEW tokens \in Nat
  PROVE  LET m == MinTier(c, top, tokens, start)
         IN  /\ m \in start .. top /\ m \in DOMAIN c.tiers
             /\ \A j \in start .. m - 1 : ~Fits(c.tiers[j], tokens)
             /\ Fits(c.tiers[m], tokens) \/ \A j \in start .. top : ~Fits(c.tiers[j], tokens)
<1>. DEFINE S == {i \in start .. top : Fits(c.tiers[i], tokens)}
            m == MinTier(c, top, tokens, start)
<1>1. top \in Nat /\ start \in Nat /\ start <= top /\ \A i \in start .. top : i \in DOMAIN c.tiers
  BY ConfigTyped
<1>2. CASE S = {}
  BY <1>1, <1>2 DEF MinTier
<1>3. CASE S # {}
  <2>1. First(S) \in S /\ \A j \in S : First(S) <= j
    BY <1>1, <1>3, FirstIsLeast
  <2>2. m = First(S)
    BY <1>3 DEF MinTier
  <2>3. ASSUME NEW j \in start .. m - 1, Fits(c.tiers[j], tokens) PROVE FALSE
    <3>1. m \in start .. top
      BY <2>1, <2>2
    <3>2. j \in Int /\ m \in Int /\ start <= j /\ j < m /\ m <= top
      BY <1>1, <2>3, <3>1
    <3>. HIDE DEF m
    <3>3. j \in start .. top
      BY <1>1, <3>2
    <3>4. j \in S
      BY <2>3, <3>3
    <3>. QED  BY <2>1, <2>2, <3>1, <3>2, <3>4, <1>1
  <2>. QED  BY <1>1, <2>1, <2>2, <2>3
<1>. QED  BY <1>2, <1>3

LEMMA LabelTierInReach ==
  ASSUME NEW c \in Configs, NEW top \in DOMAIN c.tiers, NEW label
  PROVE  LabelTier(c, top, label) \in 1 .. top /\ Lifted(top, LabelTier(c, top, label)) \in 1 .. top
<1>1. top \in Nat /\ top >= 1
  BY ConfigTyped
<1>2. ASSUME NEW S \in SUBSET (1 .. top), S # {} PROVE First(S) \in 1 .. top
  <2>1. S \in SUBSET Nat
    BY <1>1
  <2>. QED  BY <2>1, <1>2, FirstIsLeast
<1>3. (top \div 2) + 1 \in 1 .. top
  BY <1>1
<1>4. LabelTier(c, top, label) \in 1 .. top
  BY <1>2, <1>3 DEF LabelTier
<1>. QED  BY <1>1, <1>4 DEF Lifted

LEMMA TargetInLadder ==
  ASSUME NEW c \in Configs, NEW n \in DOMAIN c.profiles, c.profiles[n].mode # "reply"
  PROVE  Target(c, c.profiles[n]) \in DOMAIN c.tiers /\ TierNames(c) # {}
<1>1. c.profiles[n].classifier \in TierNames(c)
  BY RoutingAssumption DEF ConfigOK, Validated
<1>. QED  BY <1>1, PositionInLadder DEF Target

\* The profile route finds is one of the config.
LEMMA EntryFound ==
  ASSUME HasProfile(live, req.profile)
  PROVE  \E n \in DOMAIN live.profiles : Entry = live.profiles[n]
BY DEF HasProfile, Entry, Profile

-----------------------------------------------------------------------------
\* While a classifier is asked, its profile and tier are those of the snapshot.
AskerKnown ==
    stage \in {"asked", "resolved"} =>
        /\ Current \in DOMAIN hop.profiles
        /\ hop.profiles[Current].classifier \in TierNames(hop)

TypedInv == TypeOK /\ AskerKnown

LEMMA AskerLadder ==
  ASSUME TypedInv, stage = "asked"
  PROVE  /\ hop \in Configs /\ TierNames(hop) # {}
         /\ Ceiling(hop, Asker) \in DOMAIN hop.tiers /\ Ceiling(hop, Asker) >= 1
         /\ \A k \in DOMAIN Asker.rules : k \in Nat /\ Asker.rules[k].to \in STRING
<1>1. hop \in Configs /\ TierNames(hop) # {} /\ Current \in DOMAIN hop.profiles
  BY DEF TypedInv, TypeOK, AskerKnown
<1>. QED  BY <1>1, CeilingInLadder, ConfigTyped DEF Asker

\* The rule that decides is an eligible one.
LEMMA DecisionEligible ==
  ASSUME TypedInv, NEW a, Decided(a)
  PROVE  \E k \in DOMAIN Asker.rules : /\ Decision(a) = Asker.rules[k].to /\ ~Cyclic(k)
                                       /\ Decision(a) \in STRING
<1>1. stage = "asked" /\ Eligible(a) # {}
  BY DEF Decided
<1>2. Eligible(a) \in SUBSET Nat
  BY <1>1, AskerLadder DEF Eligible
<1>3. First(Eligible(a)) \in Eligible(a)
  BY <1>1, <1>2, FirstIsLeast
<1>. QED  BY <1>1, <1>3, AskerLadder DEF Eligible, Decision

\* Where each mode, bypass, label and rule may send the request.
LEMMA DispatchChoice ==
  ASSUME TypedInv, RouteDispatch
  PROVE  LET t == Target(live, Entry)
             i == MinTier(live, Len(live.tiers), req.tokens, t)
         IN  /\ tier' = live.tiers[i].name /\ t \in DOMAIN live.tiers
             /\ Len(live.tiers) \in DOMAIN live.tiers /\ t \in 1 .. Len(live.tiers)
<1>1. live \in Configs
  BY DEF TypedInv, TypeOK
<1>2. PICK n \in DOMAIN live.profiles : Entry = live.profiles[n]
  BY EntryFound DEF RouteDispatch, Passes, Enters
<1>3. Entry.mode = "dispatch"
  BY DEF RouteDispatch, Passes, Enters, Entry
<1>4. Target(live, Entry) \in DOMAIN live.tiers
  BY <1>1, <1>2, <1>3, TargetInLadder
<1>5. tier' = live.tiers[MinTier(live, Len(live.tiers), req.tokens, Target(live, Entry))].name
  BY DEF RouteDispatch, Choose, Entry
<1>. QED  BY <1>1, <1>4, <1>5, ConfigTyped

LEMMA BypassChoice ==
  ASSUME TypedInv, HopBypass
  PROVE  \E top, s : /\ top = Ceiling(live, live.profiles[Current])
                     /\ top \in DOMAIN live.tiers /\ s \in 1 .. top
                     /\ tier' = live.tiers[MinTier(live, top, req.tokens, s)].name
<1>. DEFINE p == live.profiles[Current]
            top == Ceiling(live, p)
            i == Position(live, p.classifier)
            s == IF i <= top THEN i ELSE 1
<1>1. live \in Configs /\ p.classifier \in TierNames(live)
  BY DEF TypedInv, TypeOK, HopBypass, Arrives
<1>2. top \in DOMAIN live.tiers /\ top >= 1 /\ i \in DOMAIN live.tiers
  BY <1>1, CeilingInLadder, PositionInLadder
<1>3. s \in 1 .. top
  BY <1>1, <1>2, ConfigTyped
<1>4. tier' = live.tiers[MinTier(live, top, req.tokens, s)].name
  BY DEF HopBypass, Choose
<1>. QED  BY <1>2, <1>3, <1>4

LEMMA LabelChoice ==
  ASSUME TypedInv, NEW a, Label(a)
  PROVE  \E top, s : /\ top = Ceiling(hop, Asker)
                     /\ top \in DOMAIN hop.tiers /\ s \in 1 .. top
                     /\ tier' = hop.tiers[MinTier(hop, top, req.tokens, s)].name
<1>. DEFINE top == Ceiling(hop, Asker)
            s == Lifted(top, LabelTier(hop, top, a.label))
<1>1. stage = "asked"
  BY DEF Label
<1>2. hop \in Configs /\ top \in DOMAIN hop.tiers
  BY <1>1, AskerLadder
<1>3. s \in 1 .. top
  BY <1>2, LabelTierInReach
<1>4. tier' = hop.tiers[MinTier(hop, top, req.tokens, s)].name
  BY DEF Label, Choose
<1>. QED  BY <1>2, <1>3, <1>4

LEMMA RuleChoice ==
  ASSUME TypedInv, NEW a, RuleTier(a)
  PROVE  \E top, i : /\ top = Ceiling(hop, Asker) /\ top \in DOMAIN hop.tiers
                     /\ i \in DOMAIN hop.tiers
                     /\ hop.tiers[i].name = Resolved(hop, Decision(a))
                     /\ \/ /\ i \in 1 .. top
                           /\ tier' = hop.tiers[MinTier(hop, top, req.tokens, i)].name
                        \/ i > top /\ tier' = hop.tiers[i].name
<1>. DEFINE top == Ceiling(hop, Asker)
            i == Position(hop, Resolved(hop, Decision(a)))
<1>1. stage = "asked" /\ Resolved(hop, Decision(a)) \in TierNames(hop)
  BY DEF RuleTier, Decided
<1>2. hop \in Configs /\ top \in DOMAIN hop.tiers
  BY <1>1, AskerLadder
<1>3. i \in DOMAIN hop.tiers /\ hop.tiers[i].name = Resolved(hop, Decision(a))
  BY <1>1, <1>2, PositionInLadder
<1>4. tier' = hop.tiers[IF i <= top THEN MinTier(hop, top, req.tokens, i) ELSE i].name
  BY DEF RuleTier, Choose
<1>5. i \in 1 .. top \/ i > top
  BY <1>2, <1>3, ConfigTyped
<1>. QED  BY <1>2, <1>3, <1>4, <1>5, ConfigTyped

\* Every tier gating settles on is one of the ladder.
LEMMA GatedName ==
  ASSUME NEW c \in Configs, NEW top \in DOMAIN c.tiers, NEW s \in 1 .. top, req \in Requests
  PROVE  c.tiers[MinTier(c, top, req.tokens, s)].name \in STRING
<1>1. req.tokens \in Nat
  BY RoutingAssumption
<1>. QED  BY <1>1, MinTierGates, ConfigTyped

-----------------------------------------------------------------------------
LEMMA TypedInit == Init => TypedInv
<1>1. <<>> \in Seq(STRING)
  OBVIOUS
<1>. QED  BY <1>1 DEF Init, TypedInv, TypeOK, AskerKnown, Stages, Ended

LEMMA TypedRoutes == ASSUME TypedInv, Routes PROVE TypedInv'
<1>. USE DEF TypedInv, TypeOK, AskerKnown, Stages, Ended, Fail
<1>1. CASE RouteUnknown \/ RouteReply \/ RouteRejected \/ Snapshot
  BY <1>1 DEF RouteUnknown, RouteReply, RouteRejected, Snapshot
<1>2. CASE RouteDispatch
  <2>1. tier' \in STRING
    BY <1>2, DispatchChoice, GatedName
  <2>. QED  BY <1>2, <2>1 DEF RouteDispatch, Passes, Enters
<1>3. CASE RouteEscalate
  <2>1. PICK n \in DOMAIN live.profiles : Entry = live.profiles[n]
    BY <1>3, EntryFound DEF RouteEscalate, Passes, Enters
  <2>2. Entry.mode = "escalate"
    BY <1>3 DEF RouteEscalate, Passes, Enters, Entry
  <2>3. live.tiers[Target(live, Entry)].name \in STRING
    BY <2>1, <2>2, TargetInLadder, ConfigTyped
  <2>4. tier' \in STRING \union {"none"}
    BY <1>3, <2>3 DEF RouteEscalate, Choose, Entry
  <2>. QED  BY <1>3, <2>4 DEF RouteEscalate, Passes, Enters
<1>4. CASE RouteClassify
  <2>1. req.profile \in STRING
    BY RoutingAssumption
  <2>2. <<req.profile>> \in Seq(STRING) /\ <<req.profile>> # <<>>
    BY <2>1
  <2>. QED  BY <1>4, <2>2 DEF RouteClassify
<1>. QED  BY <1>1, <1>2, <1>3, <1>4 DEF Routes

LEMMA TypedHops == ASSUME TypedInv, Hops PROVE TypedInv'
<1>. USE DEF TypedInv, TypeOK, AskerKnown, Stages, Ended, Fail
<1>1. CASE HopFails
  BY <1>1 DEF HopFails
<1>2. CASE HopBypass
  <2>1. tier' \in STRING
    BY <1>2, BypassChoice, GatedName
  <2>. QED  BY <1>2, <2>1 DEF HopBypass, Arrives, Current
<1>3. CASE HopAsks
  BY <1>3 DEF HopAsks, Arrives, Current
<1>4. CASE ClientFails
  BY <1>4 DEF ClientFails, Arrives
<1>. QED  BY <1>1, <1>2, <1>3, <1>4 DEF Hops

LEMMA TypedAnswer == ASSUME TypedInv, NEW a, Answer(a) PROVE TypedInv'
<1>. USE DEF TypedInv, TypeOK, AskerKnown, Stages, Ended, Fail
<1>1. CASE Label(a)
  <2>1. tier' \in STRING
    BY <1>1, LabelChoice, GatedName
  <2>. QED  BY <1>1, <2>1 DEF Label, Current
<1>2. CASE RuleTier(a)
  <2>1. tier' \in STRING
    BY <1>2, RuleChoice, GatedName, ConfigTyped
  <2>. QED  BY <1>2, <2>1 DEF RuleTier, Decided, Current
<1>3. CASE Cascade(a)
  <2>1. Decision(a) \in STRING
    BY <1>3, DecisionEligible DEF Cascade
  <2>2. Append(visited, Decision(a)) \in Seq(STRING) /\ Append(visited, Decision(a)) # <<>>
    BY <2>1
  <2>. QED  BY <1>3, <2>2 DEF Cascade
<1>4. CASE RuleUnknown(a)
  BY <1>4 DEF RuleUnknown
<1>. QED  BY <1>1, <1>2, <1>3, <1>4 DEF Answer

LEMMA TypedStep == TypedInv /\ [Next]_vars => TypedInv'
<1> SUFFICES ASSUME TypedInv, [Next]_vars PROVE TypedInv'
  OBVIOUS
<1>1. CASE DispatchResolved
  BY <1>1 DEF DispatchResolved, Fail, TypedInv, TypeOK, AskerKnown, Stages, Ended
<1>2. ASSUME NEW c \in Configs, Reload(c) PROVE TypedInv'
  BY <1>2 DEF Reload, TypedInv, TypeOK, AskerKnown, Current
<1>3. CASE UNCHANGED vars
  BY <1>3 DEF vars, TypedInv, TypeOK, AskerKnown, Current
<1>. QED  BY <1>1, <1>2, <1>3, TypedRoutes, TypedHops, TypedAnswer DEF Next, Progress

LEMMA TypedAlways == Spec => []TypedInv
BY TypedInit, TypedStep, PTL DEF Spec

\* The request, its snapshots and its choices keep their types, for any configs.
THEOREM TypeCorrect == Spec => []TypeOK
BY TypedAlways, PTL DEF TypedInv

-----------------------------------------------------------------------------
\* However the reloads fall, a cascade never comes back to a profile: the only
\* step that extends the chain takes a rule that is not cyclic.
THEOREM CascadeVisitsOnce == Spec => []NoProfileTwice
<1>1. Init => NoProfileTwice
  BY DEF Init, NoProfileTwice
<1>2. TypedInv /\ NoProfileTwice /\ [Next]_vars => NoProfileTwice'
  <2> SUFFICES ASSUME TypedInv, NoProfileTwice, [Next]_vars PROVE NoProfileTwice'
    OBVIOUS
  <2>. USE DEF NoProfileTwice
  <2>1. ASSUME NEW a, Cascade(a) PROVE NoProfileTwice'
    <3>1. ~Visits(Decision(a)) /\ visited \in Seq(STRING)
      BY <2>1, DecisionEligible DEF Cascade, Cyclic, TypedInv, TypeOK
    <3>2. visited' = Append(visited, Decision(a))
      BY <2>1 DEF Cascade
    <3>. QED  BY <3>1, <3>2 DEF Visits
  <2>2. CASE RouteClassify
    BY <2>2 DEF RouteClassify
  <2>3. ASSUME UNCHANGED visited PROVE NoProfileTwice'
    BY <2>3
  <2>4. CASE Routes
    BY <2>2, <2>3, <2>4 DEF Routes, RouteUnknown, RouteReply, RouteRejected, RouteDispatch,
                            RouteEscalate, Snapshot
  <2>5. CASE Hops
    BY <2>3, <2>5 DEF Hops, HopFails, HopBypass, HopAsks, ClientFails
  <2>6. ASSUME NEW a, Answer(a) PROVE NoProfileTwice'
    BY <2>1, <2>3, <2>6 DEF Answer, Label, RuleTier, RuleUnknown
  <2>7. CASE DispatchResolved \/ (\E c \in Configs : Reload(c)) \/ UNCHANGED vars
    BY <2>3, <2>7 DEF DispatchResolved, Reload, vars
  <2>. QED  BY <2>4, <2>5, <2>6, <2>7 DEF Next, Progress
<1>. QED  BY <1>1, <1>2, TypedAlways, PTL DEF Spec

-----------------------------------------------------------------------------
(* A bound on the steps a request takes, for what RouteEnds states of a     *)
(* fair scheduler.                                                          *)

ProfileNames == UNION {DOMAIN c.profiles : c \in Configs}
Known == ProfileNames \union {req.profile}

\* The profiles a cascade may still visit, whichever config is live.
Unvisited == Cardinality(Known) - Len(visited)

\* At most so many steps of a request are left at a stage, when its cascade may
\* still visit n profiles: two for each of them, and those to come before.
StepsFrom(st, n) ==
    CASE st = "start"    -> 2 * n + 5
      [] st = "snapshot" -> 2 * n + 4
      [] st = "hop"      -> 2 * n + 3
      [] st = "asked"    -> 2 * n + 2
      [] st = "resolved" -> 1
      [] st \in Ended    -> 0
StepsLeft == StepsFrom(stage, Unvisited)

VisitsKnown ==
    /\ visited \in Seq(Known)
    /\ stage = "start" => visited = <<>>

\* Only a classify request and its cascades extend the chain, by one profile
\* that its configs know.
LEMMA VisitsKnownStep == TypedInv /\ VisitsKnown /\ [Next]_vars => VisitsKnown'
<1> SUFFICES ASSUME TypedInv, VisitsKnown, [Next]_vars PROVE VisitsKnown'
  OBVIOUS
<1>1. req' = req /\ Known' = Known
  <2>1. req' = req
    BY DEF Next, Progress, Routes, RouteUnknown, RouteReply, RouteRejected, RouteDispatch,
           RouteEscalate, RouteClassify, Snapshot, Hops, HopFails, HopBypass, HopAsks,
           ClientFails, Answer, Label, Cascade, RuleTier, RuleUnknown, DispatchResolved,
           Reload, vars
  <2>. QED  BY <2>1 DEF Known
<1>2. ASSUME NEW a, Cascade(a) PROVE VisitsKnown'
  <2>1. hop \in Configs /\ Decision(a) \in DOMAIN hop.profiles
    BY <1>2 DEF Cascade, IsProfile, TypedInv, TypeOK
  <2>2. Decision(a) \in Known
    BY <2>1 DEF Known, ProfileNames
  <2>3. Append(visited, Decision(a)) \in Seq(Known)
    BY <2>2 DEF VisitsKnown
  <2>. QED  BY <1>1, <1>2, <2>3 DEF VisitsKnown, Cascade
<1>3. CASE RouteClassify
  <2>1. req.profile \in Known
    BY DEF Known
  <2>2. <<req.profile>> \in Seq(Known)
    BY <2>1
  <2>. QED  BY <1>1, <1>3, <2>2 DEF VisitsKnown, RouteClassify
<1>4. ASSUME UNCHANGED visited, stage' # "start" \/ stage' = stage PROVE VisitsKnown'
  BY <1>1, <1>4 DEF VisitsKnown
<1>5. CASE Routes
  BY <1>3, <1>4, <1>5 DEF Routes, RouteUnknown, RouteReply, RouteRejected, RouteDispatch,
                          RouteEscalate, Snapshot, Fail
<1>6. CASE Hops
  BY <1>4, <1>6 DEF Hops, HopFails, HopBypass, HopAsks, ClientFails, Fail
<1>7. ASSUME NEW a, Answer(a) PROVE VisitsKnown'
  BY <1>2, <1>4, <1>7 DEF Answer, Label, RuleTier, RuleUnknown, Fail
<1>8. CASE DispatchResolved \/ (\E c \in Configs : Reload(c)) \/ UNCHANGED vars
  BY <1>4, <1>8 DEF DispatchResolved, Reload, Fail, vars
<1>. QED  BY <1>5, <1>6, <1>7, <1>8 DEF Next, Progress

\* A chain that visits no profile twice is no longer than there are profiles.
LEMMA UnvisitedIsNat ==
  ASSUME IsFiniteSet(ProfileNames), VisitsKnown, NoProfileTwice
  PROVE  Unvisited \in Nat
<1>1. IsFiniteSet(Known)
  BY FS_AddElement DEF Known
<1>. DEFINE n == Len(visited)
<1>3. n \in Nat /\ visited \in [1 .. n -> Known] /\ DOMAIN visited = 1 .. n
  BY DEF VisitsKnown
<1>. HIDE DEF n
<1>4. IsFiniteSet(1 .. n) /\ Cardinality(1 .. n) = n
  <2>1. IsFiniteSet(1 .. n) /\ Cardinality(1 .. n) = IF 1 > n THEN 0 ELSE n - 1 + 1
    BY <1>3, FS_Interval
  <2>. QED  BY <1>3, <2>1
<1>5. ~(Cardinality(Known) < Cardinality(1 .. n))
  <2>1. SUFFICES ASSUME Cardinality(Known) < Cardinality(1 .. n) PROVE FALSE
    OBVIOUS
  <2>2. \E i, j \in 1 .. n : i # j /\ visited[i] = visited[j]
    BY <1>1, <1>3, <1>4, <2>1, FS_PigeonHole
  <2>. QED  BY <1>3, <2>2 DEF NoProfileTwice
<1>6. Cardinality(Known) \in Nat
  BY <1>1, FS_CardinalityType
<1>. QED  BY <1>3, <1>4, <1>5, <1>6 DEF Unvisited, n

\* The alternatives of StepsFrom exclude each other.
LEMMA StepsFromIs ==
  ASSUME NEW st, NEW n
  PROVE  /\ st = "start" => StepsFrom(st, n) = 2 * n + 5
         /\ st = "snapshot" => StepsFrom(st, n) = 2 * n + 4
         /\ st = "hop" => StepsFrom(st, n) = 2 * n + 3
         /\ st = "asked" => StepsFrom(st, n) = 2 * n + 2
         /\ st = "resolved" => StepsFrom(st, n) = 1
         /\ st \in Ended => StepsFrom(st, n) = 0
<1>1. CASE st = "start"
  BY <1>1 DEF StepsFrom, Ended
<1>2. CASE st = "snapshot"
  BY <1>2 DEF StepsFrom, Ended
<1>3. CASE st = "hop"
  BY <1>3 DEF StepsFrom, Ended
<1>4. CASE st = "asked"
  BY <1>4 DEF StepsFrom, Ended
<1>5. CASE st = "resolved"
  BY <1>5 DEF StepsFrom, Ended
<1>6. CASE st \in Ended
  BY <1>6 DEF StepsFrom, Ended
<1>. QED  BY <1>1, <1>2, <1>3, <1>4, <1>5, <1>6

\* Every step of the request brings its end nearer and no reload puts it off.
LEMMA StepsLeftStep ==
  ASSUME IsFiniteSet(ProfileNames), VisitsKnown, Unvisited \in Nat, Unvisited' \in Nat,
         [Next]_vars
  PROVE  /\ Progress => StepsLeft' < StepsLeft
         /\ ~Progress => StepsLeft' = StepsLeft
<1>0. req' = req /\ Known' = Known
  <2>1. req' = req
    BY DEF Next, Progress, Routes, RouteUnknown, RouteReply, RouteRejected, RouteDispatch,
           RouteEscalate, RouteClassify, Snapshot, Hops, HopFails, HopBypass, HopAsks,
           ClientFails, Answer, Label, Cascade, RuleTier, RuleUnknown, DispatchResolved,
           Reload, vars
  <2>. QED  BY <2>1 DEF Known
<1>1. ASSUME Len(visited') = Len(visited) + 1 PROVE Unvisited' = Unvisited - 1
  <2>1. Len(visited) \in Nat
    BY DEF VisitsKnown
  <2>2. IsFiniteSet(Known)
    BY FS_AddElement DEF Known
  <2>3. Cardinality(Known) \in Nat
    BY <2>2, FS_CardinalityType
  <2>4. Unvisited' = Cardinality(Known) - Len(visited')
    BY <1>0 DEF Unvisited
  <2>. QED  BY <1>1, <2>1, <2>3, <2>4 DEF Unvisited
<1>2. ASSUME UNCHANGED visited PROVE Unvisited' = Unvisited
  BY <1>0, <1>2 DEF Unvisited
<1>3. ASSUME NEW a, Answer(a) PROVE StepsLeft' < StepsLeft
  <2>1. CASE Cascade(a)
    <3>1. stage = "asked" /\ stage' = "hop"
      BY <2>1 DEF Cascade, Decided
    <3>2. Len(visited') = Len(visited) + 1
      BY <2>1 DEF Cascade, VisitsKnown
    <3>. QED  BY <1>1, <3>1, <3>2, StepsFromIs DEF StepsLeft
  <2>2. CASE Label(a) \/ RuleTier(a) \/ RuleUnknown(a)
    <3>1. stage = "asked" /\ stage' \in {"resolved"} \union Ended /\ UNCHANGED visited
      BY <2>2 DEF Label, RuleTier, RuleUnknown, Decided, Fail, Ended
    <3>. QED  BY <1>2, <3>1, StepsFromIs DEF StepsLeft
  <2>. QED  BY <1>3, <2>1, <2>2 DEF Answer
<1>4. ASSUME Routes PROVE StepsLeft' < StepsLeft
  <2>1. CASE RouteClassify
    <3>1. stage = "start" /\ stage' \in {"hop", "snapshot"} /\ visited = <<>>
          /\ visited' = <<req.profile>>
      BY <2>1 DEF RouteClassify, Passes, Enters, VisitsKnown
    <3>2. Len(visited') = Len(visited) + 1
      BY <3>1
    <3>. QED  BY <1>1, <3>1, <3>2, StepsFromIs DEF StepsLeft
  <2>2. CASE Snapshot
    <3>1. stage = "snapshot" /\ stage' = "hop" /\ UNCHANGED visited
      BY <2>2 DEF Snapshot
    <3>. QED  BY <1>2, <3>1, StepsFromIs DEF StepsLeft
  <2>3. CASE RouteUnknown \/ RouteReply \/ RouteRejected \/ RouteDispatch \/ RouteEscalate
    <3>1. stage = "start" /\ stage' \in Ended
      BY <2>3 DEF RouteUnknown, RouteReply, RouteRejected, RouteDispatch, RouteEscalate,
                  Passes, Enters, Fail, Ended
    <3>. QED  BY <3>1, StepsFromIs DEF StepsLeft
  <2>. QED  BY <1>4, <2>1, <2>2, <2>3 DEF Routes
<1>5. ASSUME Hops PROVE StepsLeft' < StepsLeft
  <2>1. stage = "hop" /\ stage' \in {"asked", "resolved"} \union Ended /\ UNCHANGED visited
    BY <1>5 DEF Hops, HopFails, HopBypass, HopAsks, ClientFails, Arrives, Fail, Ended
  <2>. QED  BY <1>2, <2>1, StepsFromIs DEF StepsLeft
<1>6. ASSUME DispatchResolved PROVE StepsLeft' < StepsLeft
  <2>1. stage = "resolved" /\ stage' \in Ended
    BY <1>6 DEF DispatchResolved, Fail, Ended
  <2>. QED  BY <2>1, StepsFromIs DEF StepsLeft
<1>7. ASSUME ~Progress PROVE StepsLeft' = StepsLeft
  <2>1. stage' = stage /\ UNCHANGED visited
    BY <1>7 DEF Next, Reload, vars
  <2>. QED  BY <1>2, <2>1 DEF StepsLeft
<1>. QED  BY <1>3, <1>4, <1>5, <1>6, <1>7 DEF Progress

\* A request takes at most StepsLeft steps, however many reloads turn the
\* cascades around underneath it, as long as the configs that may go live name
\* finitely many profiles between them: every step of its own brings StepsLeft
\* down and no reload puts it up.
THEOREM RouteIsBounded ==
  ASSUME IsFiniteSet(ProfileNames)
  PROVE  Spec => /\ [](StepsLeft \in Nat)
                 /\ [][/\ Progress => StepsLeft' < StepsLeft
                       /\ ~Progress => StepsLeft' = StepsLeft]_vars
<1>1. Init => VisitsKnown
  <2>1. <<>> \in Seq(Known)
    OBVIOUS
  <2>. QED  BY <2>1 DEF Init, VisitsKnown
<1>2. Spec => []VisitsKnown
  BY <1>1, VisitsKnownStep, TypedAlways, PTL DEF Spec
<1>3. VisitsKnown /\ NoProfileTwice => Unvisited \in Nat
  BY UnvisitedIsNat
<1>4. Spec => [](Unvisited \in Nat)
  BY <1>2, <1>3, CascadeVisitsOnce, PTL
<1>5. TypedInv /\ Unvisited \in Nat => StepsLeft \in Nat
  BY StepsFromIs DEF StepsLeft, TypedInv, TypeOK, Stages
<1>6. VisitsKnown /\ Unvisited \in Nat /\ (Unvisited \in Nat)' /\ [Next]_vars
      => [/\ Progress => StepsLeft' < StepsLeft
          /\ ~Progress => StepsLeft' = StepsLeft]_vars
  BY StepsLeftStep
<1>. QED  BY <1>2, <1>4, <1>5, <1>6, TypedAlways, PTL DEF Spec

-----------------------------------------------------------------------------
(* Without a reload, every snapshot is the live config and the cascade is   *)
(* a path in it.                                                            *)

InCascade == {"snapshot", "hop", "asked", "resolved"}

\* Each profile visited cascades to the next, from the one requested on.
Path ==
    /\ stage = "start" => visited = <<>>
    /\ visited # <<>> => visited[1] = req.profile
    /\ \A i \in 1 .. Len(visited) - 1 : Cascades(live.profiles, visited[i], visited[i + 1])

Undisturbed ==
    ~reloaded =>
        /\ Path
        /\ stage \in InCascade => visited # <<>> /\ Entry.mode = "classify"
        /\ stage \in InCascade \union {"dispatched"} => HasProfile(live, req.profile)
        /\ stage \in {"hop", "asked", "resolved"} => disp = live
        /\ stage \in {"asked", "resolved"} => hop = live
        /\ stage = "dispatched" /\ Entry.mode = "classify" =>
              visited # <<>> /\ Current \in DOMAIN live.profiles

LEMMA UndisturbedInit == Init => Undisturbed
BY DEF Init, Undisturbed, Path, InCascade

LEMMA UndisturbedStep == TypedInv /\ Undisturbed /\ [Next]_vars => Undisturbed'
<1> SUFFICES ASSUME TypedInv, Undisturbed, [Next]_vars PROVE Undisturbed'
  OBVIOUS
<1>. USE DEF Undisturbed, InCascade, Entry
<1>1. CASE Routes
  <2>1. CASE RouteUnknown \/ RouteReply \/ RouteRejected \/ RouteDispatch \/ RouteEscalate
    BY <2>1 DEF RouteUnknown, RouteReply, RouteRejected, RouteDispatch, RouteEscalate,
                Fail, Enters, Passes, Path
  <2>2. CASE RouteClassify
    <3>1. visited' = <<req.profile>> /\ Len(visited') = 1
      BY <2>2 DEF RouteClassify
    <3>. QED  BY <2>2, <3>1 DEF RouteClassify, Passes, Enters, Path
  <2>3. CASE Snapshot
    BY <2>3 DEF Snapshot, Path
  <2>. QED  BY <1>1, <2>1, <2>2, <2>3 DEF Routes
<1>2. CASE Hops
  BY <1>2 DEF Hops, HopFails, HopBypass, HopAsks, ClientFails, Arrives, Fail, Path
<1>3. ASSUME NEW a, Cascade(a) PROVE Undisturbed'
  <2>1. CASE reloaded
    BY <1>3, <2>1 DEF Cascade
  <2>2. CASE ~reloaded
    <3>1. stage = "asked" /\ hop = live /\ visited # <<>> /\ visited \in Seq(STRING)
      BY <1>3, <2>2 DEF Cascade, Decided, TypedInv, TypeOK
    <3>2. Cascades(live.profiles, Current, Decision(a))
      BY <1>3, <3>1, DecisionEligible DEF Cascade, IsProfile, Cascades, Asker
    <3>3. visited' = Append(visited, Decision(a)) /\ live' = live /\ req' = req
          /\ stage' = "hop" /\ disp' = disp
      BY <1>3 DEF Cascade
    <3>4. Path'
      <4>1. ASSUME NEW i \in 1 .. Len(visited') - 1
            PROVE  Cascades(live.profiles, visited'[i], visited'[i + 1])
        BY <2>2, <3>1, <3>2, <3>3 DEF Path, Current
      <4>. QED  BY <2>2, <3>1, <3>3, <4>1 DEF Path, Cascades
    <3>5. visited' # <<>>
      BY <3>1, <3>3
    <3>. QED  BY <2>2, <3>1, <3>3, <3>4, <3>5
  <2>. QED  BY <2>1, <2>2
<1>4. ASSUME NEW a, Label(a) \/ RuleTier(a) \/ RuleUnknown(a) PROVE Undisturbed'
  BY <1>4 DEF Label, RuleTier, RuleUnknown, Decided, Fail, Path
<1>5. CASE DispatchResolved
  <2>1. Current \in DOMAIN hop.profiles
    BY <1>5 DEF DispatchResolved, TypedInv, AskerKnown
  <2>. QED  BY <1>5, <2>1 DEF DispatchResolved, Fail, Path, Current
<1>6. CASE (\E c \in Configs : Reload(c)) \/ UNCHANGED vars
  BY <1>6 DEF Reload, vars, Path, Current
<1>. QED  BY <1>1, <1>2, <1>3, <1>4, <1>5, <1>6 DEF Next, Progress, Answer

LEMMA UndisturbedAlways == Spec => []Undisturbed
BY UndisturbedInit, UndisturbedStep, TypedAlways, PTL DEF Spec

-----------------------------------------------------------------------------
(* Context-window gating, end to end.                                      *)

\* Nothing in load enforces it: TierConfig only says "Unique tier name".
UniqueTiers ==
    \A c \in Configs : \A i, j \in DOMAIN c.tiers : c.tiers[i].name = c.tiers[j].name => i = j

\* Tier i fits the request, or no tier from i to top does.
Settles(c, i, top) ==
    \/ Fits(c.tiers[i], req.tokens)
    \/ \A j \in i .. top : ~Fits(c.tiers[j], req.tokens)

\* What holds of the tier between the classifier's answer and the dispatch.
Chosen ==
    stage = "resolved" =>
        \E i \in DOMAIN hop.tiers :
            hop.tiers[i].name = tier /\ Settles(hop, i, Ceiling(hop, Asker))

LEMMA ChosenByGate ==
  ASSUME TypedInv, NEW c \in Configs, NEW top \in DOMAIN c.tiers, NEW s \in 1 .. top
  PROVE  LET i == MinTier(c, top, req.tokens, s)
         IN  i \in DOMAIN c.tiers /\ Settles(c, i, top)
<1>. DEFINE i == MinTier(c, top, req.tokens, s)
<1>1. req.tokens \in Nat /\ top \in Nat
  BY RoutingAssumption, ConfigTyped DEF TypedInv, TypeOK
<1>2. i \in s .. top /\ i \in DOMAIN c.tiers
      /\ (Fits(c.tiers[i], req.tokens) \/ \A j \in s .. top : ~Fits(c.tiers[j], req.tokens))
  BY <1>1, MinTierGates
<1>3. ASSUME NEW j \in i .. top PROVE j \in s .. top
  <2>. HIDE DEF i
  <2>. QED  BY <1>1, <1>2
<1>. QED  BY <1>2, <1>3 DEF Settles

LEMMA ChosenStep == TypedInv /\ Chosen /\ [Next]_vars => Chosen'
<1> SUFFICES ASSUME TypedInv, Chosen, [Next]_vars PROVE Chosen'
  OBVIOUS
<1>. USE DEF Chosen
<1>1. CASE HopBypass
  <2>1. PICK top, s : /\ top = Ceiling(live, live.profiles[Current])
                      /\ top \in DOMAIN live.tiers /\ s \in 1 .. top
                      /\ tier' = live.tiers[MinTier(live, top, req.tokens, s)].name
    BY <1>1, BypassChoice
  <2>. DEFINE i == MinTier(live, top, req.tokens, s)
  <2>2. i \in DOMAIN live.tiers /\ Settles(live, i, top) /\ live.tiers[i].name = tier'
    BY <2>1, ChosenByGate DEF TypedInv, TypeOK
  <2>3. hop' = live /\ req' = req /\ top = Ceiling(hop, Asker)'
    BY <1>1, <2>1 DEF HopBypass, Arrives, Asker, Current, Ceiling, Position, TierNames
  <2>. HIDE DEF i
  <2>. QED  BY <2>2, <2>3 DEF Settles
<1>2. ASSUME NEW a, Label(a) PROVE Chosen'
  <2>1. PICK top, s : /\ top = Ceiling(hop, Asker)
                      /\ top \in DOMAIN hop.tiers /\ s \in 1 .. top
                      /\ tier' = hop.tiers[MinTier(hop, top, req.tokens, s)].name
    BY <1>2, LabelChoice
  <2>. DEFINE i == MinTier(hop, top, req.tokens, s)
  <2>2. i \in DOMAIN hop.tiers /\ Settles(hop, i, top) /\ hop.tiers[i].name = tier'
    BY <2>1, ChosenByGate DEF TypedInv, TypeOK
  <2>3. hop' = hop /\ req' = req /\ top = Ceiling(hop, Asker)'
    BY <1>2, <2>1 DEF Label, Asker, Current, Ceiling, Position, TierNames
  <2>. HIDE DEF i
  <2>. QED  BY <2>2, <2>3 DEF Settles
<1>3. ASSUME NEW a, RuleTier(a) PROVE Chosen'
  <2>1. PICK top, i : /\ top = Ceiling(hop, Asker) /\ top \in DOMAIN hop.tiers
                      /\ i \in DOMAIN hop.tiers
                      /\ \/ /\ i \in 1 .. top
                            /\ tier' = hop.tiers[MinTier(hop, top, req.tokens, i)].name
                         \/ i > top /\ tier' = hop.tiers[i].name
    BY <1>3, RuleChoice
  <2>. DEFINE m == MinTier(hop, top, req.tokens, i)
  <2>2. PICK k \in DOMAIN hop.tiers : Settles(hop, k, top) /\ hop.tiers[k].name = tier'
    <3>1. CASE i \in 1 .. top /\ tier' = hop.tiers[m].name
      <4>1. m \in DOMAIN hop.tiers /\ Settles(hop, m, top)
        BY <2>1, <3>1, ChosenByGate DEF TypedInv, TypeOK
      <4>. QED  BY <3>1, <4>1
    <3>2. CASE i > top /\ tier' = hop.tiers[i].name
      <4>1. i \in Nat /\ top \in Nat
        BY <2>1, ConfigTyped DEF TypedInv, TypeOK
      <4>2. i .. top = {}
        BY <3>2, <4>1
      <4>. QED  BY <2>1, <3>2, <4>2 DEF Settles
    <3>. QED  BY <2>1, <3>1, <3>2
  <2>3. hop' = hop /\ req' = req /\ top = Ceiling(hop, Asker)'
    BY <1>3, <2>1 DEF RuleTier, Asker, Current, Ceiling, Position, TierNames
  <2>. QED  BY <2>2, <2>3 DEF Settles
<1>4. CASE Routes
  BY <1>4 DEF Routes, RouteUnknown, RouteReply, RouteRejected, RouteDispatch, RouteEscalate,
              RouteClassify, Snapshot, Fail
<1>5. CASE HopFails \/ HopAsks \/ ClientFails
  BY <1>5 DEF HopFails, HopAsks, ClientFails, Fail
<1>6. ASSUME NEW a, Cascade(a) \/ RuleUnknown(a) PROVE Chosen'
  BY <1>6 DEF Cascade, RuleUnknown, Fail
<1>7. CASE DispatchResolved
  BY <1>7 DEF DispatchResolved, Fail
<1>8. CASE (\E c \in Configs : Reload(c)) \/ UNCHANGED vars
  BY <1>8 DEF Reload, vars, Settles, Ceiling, Position, TierNames, Asker, Current
<1>. QED  BY <1>1, <1>2, <1>3, <1>4, <1>5, <1>6, <1>7, <1>8 DEF Next, Progress, Hops, Answer

\* One name, one tier.
LEMMA UniquePosition ==
  ASSUME UniqueTiers, NEW c \in Configs, NEW i \in DOMAIN c.tiers
  PROVE  Position(c, c.tiers[i].name) = i
<1>1. c.tiers[i].name \in TierNames(c)
  BY DEF TierNames
<1>. QED  BY <1>1, PositionInLadder DEF UniqueTiers

LEMMA ContextGateStep ==
  UniqueTiers /\ TypedInv /\ Undisturbed /\ Chosen /\ ContextGate /\ [Next]_vars => ContextGate'
<1> SUFFICES ASSUME UniqueTiers, TypedInv, Undisturbed, Chosen, ContextGate, [Next]_vars,
                    stage' = "dispatched", ~reloaded', Entry'.mode # "escalate"
             PROVE  ContextGate'
  BY DEF ContextGate
<1>0. live \in Configs /\ req \in Requests /\ req.tokens \in Nat
  BY RoutingAssumption DEF TypedInv, TypeOK
<1>1. CASE RouteDispatch
  <2>. DEFINE t == Target(live, Entry)
              top == Len(live.tiers)
              i == MinTier(live, top, req.tokens, t)
  <2>1. /\ tier' = live.tiers[i].name /\ t \in DOMAIN live.tiers
        /\ top \in DOMAIN live.tiers /\ t \in 1 .. top
    BY <1>1, DispatchChoice
  <2>2. i \in DOMAIN live.tiers /\ Settles(live, i, top)
    BY <1>0, <2>1, ChosenByGate
  <2>3. Position(live, tier') = i
    BY <1>0, <2>1, <2>2, UniquePosition
  <2>4. live' = live /\ req' = req /\ Entry.mode = "dispatch"
    BY <1>1 DEF RouteDispatch, Passes, Enters, Entry
  <2>. HIDE DEF i
  <2>. QED  BY <2>2, <2>3, <2>4 DEF ContextGate, Settles, Entry
<1>2. CASE DispatchResolved
  <2>1. stage = "resolved" /\ UNCHANGED <<live, req, hop, visited, tier, reloaded>>
    BY <1>2 DEF DispatchResolved
  <2>2. hop = live /\ Entry.mode = "classify"
    BY <2>1 DEF Undisturbed, InCascade
  <2>3. PICK i \in DOMAIN live.tiers :
               live.tiers[i].name = tier /\ Settles(live, i, Ceiling(live, live.profiles[Current]))
    BY <2>1, <2>2 DEF Chosen, Asker
  <2>4. Position(live, tier) = i
    BY <1>0, <2>3, UniquePosition
  <2>. QED  BY <2>1, <2>2, <2>3, <2>4 DEF ContextGate, Settles, Entry, Current
<1>3. CASE RouteEscalate
  BY <1>3 DEF RouteEscalate, Passes, Enters, Entry
<1>4. CASE UNCHANGED vars
  BY <1>4 DEF vars, ContextGate, Entry, Current
<1>. QED
  BY <1>1, <1>2, <1>3, <1>4
  DEF Next, Progress, Routes, RouteUnknown, RouteReply, RouteRejected, RouteClassify, Snapshot,
      Hops, HopFails, HopBypass, HopAsks, ClientFails, Answer, Label, Cascade, RuleTier,
      RuleUnknown, Reload, Fail, Ended

\* When tier names are unique, which load does not check, a request is given a
\* tier too small for it only if none within its reach is large enough.
THEOREM ContextGated ==
  ASSUME UniqueTiers
  PROVE  Spec => []ContextGate
<1>1. Init => Chosen /\ ContextGate
  BY DEF Init, Chosen, ContextGate
<1>2. TypedInv /\ Undisturbed /\ Chosen /\ ContextGate /\ [Next]_vars => ContextGate'
  BY ContextGateStep
<1>. QED  BY <1>1, <1>2, ChosenStep, TypedAlways, UndisturbedAlways, PTL DEF Spec

-----------------------------------------------------------------------------
(* The expert flag, end to end.                                            *)

\* What the classifier chose lies below the ceiling unless a rule names it.
Reached ==
    stage = "resolved" =>
        \/ ~(Position(hop, tier) > Ceiling(hop, Asker))
        \/ \E k \in DOMAIN Asker.rules : tier = Resolved(hop, Asker.rules[k].to)

LEMMA PositionAtMost ==
  ASSUME NEW c \in Configs, NEW i \in DOMAIN c.tiers
  PROVE  /\ Position(c, c.tiers[i].name) \in Nat /\ i \in Nat
         /\ Position(c, c.tiers[i].name) <= i
<1>1. c.tiers[i].name \in TierNames(c)
  BY DEF TierNames
<1>. QED  BY <1>1, PositionInLadder, ConfigTyped

LEMMA GatedBelow ==
  ASSUME TypedInv, NEW c \in Configs, NEW top \in DOMAIN c.tiers, NEW s \in 1 .. top
  PROVE  ~(Position(c, c.tiers[MinTier(c, top, req.tokens, s)].name) > top)
<1>. DEFINE i == MinTier(c, top, req.tokens, s)
<1>1. req.tokens \in Nat /\ top \in Nat
  BY RoutingAssumption, ConfigTyped DEF TypedInv, TypeOK
<1>2. i \in s .. top /\ i \in DOMAIN c.tiers
  BY <1>1, MinTierGates
<1>. HIDE DEF i
<1>3. Position(c, c.tiers[i].name) <= i /\ Position(c, c.tiers[i].name) \in Nat
  BY <1>2, PositionAtMost
<1>4. ~(Position(c, c.tiers[i].name) > top)
  BY <1>1, <1>2, <1>3
<1>. QED  BY <1>4 DEF i

LEMMA ReachedStep == TypedInv /\ Reached /\ [Next]_vars => Reached'
<1> SUFFICES ASSUME TypedInv, Reached, [Next]_vars PROVE Reached'
  OBVIOUS
<1>. USE DEF Reached
<1>1. CASE HopBypass
  <2>1. ~(Position(live, tier') > Ceiling(live, live.profiles[Current]))
    BY <1>1, BypassChoice, GatedBelow DEF TypedInv, TypeOK
  <2>2. hop' = live
        /\ Position(hop, tier)' = Position(live, tier')
        /\ Ceiling(hop, Asker)' = Ceiling(live, live.profiles[Current])
    BY <1>1 DEF HopBypass, Arrives, Asker, Current, Ceiling, Position, TierNames
  <2>. QED  BY <2>1, <2>2
<1>2. ASSUME NEW a, Label(a) PROVE Reached'
  <2>1. ~(Position(hop, tier') > Ceiling(hop, Asker))
    BY <1>2, LabelChoice, GatedBelow DEF TypedInv, TypeOK
  <2>2. Position(hop, tier)' = Position(hop, tier') /\ Ceiling(hop, Asker)' = Ceiling(hop, Asker)
    BY <1>2 DEF Label, Asker, Current, Ceiling, Position, TierNames
  <2>. QED  BY <2>1, <2>2
<1>3. ASSUME NEW a, RuleTier(a) PROVE Reached'
  <2>1. \/ ~(Position(hop, tier') > Ceiling(hop, Asker))
        \/ tier' = Resolved(hop, Decision(a))
    BY <1>3, RuleChoice, GatedBelow DEF TypedInv, TypeOK
  <2>2. \E k \in DOMAIN Asker.rules : Decision(a) = Asker.rules[k].to
    BY <1>3, DecisionEligible DEF RuleTier
  <2>3. /\ Position(hop, tier)' = Position(hop, tier')
        /\ Ceiling(hop, Asker)' = Ceiling(hop, Asker)
        /\ hop' = hop /\ Asker' = Asker
    BY <1>3 DEF RuleTier, Asker, Current, Ceiling, Position, TierNames
  <2>. QED  BY <2>1, <2>2, <2>3 DEF Resolved
<1>4. CASE Routes
  BY <1>4 DEF Routes, RouteUnknown, RouteReply, RouteRejected, RouteDispatch, RouteEscalate,
              RouteClassify, Snapshot, Fail
<1>5. CASE HopFails \/ HopAsks \/ ClientFails
  BY <1>5 DEF HopFails, HopAsks, ClientFails, Fail
<1>6. ASSUME NEW a, Cascade(a) \/ RuleUnknown(a) PROVE Reached'
  BY <1>6 DEF Cascade, RuleUnknown, Fail
<1>7. CASE DispatchResolved
  BY <1>7 DEF DispatchResolved, Fail
<1>8. CASE (\E c \in Configs : Reload(c)) \/ UNCHANGED vars
  BY <1>8 DEF Reload, vars, Ceiling, Position, TierNames, Asker, Current, Resolved
<1>. QED  BY <1>1, <1>2, <1>3, <1>4, <1>5, <1>6, <1>7, <1>8 DEF Next, Progress, Hops, Answer

LEMMA ExpertGateStep ==
  TypedInv /\ Undisturbed /\ Reached /\ ExpertGate /\ [Next]_vars => ExpertGate'
<1> SUFFICES ASSUME TypedInv, Undisturbed, Reached, ExpertGate, [Next]_vars
             PROVE  ExpertGate'
  OBVIOUS
<1>0. live \in Configs /\ req \in Requests /\ req.tokens \in Nat
  BY RoutingAssumption DEF TypedInv, TypeOK
<1>1. CASE RouteDispatch
  <2>. DEFINE t == Target(live, Entry)
              top == Len(live.tiers)
              i == MinTier(live, top, req.tokens, t)
              ceil == Ceiling(live, Entry)
  <2>1. /\ tier' = live.tiers[i].name /\ t \in DOMAIN live.tiers
        /\ top \in DOMAIN live.tiers /\ t \in 1 .. top
    BY <1>1, DispatchChoice
  <2>2. i \in t .. top /\ i \in DOMAIN live.tiers
        /\ \A j \in t .. i - 1 : ~Fits(live.tiers[j], req.tokens)
    BY <1>0, <2>1, MinTierGates
  <2>3. live' = live /\ req' = req /\ Entry.mode = "dispatch" /\ Entry' = Entry
    BY <1>1 DEF RouteDispatch, Passes, Enters, Entry, Profile
  <2>4. Target(live, Entry)' = t /\ Ceiling(live, Entry)' = ceil
        /\ Position(live, tier)' = Position(live, live.tiers[i].name)
    BY <2>1, <2>3 DEF Target, Ceiling, Position, TierNames, Resolved
  <2>5. Position(live, live.tiers[i].name) <= i /\ Position(live, live.tiers[i].name) \in Nat
        /\ ceil \in Nat /\ t \in Nat /\ i \in Nat
    <3>1. TierNames(live) # {}
      BY <2>1 DEF TierNames
    <3>. QED  BY <1>0, <2>1, <2>2, <3>1, PositionAtMost, CeilingInLadder, ConfigTyped
  <2>. HIDE DEF i, ceil, t
  <2>6. ASSUME Position(live, live.tiers[i].name) > ceil, NEW j \in t .. ceil
        PROVE  ~Fits(live.tiers[j], req.tokens)
    <3>1. j \in t .. i - 1
      BY <2>5, <2>6
    <3>. QED  BY <2>2, <3>1
  <2>. QED  BY <2>3, <2>4, <2>6 DEF ExpertGate
<1>2. CASE DispatchResolved
  <2>1. stage = "resolved" /\ UNCHANGED <<live, req, hop, visited, tier, reloaded>>
    BY <1>2 DEF DispatchResolved
  <2>2. CASE reloaded \/ Len(visited) > 1
    BY <2>1, <2>2 DEF ExpertGate, Undisturbed, InCascade, Entry, Profile
  <2>3. CASE ~reloaded /\ ~(Len(visited) > 1)
    <3>1. hop = live /\ Entry.mode = "classify" /\ visited # <<>> /\ visited[1] = req.profile
          /\ Current \in DOMAIN live.profiles /\ visited \in Seq(STRING)
      BY <2>1, <2>3 DEF Undisturbed, InCascade, Path, TypedInv, AskerKnown, TypeOK
    <3>2. Len(visited) = 1
      BY <2>3, <3>1
    <3>3. Asker = Entry
      BY <3>1, <3>2 DEF Asker, Current, Entry, Profile
    <3>4. \/ ~(Position(live, tier) > Ceiling(live, Entry))
          \/ \E k \in DOMAIN Entry.rules : tier = Resolved(live, Entry.rules[k].to)
      BY <2>1, <3>1, <3>3 DEF Reached
    <3>5. /\ Entry' = Entry /\ Ceiling(live, Entry)' = Ceiling(live, Entry)
          /\ Position(live, tier)' = Position(live, tier)
          /\ \A m : Resolved(live, m)' = Resolved(live, m)
      BY <2>1 DEF Entry, Profile, Ceiling, Position, TierNames, Resolved
    <3>. QED  BY <2>1, <3>1, <3>4, <3>5 DEF ExpertGate, Resolved
  <2>. QED  BY <2>2, <2>3
<1>3. CASE RouteEscalate
  <2>. DEFINE t == Target(live, Entry)
  <2>1. PICK n \in DOMAIN live.profiles : Entry = live.profiles[n]
    BY <1>3, EntryFound DEF RouteEscalate, Passes, Enters
  <2>2. Entry.mode = "escalate" /\ ~NeedsFlag(live, Entry) /\ live' = live /\ req' = req
    BY <1>3 DEF RouteEscalate, Passes, Enters, Entry
  <2>3. t \in DOMAIN live.tiers /\ TierNames(live) # {}
    BY <1>0, <2>1, <2>2, TargetInLadder
  <2>4. Position(live, live.tiers[t].name) <= t /\ Position(live, live.tiers[t].name) \in Nat
        /\ t \in Nat /\ Ceiling(live, Entry) \in Nat
    BY <1>0, <2>3, PositionAtMost, CeilingInLadder, ConfigTyped
  <2>5. stage' = "dispatched" => tier' = live.tiers[t].name
    BY <1>3 DEF RouteEscalate, Choose, Entry
  <2>6. Entry' = Entry /\ Ceiling(live, Entry)' = Ceiling(live, Entry)
        /\ Position(live, tier)' = Position(live, tier')
    BY <2>2 DEF Entry, Profile, Ceiling, Position, TierNames
  <2>. HIDE DEF t
  <2>7. ~Entry.flag \/ req.expert \/ t <= Ceiling(live, Entry)
    BY <2>2, <2>4 DEF NeedsFlag, t
  <2>. QED  BY <2>2, <2>4, <2>5, <2>6, <2>7 DEF ExpertGate
<1>4. CASE UNCHANGED vars
  BY <1>4 DEF vars, ExpertGate, Entry, Profile, Target, Ceiling, Position, TierNames, Resolved
<1>5. ASSUME stage' # "dispatched" PROVE ExpertGate'
  BY <1>5 DEF ExpertGate
<1>. QED
  BY <1>1, <1>2, <1>3, <1>4, <1>5
  DEF Next, Progress, Routes, RouteUnknown, RouteReply, RouteRejected, RouteClassify, Snapshot,
      Hops, HopFails, HopBypass, HopAsks, ClientFails, Answer, Label, Cascade, RuleTier,
      RuleUnknown, Reload, Fail, Ended

\* A request without the flag passes a ceiling that demands it only when dispatch
\* mode bumps it there, a rule names the tier, or a cascade left the profile.
THEOREM ExpertGated == Spec => []ExpertGate
<1>1. Init => Reached /\ ExpertGate
  BY DEF Init, Reached, ExpertGate
<1>. QED
  BY <1>1, ReachedStep, ExpertGateStep, TypedAlways, UndisturbedAlways, PTL DEF Spec

-----------------------------------------------------------------------------
(* What load validates suffices.                                           *)

\* A path of the cascade never closes: its profiles would form a cycle.
LEMMA PathNeverCloses ==
  ASSUME NEW c \in Configs, NEW p \in Seq(STRING), p # <<>>,
         \A i \in 1 .. Len(p) - 1 : Cascades(c.profiles, p[i], p[i + 1]),
         NEW i \in DOMAIN p, Cascades(c.profiles, p[Len(p)], p[i]), p[Len(p)] \in DOMAIN c.profiles
  PROVE  FALSE
<1>1. CascadeCycle(c.profiles)
  BY WayCloses
<1>2. IsFiniteSet(DOMAIN c.profiles) /\ RoutesEnd(c.profiles)
  BY RoutingAssumption DEF ConfigOK, Validated
<1>. QED  BY <1>1, <1>2, CyclesAreFound

\* Between two hops the profile cascaded to is known, and the tier found exists.
Expected ==
    /\ stage # "failed" => cause = "none"
    /\ ~reloaded =>
          /\ stage \in InCascade /\ Len(visited) > 1 => Current \in DOMAIN live.profiles
          /\ stage = "resolved" => tier \in TierNames(live)

LEMMA ExpectedStep ==
  TypedInv /\ Undisturbed /\ Expected /\ [Next]_vars /\ (Chosen /\ Undisturbed)' => Expected'
<1> SUFFICES ASSUME TypedInv, Undisturbed, Expected, [Next]_vars, Chosen', Undisturbed'
             PROVE  Expected'
  OBVIOUS
<1>. USE DEF Expected, InCascade
<1>1. ~reloaded' /\ stage' = "resolved" => (tier \in TierNames(live))'
  BY DEF Chosen, Undisturbed, TierNames
<1>2. CASE Routes
  BY <1>2 DEF Routes, RouteUnknown, RouteReply, RouteRejected, RouteDispatch, RouteEscalate,
              RouteClassify, Snapshot, Fail, Enters, Passes, Current
<1>3. CASE Hops
  BY <1>1, <1>3 DEF Hops, HopFails, HopBypass, HopAsks, ClientFails, Arrives, Fail, Current
<1>4. ASSUME NEW a, Cascade(a) PROVE Expected'
  <2>1. visited' = Append(visited, Decision(a)) /\ visited \in Seq(STRING)
        /\ Decision(a) \in DOMAIN hop.profiles
    BY <1>4 DEF Cascade, IsProfile, TypedInv, TypeOK
  <2>2. Current' = Decision(a)
    BY <2>1 DEF Current
  <2>3. stage = "asked" /\ stage' = "hop" /\ UNCHANGED <<live, reloaded, cause>>
    BY <1>4 DEF Cascade, Decided
  <2>. QED  BY <2>1, <2>2, <2>3 DEF Undisturbed
<1>5. ASSUME NEW a, Label(a) \/ RuleTier(a) \/ RuleUnknown(a) PROVE Expected'
  BY <1>1, <1>5 DEF Label, RuleTier, RuleUnknown, Decided, Fail, Current
<1>6. CASE DispatchResolved
  BY <1>6 DEF DispatchResolved, Fail
<1>7. CASE (\E c \in Configs : Reload(c)) \/ UNCHANGED vars
  BY <1>7 DEF Reload, vars, Current, TierNames, Ended
<1>. QED  BY <1>2, <1>3, <1>4, <1>5, <1>6, <1>7 DEF Next, Progress, Answer

LEMMA AskedAcyclic ==
  ASSUME TypedInv, Undisturbed, ~reloaded, stage = "asked"
  PROVE  \A k \in DOMAIN Asker.rules : ~Cyclic(k)
<1>1. hop = live /\ live \in Configs /\ visited # <<>> /\ visited \in Seq(STRING)
      /\ Current \in DOMAIN live.profiles
      /\ \A i \in 1 .. Len(visited) - 1 : Cascades(live.profiles, visited[i], visited[i + 1])
  BY DEF Undisturbed, InCascade, Path, TypedInv, TypeOK, AskerKnown
<1>2. ASSUME NEW k \in DOMAIN Asker.rules, Cyclic(k) PROVE FALSE
  <2>1. PICK i \in DOMAIN visited : visited[i] = Asker.rules[k].to
    BY <1>2 DEF Cyclic, Visits
  <2>2. Cascades(live.profiles, visited[Len(visited)], visited[i])
    BY <1>1, <1>2, <2>1 DEF Cascades, Cyclic, IsProfile, Asker, Current
  <2>. QED  BY <1>1, <2>2, PathNeverCloses DEF Current
<1>. QED  BY <1>2

\* Why a lookup may fail without a reload.
CauseKnown ==
    ~reloaded =>
        /\ cause # "tier"
        /\ cause = "profile" => req.profile \notin DOMAIN live.profiles
        /\ cause = "classifier" => live.profiles[Current].mode = "reply"
        /\ cause = "rule" => \E k \in DOMAIN Asker.rules :
              Asker.rules[k].to \notin
                  DOMAIN live.profiles \union DOMAIN live.aliases \union TierNames(live)

LEMMA CauseStep ==
  TypedInv /\ Undisturbed /\ Expected /\ CauseKnown /\ [Next]_vars => CauseKnown'
<1> SUFFICES ASSUME TypedInv, Undisturbed, Expected, CauseKnown, [Next]_vars, ~reloaded'
             PROVE  CauseKnown'
  BY DEF CauseKnown
<1>. USE DEF CauseKnown, Fail
<1>1. ASSUME cause' = "none" PROVE CauseKnown'
  BY <1>1
<1>2. ASSUME cause' = "client" PROVE CauseKnown'
  BY <1>2
<1>3. CASE RouteUnknown
  BY <1>3 DEF RouteUnknown, HasProfile
<1>4. CASE HopFails
  <2>1. stage = "hop" /\ visited # <<>> /\ visited \in Seq(STRING) /\ live \in Configs
        /\ ~reloaded /\ UNCHANGED <<live, req, visited>>
    BY <1>4 DEF HopFails, TypedInv, TypeOK
  <2>2. CASE Current \notin DOMAIN live.profiles /\ cause' = "profile"
    <3>1. Len(visited) = 1
      BY <2>1, <2>2 DEF Expected, InCascade
    <3>. QED  BY <2>1, <2>2, <3>1 DEF Undisturbed, Path, Current
  <2>3. CASE /\ Current \in DOMAIN live.profiles
             /\ live.profiles[Current].classifier \notin TierNames(live)
             /\ cause' = "classifier"
    BY <2>1, <2>3, RoutingAssumption DEF ConfigOK, Validated, Current
  <2>. QED  BY <1>4, <2>2, <2>3 DEF HopFails
<1>5. ASSUME NEW a, RuleUnknown(a) PROVE CauseKnown'
  <2>1. stage = "asked" /\ ~reloaded /\ hop = live /\ live \in Configs /\ cause' = "rule"
        /\ UNCHANGED <<live, hop, visited>>
    BY <1>5 DEF RuleUnknown, Decided, Undisturbed, TypedInv, TypeOK
  <2>2. PICK k \in DOMAIN Asker.rules : Decision(a) = Asker.rules[k].to
    BY <1>5, DecisionEligible DEF RuleUnknown
  <2>3. Decision(a) \notin DOMAIN live.profiles /\ Resolved(live, Decision(a)) \notin TierNames(live)
    BY <1>5, <2>1 DEF RuleUnknown, IsProfile
  <2>4. \A n \in DOMAIN live.aliases : live.aliases[n] \in TierNames(live)
    BY <2>1, RoutingAssumption DEF ConfigOK, Validated
  <2>5. Decision(a) \notin DOMAIN live.aliases \union TierNames(live)
    BY <2>3, <2>4 DEF Resolved
  <2>6. Asker' = Asker /\ TierNames(live)' = TierNames(live) /\ live' = live
    BY <2>1 DEF Asker, Current, TierNames
  <2>. QED  BY <2>1, <2>2, <2>3, <2>5, <2>6
<1>6. CASE DispatchResolved
  <2>1. stage = "resolved" /\ ~reloaded /\ tier \in TierNames(disp) /\ cause = "none"
    BY <1>6 DEF DispatchResolved, Expected, Undisturbed
  <2>. QED  BY <1>1, <1>6, <2>1 DEF DispatchResolved
<1>7. CASE UNCHANGED vars
  <2>1. UNCHANGED <<live, req, cause, reloaded>>
    BY <1>7 DEF vars
  <2>2. Asker' = Asker /\ Current' = Current
    BY <1>7 DEF vars, Asker, Current
  <2>3. TierNames(live)' = TierNames(live)
    BY <2>1 DEF TierNames
  <2>. QED  BY <2>1, <2>2, <2>3
<1>8. ASSUME stage # "failed", UNCHANGED cause PROVE CauseKnown'
  BY <1>1, <1>8 DEF Expected
<1>. QED
  BY <1>2, <1>3, <1>4, <1>5, <1>6, <1>7, <1>8
  DEF Next, Progress, Routes, RouteReply, RouteRejected, RouteDispatch, RouteEscalate, Enters,
      Passes, RouteClassify, Snapshot, Hops, HopBypass, HopAsks, ClientFails, Arrives, Answer,
      Label, Cascade, Decided, RuleTier, Reload

\* Unless a reload intervenes, a validated config fails a request only for a
\* name validation does not look at, and no cascade meets itself.
THEOREM ValidationIsEnough == Spec => []ValidationSuffices
<1>1. Init => Chosen /\ Expected /\ CauseKnown
  BY DEF Init, Chosen, Expected, CauseKnown, InCascade
<1>2. TypedInv /\ Undisturbed /\ CauseKnown => ValidationSuffices
  BY AskedAcyclic DEF ValidationSuffices, CauseKnown
<1>3. Spec => []Chosen
  BY <1>1, ChosenStep, TypedAlways, PTL DEF Spec
<1>4. Spec => []Expected
  BY <1>1, <1>3, ExpectedStep, TypedAlways, UndisturbedAlways, PTL DEF Spec
<1>. QED  BY <1>1, <1>2, <1>4, CauseStep, TypedAlways, UndisturbedAlways, PTL DEF Spec
=============================================================================
