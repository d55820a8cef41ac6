-------------------------------- MODULE Routing --------------------------------
(***************************************************************************)
(* How one request finds its tier: route and route_stream of router/mod.rs *)
(* with resolve_target_tier, classify_and_resolve and                      *)
(* classify_and_dispatch of router/modes.rs.  A hot reload may replace the *)
(* live config between any two snapshots the request takes.                *)
(*                                                                         *)
(* A config is a record                                                    *)
(*   tiers      the ladder, cheapest first: [name, label, cap], where      *)
(*              label is the part of the name after its last ':' and cap   *)
(*              is max_context_tokens or Uncapped                          *)
(*   aliases    a function from aliases to tier names                      *)
(*   profiles   a function from profile names to                           *)
(*              [mode, classifier, ceiling, flag, skip, rules]: ceiling is *)
(*              max_auto_tier, flag is expert_requires_flag, skip is       *)
(*              classifier_context = 0, and rules, sorted by priority, is  *)
(*              a sequence of [when, to]                                   *)
(***************************************************************************)
EXTENDS RouteCycles, FiniteSets

CONSTANTS Configs,    \* the configs an operator may put live
          Requests,   \* [profile, hint, expert, tokens, tool, silent, stream]:
                      \* tool: the history holds a tool result;
                      \* silent: it gives the classifier nothing to read
          Answers     \* what a classifier may answer: [label, tags]

Uncapped == -1
Modes == {"dispatch", "escalate", "classify", "reply"}
TierNames(c) == {c.tiers[i].name : i \in DOMAIN c.tiers}

\* What Config::load has validated of every config that goes live.
Validated(c) ==
    /\ \A n \in DOMAIN c.aliases : c.aliases[n] \in TierNames(c)
    /\ \A n \in DOMAIN c.profiles :
          c.profiles[n].mode # "reply" => c.profiles[n].classifier \in TierNames(c)
    /\ RoutesEnd(c.profiles)

ConfigOK(c) ==
    /\ c.tiers \in Seq([name : STRING, label : STRING, cap : Nat \union {Uncapped}])
    /\ IsFiniteSet(DOMAIN c.profiles)
    /\ \A n \in DOMAIN c.profiles :
          /\ c.profiles[n].mode \in Modes
          /\ c.profiles[n].rules \in Seq([when : SUBSET STRING, to : STRING])
    /\ Validated(c)

ASSUME RoutingAssumption ==
    /\ \A c \in Configs : ConfigOK(c)
    /\ \A r \in Requests : r.profile \in STRING /\ r.tokens \in Nat

VARIABLES
    live,      \* config_lock: the config that is live
    req,       \* the request
    stage,     \* where its handler stands
    disp,      \* the snapshot its final tier is looked up in
    hop,       \* the snapshot of the current classify_and_resolve
    visited,   \* the profiles of the cascade, the current one last
    tier,      \* the name of the tier chosen
    cause,     \* which lookup failed the request
    reloaded   \* whether a reload happened during the request

vars == <<live, req, stage, disp, hop, visited, tier, cause, reloaded>>

Ended == {"replied", "rejected", "failed", "dispatched", "escalating"}
Stages == {"start", "snapshot", "hop", "asked", "resolved"} \union Ended

-----------------------------------------------------------------------------
First(S) == CHOOSE i \in S : \A j \in S : i <= j
Position(c, name) == First({i \in DOMAIN c.tiers : c.tiers[i].name = name})

HasProfile(c, name) == name \in DOMAIN c.profiles \/ "default" \in DOMAIN c.profiles
Profile(c, name) == c.profiles[IF name \in DOMAIN c.profiles THEN name ELSE "default"]

\* Seeded fault: aliases are not followed.
ResolvedVerbatim(c, model) == model

\* Config::resolve_tier: the tier name a model string stands for.
Resolved(c, model) == IF model \in DOMAIN c.aliases THEN c.aliases[model] ELSE model

\* The index of max_auto_tier; the top of the ladder when it names no tier.
Ceiling(c, p) == IF p.ceiling \in TierNames(c) THEN Position(c, p.ceiling) ELSE Len(c.tiers)

\* Seeded fault: tries one tier above only.
MinTierOneStep(c, top, tokens, start) ==
    IF c.tiers[start].cap = Uncapped \/ tokens <= c.tiers[start].cap \/ start = top
    THEN start ELSE start + 1

Fits(t, tokens) == t.cap = Uncapped \/ tokens <= t.cap

\* The first tier of start .. top that fits the request; top when none does.
MinTier(c, top, tokens, start) ==
    LET fitting == {i \in start .. top : Fits(c.tiers[i], tokens)}
    IN  IF fitting = {} THEN top ELSE First(fitting)

\* The tier a classifier label stands for among the first top tiers.
LabelTier(c, top, label) ==
    LET exact  == {i \in 1 .. top : c.tiers[i].name = label}
        suffix == {i \in 1 .. top : c.tiers[i].label = label}
    IN  IF exact # {} THEN First(exact)
        ELSE IF suffix # {} THEN First(suffix)
        ELSE (top \div 2) + 1

\* A tool result lifts a request off the cheapest tier.
Lifted(top, i) == IF req.tool /\ i = 1 /\ top > 1 THEN 2 ELSE i

\* The tier of the model hint, or the profile's classifier tier.
Target(c, p) ==
    LET t == Resolved(c, req.hint)
    IN  Position(c, IF t \in TierNames(c) THEN t ELSE p.classifier)

\* Seeded fault: off by one at the ceiling.
NeedsFlagAboveNext(c, p) == p.flag /\ ~req.expert /\ Target(c, p) > Ceiling(c, p) + 1

NeedsFlag(c, p) == p.flag /\ ~req.expert /\ Target(c, p) > Ceiling(c, p)

-----------------------------------------------------------------------------
Init ==
    /\ live \in Configs
    /\ req \in Requests
    /\ stage = "start"
    /\ disp = live
    /\ hop = live
    /\ visited = <<>>
    /\ tier = "none"
    /\ cause = "none"
    /\ reloaded = FALSE

\* replace_config, while the request is on its way.
Reload(c) ==
    /\ stage \notin {"start"} \union Ended
    /\ c # live
    /\ live' = c
    /\ reloaded' = TRUE
    /\ UNCHANGED <<req, stage, disp, hop, visited, tier, cause>>

Fail(why) == stage' = "failed" /\ cause' = why
Choose(c, i) == tier' = c.tiers[i].name

\* route and route_stream find the profile under their snapshot of the config.
RouteUnknown ==
    /\ stage = "start"
    /\ ~HasProfile(live, req.profile)
    /\ Fail("profile")
    /\ UNCHANGED <<live, req, disp, hop, visited, tier, reloaded>>

Enters(mode) ==
    /\ stage = "start"
    /\ HasProfile(live, req.profile)
    /\ Profile(live, req.profile).mode = mode

RouteReply ==
    /\ Enters("reply")
    /\ stage' = "replied"
    /\ UNCHANGED <<live, req, disp, hop, visited, tier, cause, reloaded>>

\* The expert gate of resolve_target_tier, whatever tier the mode then chooses.
Passes(mode) == Enters(mode) /\ ~NeedsFlag(live, Profile(live, req.profile))

RouteRejected ==
    /\ \E mode \in Modes \ {"reply"} : Enters(mode)
    /\ NeedsFlag(live, Profile(live, req.profile))
    /\ stage' = "rejected"
    /\ UNCHANGED <<live, req, disp, hop, visited, tier, cause, reloaded>>

\* Dispatch mode: the tier of the hint or, when it is too small, one above it,
\* max_auto_tier notwithstanding.
RouteDispatch ==
    /\ Passes("dispatch")
    /\ Choose(live, MinTier(live, Len(live.tiers), req.tokens,
                            Target(live, Profile(live, req.profile))))
    /\ stage' = "dispatched"
    /\ UNCHANGED <<live, req, disp, hop, visited, cause, reloaded>>

\* Escalate mode walks the ladder; a stream goes to the tier of the hint.
RouteEscalate ==
    /\ Passes("escalate")
    /\ IF req.stream
       THEN /\ Choose(live, Target(live, Profile(live, req.profile)))
            /\ stage' = "dispatched"
       ELSE stage' = "escalating" /\ UNCHANGED tier
    /\ UNCHANGED <<live, req, disp, hop, visited, cause, reloaded>>

\* Classify mode cascades from the name requested, even when its profile is
\* the default one.  A stream keeps route_stream's snapshot for the end.
RouteClassify ==
    /\ Passes("classify")
    /\ visited' = <<req.profile>>
    /\ disp' = live
    /\ stage' = IF req.stream THEN "hop" ELSE "snapshot"
    /\ UNCHANGED <<live, req, hop, tier, cause, reloaded>>

\* classify_and_dispatch takes a snapshot of its own.
Snapshot ==
    /\ stage = "snapshot"
    /\ disp' = live
    /\ stage' = "hop"
    /\ UNCHANGED <<live, req, hop, visited, tier, cause, reloaded>>

-----------------------------------------------------------------------------
Current == visited[Len(visited)]

\* classify_and_resolve takes a snapshot of its own and looks the profile up
\* in it, without the default.
HopFails ==
    /\ stage = "hop"
    /\ hop' = live
    /\ \/ Current \notin DOMAIN live.profiles /\ Fail("profile")
       \/ /\ Current \in DOMAIN live.profiles
          /\ live.profiles[Current].classifier \notin TierNames(live)
          /\ Fail("classifier")
    /\ UNCHANGED <<live, req, disp, visited, tier, reloaded>>

Arrives ==
    /\ stage = "hop"
    /\ hop' = live
    /\ Current \in DOMAIN live.profiles
    /\ live.profiles[Current].classifier \in TierNames(live)

\* Nothing to classify: start at the classifier tier, if below the ceiling.
HopBypass ==
    /\ Arrives
    /\ LET p == live.profiles[Current]
           top == Ceiling(live, p)
           i == Position(live, p.classifier)
       IN  /\ p.skip \/ req.silent
           /\ Choose(live, MinTier(live, top, req.tokens, IF i <= top THEN i ELSE 1))
    /\ stage' = "resolved"
    /\ UNCHANGED <<live, req, disp, visited, cause, reloaded>>

HopAsks ==
    /\ Arrives
    /\ ~live.profiles[Current].skip /\ ~req.silent
    /\ stage' = "asked"
    /\ UNCHANGED <<live, req, disp, visited, tier, cause, reloaded>>

\* BackendClient::new: the API key of the classifier's backend is not set.
ClientFails ==
    /\ Arrives
    /\ ~live.profiles[Current].skip /\ ~req.silent
    /\ Fail("client")
    /\ UNCHANGED <<live, req, disp, visited, tier, reloaded>>

\* A failed or late classifier call answers for "instant", without tags.
DefaultAnswer == [label |-> "instant", tags |-> {}]
AllAnswers == Answers \union {DefaultAnswer}

Asker == hop.profiles[Current]
Visits(n) == \E i \in DOMAIN visited : visited[i] = n
IsProfile(n) == n \in DOMAIN hop.profiles

Matches(k, a) == Asker.rules[k].when \subseteq a.tags
Cyclic(k) == IsProfile(Asker.rules[k].to) /\ Visits(Asker.rules[k].to)

\* Seeded fault: only a rule back to the current profile counts as cyclic.
EligibleBarSelf(a) ==
    {k \in DOMAIN Asker.rules : Matches(k, a) /\ Asker.rules[k].to # Current}

\* The rules that may decide: a cyclic one is passed over for the next.
Eligible(a) == {k \in DOMAIN Asker.rules : Matches(k, a) /\ ~Cyclic(k)}

Decided(a) == stage = "asked" /\ Eligible(a) # {}
Decision(a) == Asker.rules[First(Eligible(a))].to

\* Seeded fault: the chain keeps the current profile only.
CascadeForgetful(a) ==
    /\ Decided(a)
    /\ IsProfile(Decision(a))
    /\ visited' = <<Decision(a)>>
    /\ stage' = "hop"
    /\ UNCHANGED <<live, req, disp, hop, tier, cause, reloaded>>

Cascade(a) ==
    /\ Decided(a)
    /\ IsProfile(Decision(a))
    /\ visited' = Append(visited, Decision(a))
    /\ stage' = "hop"
    /\ UNCHANGED <<live, req, disp, hop, tier, cause, reloaded>>

\* A rule's target is looked up only now: load does not validate it.
RuleUnknown(a) ==
    /\ Decided(a)
    /\ ~IsProfile(Decision(a))
    /\ Resolved(hop, Decision(a)) \notin TierNames(hop)
    /\ Fail("rule")
    /\ UNCHANGED <<live, req, disp, hop, visited, tier, reloaded>>

\* A rule's tier is bumped like any other below the ceiling, kept as it is above.
RuleTier(a) ==
    /\ Decided(a)
    /\ ~IsProfile(Decision(a))
    /\ Resolved(hop, Decision(a)) \in TierNames(hop)
    /\ LET top == Ceiling(hop, Asker)
           i == Position(hop, Resolved(hop, Decision(a)))
       IN  Choose(hop, IF i <= top THEN MinTier(hop, top, req.tokens, i) ELSE i)
    /\ stage' = "resolved"
    /\ UNCHANGED <<live, req, disp, hop, visited, cause, reloaded>>

\* No rule decides: the label does.
Label(a) ==
    /\ stage = "asked"
    /\ Eligible(a) = {}
    /\ LET top == Ceiling(hop, Asker)
       IN  Choose(hop, MinTier(hop, top, req.tokens, Lifted(top, LabelTier(hop, top, a.label))))
    /\ stage' = "resolved"
    /\ UNCHANGED <<live, req, disp, hop, visited, cause, reloaded>>

Answer(a) == Label(a) \/ Cascade(a) \/ RuleTier(a) \/ RuleUnknown(a)

\* The tier chosen is looked up again, under the caller's snapshot.
DispatchResolved ==
    /\ stage = "resolved"
    /\ IF tier \in TierNames(disp)
       THEN stage' = "dispatched" /\ UNCHANGED cause
       ELSE Fail("tier")
    /\ UNCHANGED <<live, req, disp, hop, visited, tier, reloaded>>

Routes == RouteUnknown \/ RouteReply \/ RouteRejected \/ RouteDispatch \/ RouteEscalate
          \/ RouteClassify \/ Snapshot
Hops == HopFails \/ HopBypass \/ HopAsks \/ ClientFails

Progress == Routes \/ Hops \/ (\E a \in AllAnswers : Answer(a)) \/ DispatchResolved

Next == Progress \/ \E c \in Configs : Reload(c)

Spec == Init /\ [][Next]_vars

\* The runtime polls the handler, and classifier_timeout_ms answers for a
\* classifier that does not.
FairSpec == Spec /\ WF_vars(Progress)

-----------------------------------------------------------------------------
TypeOK ==
    /\ live \in Configs
    /\ req \in Requests
    /\ stage \in Stages
    /\ disp \in Configs
    /\ hop \in Configs
    /\ visited \in Seq(STRING)
    /\ stage \in {"snapshot", "hop", "asked", "resolved"} => visited # <<>>
    /\ tier \in STRING \union {"none"}
    /\ cause \in {"none", "profile", "classifier", "client", "rule", "tier"}
    /\ reloaded \in BOOLEAN

\* The visited list of classify_and_resolve: no cascade asks one profile twice,
\* even when reloads turn the cascades around underneath it.
NoProfileTwice ==
    \A i, j \in DOMAIN visited : visited[i] = visited[j] => i = j

Entry == Profile(live, req.profile)

\* Context-window gating, end to end (docs/configuration.md): unless a reload
\* intervened, a request is dispatched to a tier that cannot hold it only if no
\* tier from there to the top within its reach can.  A streamed request in
\* escalate mode is not gated at all, and a rule may name a tier beyond reach.
ContextGate ==
    stage = "dispatched" /\ ~reloaded /\ Entry.mode # "escalate" =>
        LET i == Position(live, tier)
            top == IF Entry.mode = "dispatch" THEN Len(live.tiers)
                   ELSE Ceiling(live, live.profiles[Current])
        IN  \/ Fits(live.tiers[i], req.tokens)
            \/ \A j \in i .. top : ~Fits(live.tiers[j], req.tokens)

\* A request without the expert header ends above the ceiling of a profile that
\* demands it in three ways only: dispatch mode bumped it past tiers too small
\* for it, or in classify mode a rule names a tier up there, or a cascade went
\* to another profile.
ExpertGate ==
    stage = "dispatched" /\ ~reloaded /\ Entry.flag /\ ~req.expert
    /\ Position(live, tier) > Ceiling(live, Entry) =>
        \/ /\ Entry.mode = "dispatch"
           /\ \A j \in Target(live, Entry) .. Ceiling(live, Entry) :
                 ~Fits(live.tiers[j], req.tokens)
        \/ /\ Entry.mode = "classify"
           /\ \/ Len(visited) > 1
              \/ \E k \in DOMAIN Entry.rules : tier = Resolved(live, Entry.rules[k].to)

\* What load validates suffices: unless a reload intervened, a lookup fails only
\* for a profile name nobody declared, a rule that names nothing, or a cascade
\* into a reply profile, which has no classifier; and no rule is ever cyclic.
ValidationSuffices ==
    ~reloaded =>
        /\ cause # "tier"
        /\ cause = "profile" => req.profile \notin DOMAIN live.profiles
        /\ cause = "classifier" => live.profiles[Current].mode = "reply"
        /\ cause = "rule" => \E k \in DOMAIN Asker.rules :
              Asker.rules[k].to \notin
                  DOMAIN live.profiles \union DOMAIN live.aliases \union TierNames(live)
        /\ stage = "asked" => \A k \in DOMAIN Asker.rules : ~Cyclic(k)

\* Every request is answered or handed over, however many reloads turn the
\* cascades around while it is on its way.
RouteEnds == <>(stage \in Ended)
=============================================================================
