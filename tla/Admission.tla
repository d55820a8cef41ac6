------------------------------- MODULE Admission -------------------------------
(***************************************************************************)
(* The way of a chat request through the client port, around the routing:  *)
(* the layers main.rs wraps the client API in (rate_limit_middleware, then *)
(* client_auth_middleware), the profile quota of the OpenAI handler, the   *)
(* profile-as-model of the Ollama handler, route's choice of a profile and *)
(* the routing headers of the answer.                                      *)
(*                                                                         *)
(* RouterState::new freezes the key map, the public profile and the        *)
(* limiters at startup (boot); everything else is read from the live       *)
(* config, which reload replaces at any time, in three separate snapshots  *)
(* of one request.  Buckets hold whole tokens here; RateLimiter.tla has    *)
(* their arithmetic.                                                       *)
(***************************************************************************)
EXTENDS Integers, FiniteSets

CONSTANTS Requests, Ips, Keys, Tiers,
          Profiles,    \* the names of profiles
          Models,      \* what a client may name as its model: profiles and tiers
          Backing,     \* the models behind the tiers
          Config,      \* the contents of the config files, over time
          None,        \* no key, no profile, no tier, no model, no snapshot
          MaxRefills   \* bound on the refills of one bucket

\* A config: clients, a function from some keys to profiles; public, a profile
\* or None; profiles, a function to [rpm, classifier]; model, a function from
\* its tiers; ipRpm.  An rpm of 0 is no limit.
ConfigOK(c) ==
    /\ c.clients \in [DOMAIN c.clients -> Profiles] /\ DOMAIN c.clients \subseteq Keys
    /\ c.public \in Profiles \union {None}
    /\ c.model \in [DOMAIN c.model -> Backing] /\ DOMAIN c.model \subseteq Tiers
    /\ c.ipRpm \in Nat
    /\ DOMAIN c.profiles \subseteq Profiles
    /\ \A p \in DOMAIN c.profiles :
          c.profiles[p].rpm \in Nat /\ c.profiles[p].classifier \in Models

ASSUME AdmissionAssumption ==
    /\ MaxRefills \in Nat
    /\ IsFiniteSet(Requests)
    /\ "default" \in Profiles
    /\ None \notin Profiles \union Keys
    /\ Ips \intersect Profiles = {}
    /\ \A v \in DOMAIN Config : ConfigOK(Config[v])

VARIABLES boot,     \* the config of RouterState::new, a version
          live,     \* config_lock
          ipTokens, \* rate_limiter.buckets
          quota,    \* profile_limiters: [profile -> tokens]
          refills,  \* [ips and profiles -> refills so far]
          req       \* [Requests -> the request and what became of it]

vars == <<boot, live, ipTokens, quota, refills, req>>

Versions == DOMAIN Config
Boot == Config[boot]
Live == Config[live]
Limited(c) == {p \in DOMAIN c.profiles : c.profiles[p].rpm > 0}

\* ext: the ClientProfile extension; under: the profile route runs; snap: its
\* snapshot; fresh: no reload since the handler began.
New == [stage |-> "new", ip |-> None, api |-> "openai", key |-> None, model |-> None,
        ext |-> None, named |-> None, under |-> None, snap |-> None, tier |-> None,
        header |-> None, fresh |-> TRUE]

\* RouterState::new.
Init ==
    /\ boot \in Versions
    /\ live = boot
    /\ ipTokens = [ip \in Ips |-> Boot.ipRpm]
    /\ quota = [p \in Limited(Boot) |-> Boot.profiles[p].rpm]
    /\ refills = [b \in Ips \union Limited(Boot) |-> 0]
    /\ req = [r \in Requests |-> New]

Snap(r) == Config[req[r].snap]
Goes(r, stage) == req' = [req EXCEPT ![r].stage = stage]

-----------------------------------------------------------------------------
Arrive(r, ip, api, key, model) ==
    /\ req[r].stage = "new"
    /\ req' = [req EXCEPT ![r].stage = "arrived", ![r].ip = ip, ![r].api = api,
                          ![r].key = key, ![r].model = model]
    /\ UNCHANGED <<boot, live, ipTokens, quota, refills>>

\* rate_limit_middleware, the outer layer: a request that is turned away by the
\* next layers has had its token.
LimitIp(r) ==
    LET ip == req[r].ip
    IN  /\ req[r].stage = "arrived"
        /\ IF Boot.ipRpm > 0 /\ ipTokens[ip] = 0
           THEN Goes(r, "429") /\ UNCHANGED ipTokens
           ELSE /\ ipTokens' = IF Boot.ipRpm > 0 THEN [ipTokens EXCEPT ![ip] = @ - 1] ELSE ipTokens
                /\ Goes(r, "limited")
        /\ UNCHANGED <<boot, live, quota, refills>>

\* Seeded fault: where there is a public profile, it comes before the key's own.
AuthenticatePublicFirst(r) ==
    LET key == req[r].key
        Profile == IF Boot.public # None THEN Boot.public
                   ELSE IF key \in DOMAIN Boot.clients THEN Boot.clients[key] ELSE None
    IN  /\ req[r].stage = "limited"
        /\ IF DOMAIN Boot.clients # {} /\ Profile = None
           THEN Goes(r, "401")
           ELSE req' = [req EXCEPT ![r].stage = "handler", ![r].ext = Profile]
        /\ UNCHANGED <<boot, live, ipTokens, quota, refills>>

\* client_auth_middleware: open without clients, otherwise the key's profile,
\* or the public one, or 401.
Authenticate(r) ==
    LET key == req[r].key
        Profile == IF DOMAIN Boot.clients = {} THEN None
                   ELSE IF key \in DOMAIN Boot.clients THEN Boot.clients[key] ELSE Boot.public
    IN  /\ req[r].stage = "limited"
        /\ IF DOMAIN Boot.clients # {} /\ Profile = None
           THEN Goes(r, "401")
           ELSE req' = [req EXCEPT ![r].stage = "handler", ![r].ext = Profile]
        /\ UNCHANGED <<boot, live, ipTokens, quota, refills>>

ProfileOr(name) == IF name = None THEN "default" ELSE name

\* Seeded fault: a request without a profile is not the default profile's.
CheckQuotaNamed(r) ==
    LET p == req[r].ext
    IN  /\ req[r].stage = "handler" /\ req[r].api = "openai"
        /\ IF p \in DOMAIN quota
           THEN IF quota[p] = 0 THEN Goes(r, "429") /\ UNCHANGED quota
                ELSE quota' = [quota EXCEPT ![p] = @ - 1] /\ Goes(r, "route")
           ELSE Goes(r, "route") /\ UNCHANGED quota
        /\ UNCHANGED <<boot, live, ipTokens, refills>>

\* The OpenAI handler: the quota of the request's profile, by name.
CheckQuota(r) ==
    LET p == ProfileOr(req[r].ext)
    IN  /\ req[r].stage = "handler" /\ req[r].api = "openai"
        /\ IF p \in DOMAIN quota
           THEN IF quota[p] = 0 THEN Goes(r, "429") /\ UNCHANGED quota
                ELSE quota' = [quota EXCEPT ![p] = @ - 1] /\ Goes(r, "route")
           ELSE Goes(r, "route") /\ UNCHANGED quota
        /\ UNCHANGED <<boot, live, ipTokens, refills>>

\* The Ollama handler has no quota: a model that is a profile of the config now
\* live overrides the request's profile, and stands for its classifier tier.
NameProfile(r) ==
    /\ req[r].stage = "handler" /\ req[r].api = "ollama"
    /\ req' = [req EXCEPT ![r].stage = "route",
                  ![r].named = IF req[r].model \in DOMAIN Live.profiles THEN req[r].model ELSE None,
                  ![r].model = IF @ \in DOMAIN Live.profiles THEN Live.profiles[@].classifier ELSE @]
    /\ UNCHANGED <<boot, live, ipTokens, quota, refills>>

Wanted(r) == ProfileOr(IF req[r].named # None THEN req[r].named ELSE req[r].ext)

\* Seeded fault: the client's own profile before the one it names.
RouteOwnFirst(r) ==
    LET wants == ProfileOr(IF req[r].ext # None THEN req[r].ext ELSE req[r].named)
        Under == IF wants \in DOMAIN Live.profiles THEN wants
                 ELSE IF "default" \in DOMAIN Live.profiles THEN "default" ELSE None
    IN  /\ req[r].stage = "route"
        /\ IF Under = None THEN Goes(r, "error")
           ELSE req' = [req EXCEPT ![r].stage = "routing", ![r].snap = live, ![r].under = Under]
        /\ UNCHANGED <<boot, live, ipTokens, quota, refills>>

\* route: a snapshot, and Config::profile, which falls back to the default one.
Route(r) ==
    LET Under == IF Wanted(r) \in DOMAIN Live.profiles THEN Wanted(r)
                 ELSE IF "default" \in DOMAIN Live.profiles THEN "default" ELSE None
    IN  /\ req[r].stage = "route"
        /\ IF Under = None THEN Goes(r, "error")
           ELSE req' = [req EXCEPT ![r].stage = "routing", ![r].snap = live, ![r].under = Under]
        /\ UNCHANGED <<boot, live, ipTokens, quota, refills>>

\* The await of the backend: some tier of the snapshot answers ...
Answers(r, t) ==
    /\ req[r].stage = "routing"
    /\ t \in DOMAIN Snap(r).model
    /\ req' = [req EXCEPT ![r].stage = "answered", ![r].tier = t]
    /\ UNCHANGED <<boot, live, ipTokens, quota, refills>>

\* ... or the routing fails: 200 with the error as a chat message.
Fails(r) ==
    /\ req[r].stage = "routing"
    /\ Goes(r, "error")
    /\ UNCHANGED <<boot, live, ipTokens, quota, refills>>

\* inject_routing_headers looks the tier up in the config that is live now.
Respond(r) ==
    /\ req[r].stage = "answered"
    /\ req' = [req EXCEPT ![r].stage = "done",
                  ![r].header = IF req[r].tier \in DOMAIN Live.model
                                THEN Live.model[req[r].tier] ELSE None]
    /\ UNCHANGED <<boot, live, ipTokens, quota, refills>>

\* The client disconnects while the backend is awaited.
Leave(r) ==
    /\ req[r].stage = "routing"
    /\ Goes(r, "gone")
    /\ UNCHANGED <<boot, live, ipTokens, quota, refills>>

-----------------------------------------------------------------------------
\* replace_config, of the watcher or of POST /admin/reload.
Reload(v) ==
    /\ live # v
    /\ live' = v
    /\ req' = [r \in Requests |->
                  IF req[r].stage \in {"route", "routing", "answered"}
                  THEN [req[r] EXCEPT !.fresh = FALSE] ELSE req[r]]
    /\ UNCHANGED <<boot, ipTokens, quota, refills>>

\* Time passes for a bucket.
Refill(b) ==
    /\ refills[b] < MaxRefills
    /\ refills' = [refills EXCEPT ![b] = @ + 1]
    /\ \/ b \in Ips /\ ipTokens[b] < Boot.ipRpm
          /\ ipTokens' = [ipTokens EXCEPT ![b] = @ + 1] /\ UNCHANGED quota
       \/ b \in DOMAIN quota /\ quota[b] < Boot.profiles[b].rpm
          /\ quota' = [quota EXCEPT ![b] = @ + 1] /\ UNCHANGED ipTokens
    /\ UNCHANGED <<boot, live, req>>

Next ==
    \/ \E r \in Requests :
          \/ \E ip \in Ips, api \in {"openai", "ollama"}, key \in Keys \union {None}, m \in Models :
                Arrive(r, ip, api, key, m)
          \/ LimitIp(r) \/ Authenticate(r) \/ CheckQuota(r) \/ NameProfile(r)
          \/ Route(r) \/ (\E t \in Tiers : Answers(r, t)) \/ Fails(r) \/ Respond(r) \/ Leave(r)
    \/ \E v \in Versions : Reload(v)
    \/ \E b \in DOMAIN refills : Refill(b)

Spec == Init /\ [][Next]_vars

-----------------------------------------------------------------------------
Stages == {"new", "arrived", "429", "limited", "401", "handler", "route", "routing",
           "answered", "error", "done", "gone"}

Lives ==
    [stage : Stages, ip : Ips \union {None}, api : {"openai", "ollama"},
     key : Keys \union {None}, model : Models \union {None}, ext : Profiles \union {None},
     named : Profiles \union {None}, under : Profiles \union {None},
     snap : Versions \union {None}, tier : Tiers \union {None},
     header : Backing \union {None}, fresh : BOOLEAN]

TypeOK ==
    /\ {boot, live} \subseteq Versions
    /\ ipTokens \in [Ips -> 0 .. Boot.ipRpm]
    /\ quota \in [Limited(Boot) -> Nat]
    /\ refills \in [Ips \union Limited(Boot) -> 0 .. MaxRefills]
    /\ req \in [Requests -> Lives]

Began == {"route", "routing", "answered", "error", "done", "gone"}

\* The requests that went on to be routed as the profile p's, and those of them
\* that the OpenAI handler took.
Routed(p) == {r \in Requests : req[r].stage \in Began /\ Wanted(r) = p}
Charged(p) ==
    {r \in Requests : req[r].stage \in Began /\ req[r].api = "openai" /\ ProfileOr(req[r].ext) = p}

\* The tokens the requests of p have taken: what the bucket began with and got
\* back, less what is left.
Spent(p) == Boot.profiles[p].rpm + refills[p] - quota[p]

\* Every OpenAI request that goes on as a profile's, whichever client sent it,
\* has taken a token of that profile's one quota; no request takes more than
\* one; and one that any layer turned away has taken none.  It leaves open
\* whether an Ollama request pays: router/mod.rs:199 and profile.rs:89-90 have
\* the quota shared by all clients of a profile, the Ollama handler has none.
QuotaAccounted ==
    \A p \in DOMAIN quota :
        /\ Cardinality(Charged(p)) <= Spent(p)
        /\ Spent(p) <= Cardinality(Routed(p))

\* A request is routed under the profile of its key, the public one for a key
\* that is not known, the default one where there are no clients, the profile
\* an Ollama request names, or else the default its config falls back to.  It
\* leaves open what becomes of a key that is not known where no profile is
\* public: gateway.rs:50-51 says 401, and so does the middleware; the comment
\* of config/mod.rs:143-144 says the default profile.
Recognised(r) ==
    DOMAIN Boot.clients = {} \/ req[r].key \in DOMAIN Boot.clients \/ Boot.public # None
Entitled(r) ==
    \/ DOMAIN Boot.clients = {} /\ req[r].under = "default"
    \/ req[r].key \in DOMAIN Boot.clients /\ req[r].under = Boot.clients[req[r].key]
    \/ DOMAIN Boot.clients # {} /\ req[r].key \notin DOMAIN Boot.clients
       /\ req[r].under = Boot.public
    \/ req[r].api = "ollama" /\ req[r].under = req[r].named
    \/ req[r].under = "default" /\ Wanted(r) \notin DOMAIN Snap(r).profiles
KeyProfile == \A r \in Requests :
    req[r].stage \in Began /\ Recognised(r) /\ req[r].under # None => Entitled(r)

\* A request during which the config is not replaced sees one config: the
\* profile an Ollama request names is the one it runs under, and the model
\* header is the model of the tier that answered.
OneConfig ==
    \A r \in Requests : req[r].fresh =>
        /\ req[r].named # None /\ req[r].under # None => req[r].under = req[r].named
        /\ req[r].stage = "done" => req[r].header = Snap(r).model[req[r].tier]
=============================================================================
