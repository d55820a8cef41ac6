---------------------------- MODULE MCConfigReload ----------------------------
EXTENDS ConfigFiles

\* The document that is one value, and the table of some documents.
Leaf(v) == [p \in {<<>>} |-> v]
Tables(f) ==
    [p \in {<<>>} \union UNION {{<<k>> \o q : q \in DOMAIN f[k]} : k \in DOMAIN f} |->
        IF p = <<>> THEN Table ELSE f[Head(p)][Tail(p)]]
Text1(v) == Leaf(Scalar(v))
List(s) == Leaf(Array(s))
Empty == Leaf(Table)
Names(f) == Tables([k \in DOMAIN f |-> Text1(f[k])])

Tier(name, model) == Names([name |-> name, backend |-> "ollama", model |-> model])
Client(profile) == Names([key_env |-> "KEY", profile |-> profile])
Acme(profile) == Names([name |-> "acme", key_env |-> "KEY", profile |-> profile])
Rule(to, priority) == Names([route_to |-> to]) @@ (<<"priority">> :> Scalar(priority))
Prof(rules) == Tables([classifier |-> Text1("fast"), rules |-> List(rules)])
Reply == Names([mode |-> "reply"])

\* A main file with one tier and one profile, whose rules are given.
Sections(rules) ==
    [gateway |-> Empty,
     backends |-> Tables([ollama |-> Names([base_url |-> "http"])]),
     tiers |-> List(<<Tier("fast", "m1")>>),
     profiles |-> Tables([default |-> Prof(rules)])]
Main(rules) == Tables(Sections(rules))

Files(m, confd, dirs) == [main |-> m, confd |-> confd, dirs |-> dirs]
Profiles(fs) == [profiles |-> fs]
Code(rules) == [stem |-> "code", value |-> Prof(rules)]

\* Main: as delivered, not TOML, cascading to code, another tier.  Overlays: none,
\* a profile code that cascades to default, one that does not, an overlay that
\* is not TOML.  The third main and the second overlay close a cascade between them.
MCFilesOf(m, o) ==
    Files(CASE m = 0 -> Main(<<>>)
            [] m = 1 -> Broken
            [] m = 2 -> Main(<<Rule("code", 0)>>)
            [] m = 3 -> Main(<<Rule("fast", 0)>>),
          IF o = 3 THEN <<Broken>> ELSE <<>>,
          IF o = 0 THEN <<>>
          ELSE Profiles(<<Code(IF o = 1 THEN <<Rule("default", 0)>> ELSE <<>>)>>))

MCCatalogue ==
    {[version |-> <<m, o>>, holds |-> MCFilesOf(m, o)] : m, o \in 0 .. MaxChanges}
RefusedVersions == Versions({e \in MCCatalogue : Load(e.holds) = Refused})
MCInvalid == RefusedVersions

\* Three files that speak of the same section.
With(key, v) == IF v = Empty THEN Empty ELSE Tables(key :> v)
MainWith(key, v) == IF v = Empty THEN Main(<<>>) ELSE Tables((key :> v) @@ Sections(<<>>))
Layers(key, menu) ==
    {Files(MainWith(key, a), <<With(key, b), With(key, c)>>, <<>>) : a, b, c \in menu}

Aliases == {Empty, Text1("fast"), Names([quick |-> "fast"]), Names([quick |-> "gone", small |-> "fast"]),
            Tables([quick |-> Empty])}
Ladders == {Empty, Text1("fast"), List(<<>>), List(<<Tier("fast", "m2")>>),
            List(<<Tier("deep", "m3"), Tier("fast", "m4")>>), List(<<Empty>>),
            List(<<Tier("deep", "m5"), Tier("last", "m6")>>)}
Clients == {Empty, List(<<Client("default")>>), List(<<Acme("default")>>), List(<<Acme("code")>>)}
Cascading == {Empty, Tables([code |-> Prof(<<Rule("default", 0)>>)]), Tables([default |-> Reply]),
             Tables([default |-> Prof(<<Rule("code", 1), Rule("fast", 2)>>)])}

\* Every graph of routes between three profiles and a tier.
Targets == {"default", "code", "deep", "fast"}
Rules(S) == LET s == SetToSeq(S) IN [k \in DOMAIN s |-> Rule(s[k], k % 2)]
Graphs ==
    {Files(Main(Rules(g["default"])), <<>>,
           Profiles(<<Code(Rules(g["code"])), [stem |-> "deep", value |-> Prof(Rules(g["deep"]))]>>)) :
        g \in [{"default", "code", "deep"} -> SUBSET Targets]}

\* Profile files: one named from within, one that is moved, broken ones.
Named1 == (<<"name">> :> Scalar("default")) @@ Prof(<<Rule("fast", 1)>>)
Moved == Tables([gateway |-> Names([profile_dir |-> "other"])])
Directories ==
    {Files(Main(<<>>), o, d) :
        o \in {<<>>, <<Moved>>, <<Moved, Tables([gateway |-> Text1("x")])>>, <<Broken>>},
        d \in {<<>>, Profiles(<<[stem |-> "a", value |-> Named1], Code(<<>>)>>),
               [other |-> <<Code(<<Rule("code", 0)>>)>>] @@ Profiles(<<[stem |-> "a", value |-> Broken]>>)}}

\* Of these the files that do not stack an array whose items have no name.
MCInputs ==
    {f \in Layers("aliases", Aliases) \union Layers("tiers", Ladders) \union Layers("clients", Clients)
            \union Layers("profiles", Cascading) \union Graphs \union Directories : Legible(f)}
=============================================================================
