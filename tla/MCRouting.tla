------------------------------ MODULE MCRouting ------------------------------
EXTENDS Routing

Tier(name, label, cap) == [name |-> name, label |-> label, cap |-> cap]
Instant == Tier("local:instant", "instant", 1)
Fast    == Tier("local:fast", "fast", 2)
Deep    == Tier("local:deep", "deep", 1)
Expert  == Tier("cloud:expert", "expert", Uncapped)

Rule(when, to) == [when |-> when, to |-> to]
Prof(mode, classifier, ceiling, flag, skip, rules) ==
    [mode |-> mode, classifier |-> classifier, ceiling |-> ceiling, flag |-> flag,
     skip |-> skip, rules |-> rules]
Aliases == [n \in {"hint:fast", "hint:expert"} |->
               IF n = "hint:fast" THEN "local:fast" ELSE "cloud:expert"]
Reply == Prof("reply", "", "", FALSE, FALSE, <<>>)

\* A ladder of four; default cascades to code or leaves the ladder by a rule.
Main == [tiers |-> <<Instant, Deep, Fast, Expert>>, aliases |-> Aliases,
         profiles |-> [n \in {"default", "code", "direct", "ladder", "mute"} |->
           CASE n = "default" -> Prof("classify", "local:fast", "local:fast", TRUE, FALSE,
                  <<Rule({"hard"}, "hint:expert"), Rule({"code"}, "code"), Rule({"code"}, "local:instant")>>)
             [] n = "code"    -> Prof("classify", "local:instant", "local:fast", TRUE, FALSE,
                  <<Rule({"code", "home"}, "mute"), Rule({"home"}, "local:gone")>>)
             [] n = "direct"  -> Prof("dispatch", "local:instant", "local:fast", TRUE, FALSE, <<>>)
             [] n = "ladder"  -> Prof("escalate", "local:instant", "local:deep", TRUE, FALSE, <<>>)
             [] n = "mute"    -> Reply]]

\* The cascade turned around, a shorter ladder, no default profile's ceiling.
Turned == [tiers |-> <<Fast, Instant>>, aliases |-> [n \in {"hint:fast"} |-> "local:fast"],
           profiles |-> [n \in {"default", "code", "direct"} |->
             CASE n = "default" -> Prof("classify", "local:instant", "", FALSE, TRUE, <<>>)
               [] n = "code"    -> Prof("classify", "local:instant", "local:fast", FALSE, FALSE,
                    <<Rule({"code"}, "default"), Rule({}, "local:instant")>>)
               [] n = "direct"  -> Prof("dispatch", "local:instant", "local:fast", TRUE, FALSE, <<>>)]]

\* No default profile.
Bare == [tiers |-> <<Instant, Expert>>, aliases |-> [n \in {"hint:expert"} |-> "cloud:expert"],
         profiles |-> [n \in {"code"} |->
            Prof("classify", "cloud:expert", "local:instant", TRUE, FALSE, <<>>)]]

MCConfigs == {Main, Turned, Bare}
MCRequests == [profile : {"default", "code", "direct", "ladder", "mute", "nobody"},
               hint : {"hint:fast", "hint:expert", "local:instant", "gpt-4"},
               expert : BOOLEAN, tokens : {1, 2, 3},
               tool : BOOLEAN, silent : BOOLEAN, stream : BOOLEAN]
MCAnswers == {[label |-> "fast", tags |-> {"code"}], [label |-> "local:deep", tags |-> {"hard"}],
              [label |-> "what", tags |-> {"home"}], [label |-> "instant", tags |-> {"code", "home"}]}
=============================================================================
