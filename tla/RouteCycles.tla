----------------------------- MODULE RouteCycles ------------------------------
(***************************************************************************)
(* validate_profile_route_cycles of config/mod.rs: Config::load refuses    *)
(* profiles that cascade in a circle.  Of a profile only its rules matter, *)
(* of a rule its route_to: to.  A target that is no profile is a tier.     *)
(***************************************************************************)
EXTENDS Integers, Sequences

\* A rule of profile n cascades to profile m.
Cascades(profiles, n, m) ==
    m \in DOMAIN profiles /\ \E k \in DOMAIN profiles[n].rules : profiles[n].rules[k].to = m

\* dfs_profile_routes: below the path some route leads back into it.
Closes(profiles) ==
    LET dfs[path \in Seq(DOMAIN profiles)] ==
            \E q \in DOMAIN profiles :
                /\ Cascades(profiles, path[Len(path)], q)
                /\ (\E i \in DOMAIN path : path[i] = q) \/ dfs[Append(path, q)]
    IN  dfs

\* The search starts from every profile.
RoutesEnd(profiles) == \A p \in DOMAIN profiles : ~Closes(profiles)[<<p>>]

\* What it looks for: profiles each of which cascades to another one of them.
CascadeCycle(profiles) ==
    \E S \in (SUBSET DOMAIN profiles) \ {{}} :
        \A n \in S : \E m \in S : Cascades(profiles, n, m)
=============================================================================
