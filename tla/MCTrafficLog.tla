----------------------------- MODULE MCTrafficLog -----------------------------
EXTENDS TrafficLog, TLC

\* Handlers are told apart by nothing; only invariants are checked with it.
MCSymmetry == Permutations(Handlers)
=============================================================================
