-------------------------------- MODULE MCPort --------------------------------
(***************************************************************************)
(* The three components behind the client port that share no variable: the *)
(* way of a request through its layers (Admission), one token bucket       *)
(* (RateLimiter) and the traffic log (TrafficLog).  No action of one reads *)
(* or writes a variable of another, so a behaviour of all three is made of *)
(* a behaviour of each, and what is true in every state of each alone is   *)
(* true in every state of all: one component moves, the others stay as     *)
(* they began.                                                             *)
(***************************************************************************)
EXTENDS Admission, RateLimiter, TrafficLog, TLC

VARIABLE part    \* the component that moves

None0 == "none"
Profile(rpm, classifier) == [rpm |-> rpm, classifier |-> classifier]

\* A client of a limited profile, strangers on the default one; no clients; a
\* client, no public profile, a tier that is gone and one that is remodelled.
WithPublic ==
    [clients |-> "k1" :> "team", public |-> "default", ipRpm |-> 2,
     profiles |-> "default" :> Profile(1, "t1") @@ "team" :> Profile(1, "t1"),
     model |-> "t1" :> "m1" @@ "t2" :> "m2"]
Open ==
    [clients |-> <<>>, public |-> None0, ipRpm |-> 0,
     profiles |-> "default" :> Profile(1, "t1"), model |-> "t1" :> "m2"]
Closed ==
    [clients |-> "k1" :> "team", public |-> None0, ipRpm |-> 1,
     profiles |-> "team" :> Profile(0, "t1"), model |-> "t1" :> "m1"]

MCConfig == "public" :> WithPublic @@ "open" :> Open @@ "closed" :> Closed
MCSymmetry == Permutations(Requests) \union Permutations(Handlers)

PortInit ==
    /\ Init /\ BucketInit /\ LogInit
    /\ part \in {"admission", "bucket", "log"}
    /\ part # "admission" => boot = "public"    \* one start-up config is enough then

AdmissionMoves == part = "admission" /\ Next /\ UNCHANGED <<bucketVars, logVars, part>>
BucketMoves == part = "bucket" /\ BucketNext /\ UNCHANGED <<vars, logVars, part>>
LogMoves == part = "log" /\ LogNext /\ UNCHANGED <<vars, bucketVars, part>>

PortNext == AdmissionMoves \/ BucketMoves \/ LogMoves
PortSpec == PortInit /\ [][PortNext]_<<vars, bucketVars, logVars, part>>
=============================================================================
