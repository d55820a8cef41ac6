------------------------------- MODULE Dispatch -------------------------------
(***************************************************************************)
(* Mode A dispatch of router/modes.rs: requests sent to one tier of a      *)
(* local provider pass its priority gate, build a client, and run the      *)
(* retry loop under the gateway timeout.  The gate's variables and actions *)
(* are those of PriorityGate, which this module extends.  The gates are    *)
(* built once, at startup, for the tiers there are then; the tier's        *)
(* backend is looked up again by every dispatch, in a configuration that   *)
(* reloads replace at any time.                                            *)
(***************************************************************************)
EXTENDS PriorityGate, Sequences

CONSTANTS MaxRetries,      \* gateway.max_retries (absent means 0)
          RetryDelay,      \* gateway.retry_delay_ms
          DelayCap,        \* the 2 000 ms cap of one back-off sleep
          MaxDelay,        \* u64::MAX, where doubling saturates
          TimeoutEnabled   \* request_timeout_ms is set and not 0

ASSUME DispatchAssumption ==
    /\ MaxRetries \in Nat
    /\ RetryDelay \in Nat
    /\ DelayCap \in Nat
    /\ MaxDelay \in Nat /\ DelayCap <= MaxDelay
    /\ TimeoutEnabled \in BOOLEAN

VARIABLES
    hasGate,    \* the tier was there at startup, so RouterState.gates has its gate
    provider,   \* what the live configuration says of the tier's backend
    local,      \* whether the snapshot of a dispatch had a local provider
    phase,      \* where the request's dispatch stands
    attempts,   \* backend calls started
    delay,      \* delay_ms of the retry loop
    slept,      \* the sleeps taken so far, in order
    errors      \* the kinds of error last_err has held

tierVars == <<hasGate, provider>>
loopVars == <<attempts, delay, slept, errors>>
ownVars == <<tierVars, local, phase, loopVars>>
dispatchVars == <<vars, ownVars>>

(***************************************************************************)
(* start     before the backend lookup        calling   a backend call     *)
(* queued    in gate.acquire                            is in flight       *)
(* ready     past the gate, no client yet     sleeping  backing off        *)
(* answered, failed, timedout, gone: the dispatch future has ended         *)
(***************************************************************************)
Ended == {"answered", "failed", "timedout", "gone"}
Phases == {"start", "queued", "ready", "calling", "sleeping"} \union Ended

\* A backend error is transient (network, 5xx) or the request's fault (4xx).
ErrorKinds == {"transient", "client"}

\* Ollama and OpenAI-compatible backends are local, Anthropic and OpenRouter are
\* cloud; "none" is a backend that is not in the configuration.
Providers == {"local", "cloud", "none"}

\* The dispatch of r found a gate for its local tier.
Gated(r) == hasGate /\ local[r]

Least(a, b) == IF a <= b THEN a ELSE b

DispatchInit ==
    /\ Init
    /\ hasGate \in BOOLEAN
    /\ provider \in Providers \ {"none"}
    /\ local = [r \in Requests |-> FALSE]
    /\ phase = [r \in Requests |-> "start"]
    /\ attempts = [r \in Requests |-> 0]
    /\ delay = [r \in Requests |-> RetryDelay]
    /\ slept = [r \in Requests |-> <<>>]
    /\ errors = [r \in Requests |-> {}]

-----------------------------------------------------------------------------
\* Seeded fault: the permit outlives the future.
EndKeepsPermit(r, outcome) ==
    /\ phase' = [phase EXCEPT ![r] = outcome]
    /\ UNCHANGED vars

\* The dispatch future of r ends: the permit, if there is one, is dropped.
End(r, outcome) ==
    /\ phase' = [phase EXCEPT ![r] = outcome]
    /\ IF Gated(r) THEN DropPermit(r) ELSE UNCHANGED vars

\* The tier's backend is not in the config snapshot dispatch takes for itself.
LookupFails(r) ==
    /\ phase[r] = "start"
    /\ provider = "none"
    /\ phase' = [phase EXCEPT ![r] = "failed"]
    /\ UNCHANGED <<vars, tierVars, local, loopVars>>

\* A local provider, and a gate of the tier's name: gate.acquire, at once or
\* after a stay in the queue.
EnterGate(r) ==
    /\ phase[r] = "start"
    /\ provider = "local" /\ hasGate
    /\ local' = [local EXCEPT ![r] = TRUE]
    /\ \/ FireNow(r) /\ phase' = [phase EXCEPT ![r] = "ready"]
       \/ Enqueue(r) /\ phase' = [phase EXCEPT ![r] = "queued"]
    /\ UNCHANGED <<tierVars, loopVars>>

\* Seeded fault: a spurious wake-up of rx.await is taken for a grant.
LeaveQueueUngranted(r) ==
    /\ phase[r] = "queued"
    /\ pc[r] \in {"waiting", "granted"}
    /\ pc' = [pc EXCEPT ![r] = "holding"]
    /\ phase' = [phase EXCEPT ![r] = "ready"]
    /\ UNCHANGED <<inFlight, pending, nextTicket, prio, ticket, tierVars, local, loopVars>>

LeaveQueue(r) ==
    /\ phase[r] = "queued"
    /\ Resume(r)
    /\ phase' = [phase EXCEPT ![r] = "ready"]
    /\ UNCHANGED <<tierVars, local, loopVars>>

\* A cloud provider, or a tier that a reload has added: past the gate at once.
BypassGate(r) ==
    /\ phase[r] = "start"
    /\ provider = "cloud" \/ (provider = "local" /\ ~hasGate)
    /\ local' = [local EXCEPT ![r] = (provider = "local")]
    /\ phase' = [phase EXCEPT ![r] = "ready"]
    /\ UNCHANGED <<vars, tierVars, loopVars>>

\* BackendClient::new fails, after the permit was acquired.
BuildFails(r) ==
    /\ phase[r] = "ready"
    /\ End(r, "failed")
    /\ UNCHANGED <<tierVars, local, loopVars>>

StartCall(r) ==
    /\ attempts' = [attempts EXCEPT ![r] = @ + 1]
    /\ phase' = [phase EXCEPT ![r] = "calling"]

\* The first round of the retry loop.
FirstCall(r) ==
    /\ phase[r] = "ready"
    /\ StartCall(r)
    /\ UNCHANGED <<vars, tierVars, local, delay, slept, errors>>

CallSucceeds(r) ==
    /\ phase[r] = "calling"
    /\ End(r, "answered")
    /\ UNCHANGED <<tierVars, local, loopVars>>

\* Seeded fault: the doubling wraps around instead of saturating.
CallFailsWrapping(r, kind) ==
    /\ phase[r] = "calling"
    /\ attempts[r] <= MaxRetries
    /\ errors' = [errors EXCEPT ![r] = @ \union {kind}]
    /\ slept' = [slept EXCEPT ![r] = Append(@, Least(delay[r], DelayCap))]
    /\ delay' = [delay EXCEPT ![r] = (2 * @) % (MaxDelay + 1)]
    /\ phase' = [phase EXCEPT ![r] = "sleeping"]
    /\ UNCHANGED <<vars, tierVars, local, attempts>>

\* An error, whatever its kind, with rounds left: back off.
CallFails(r, kind) ==
    /\ phase[r] = "calling"
    /\ attempts[r] <= MaxRetries
    /\ errors' = [errors EXCEPT ![r] = @ \union {kind}]
    /\ slept' = [slept EXCEPT ![r] = Append(@, Least(delay[r], DelayCap))]
    /\ delay' = [delay EXCEPT ![r] = Least(2 * @, MaxDelay)]
    /\ phase' = [phase EXCEPT ![r] = "sleeping"]
    /\ UNCHANGED <<vars, tierVars, local, attempts>>

\* An error in the last round: the loop is left with last_err.
LastCallFails(r, kind) ==
    /\ phase[r] = "calling"
    /\ attempts[r] > MaxRetries
    /\ errors' = [errors EXCEPT ![r] = @ \union {kind}]
    /\ End(r, "failed")
    /\ UNCHANGED <<tierVars, local, attempts, delay, slept>>

Retry(r) ==
    /\ phase[r] = "sleeping"
    /\ StartCall(r)
    /\ UNCHANGED <<vars, tierVars, local, delay, slept, errors>>

\* Seeded fault: the deadline is only looked at between two rounds.
TimeOutBetweenRounds(r) ==
    /\ TimeoutEnabled
    /\ phase[r] = "sleeping"
    /\ End(r, "timedout")
    /\ UNCHANGED <<tierVars, local, loopVars>>

\* request_timeout_ms elapses: it covers the retry loop, not the gate.
TimeOut(r) ==
    /\ TimeoutEnabled
    /\ phase[r] \in {"calling", "sleeping"}
    /\ End(r, "timedout")
    /\ UNCHANGED <<tierVars, local, loopVars>>

\* The client disconnects: the handler's future is dropped wherever it is.
DisconnectInQueue(r) ==
    /\ phase[r] = "queued"
    /\ DisconnectQueued(r)
    /\ phase' = [phase EXCEPT ![r] = "gone"]
    /\ UNCHANGED <<tierVars, local, loopVars>>

DisconnectInHandOver(r) ==
    /\ phase[r] = "queued"
    /\ DisconnectGranted(r)
    /\ phase' = [phase EXCEPT ![r] = "gone"]
    /\ UNCHANGED <<tierVars, local, loopVars>>

DisconnectInCall(r) ==
    /\ phase[r] \in {"calling", "sleeping"}
    /\ End(r, "gone")
    /\ UNCHANGED <<tierVars, local, loopVars>>

\* The task a dropped permit left behind.
ReleaseSlot(r) == Release(r) /\ UNCHANGED ownVars

\* Seeded fault: a reload builds the gates of the new configuration anew.
ReloadAnew ==
    /\ provider' \in Providers
    /\ inFlight' = [p \in Priorities |-> 0]
    /\ UNCHANGED <<pending, nextTicket, prio, ticket, pc, hasGate, local, phase, loopVars>>

\* replace_config: the tier's backend changes or goes; RouterState.gates stays.
Reload ==
    /\ provider' \in Providers
    /\ UNCHANGED <<vars, hasGate, local, phase, loopVars>>

-----------------------------------------------------------------------------
\* What the gateway does on its own, as soon as the runtime polls the future.
Starts(r) == LookupFails(r) \/ EnterGate(r) \/ BypassGate(r)
Proceeds(r) == LeaveQueue(r) \/ BuildFails(r) \/ FirstCall(r) \/ Retry(r)

\* What the backend and the client do, if and when they do.
BackendAnswers(r) ==
    CallSucceeds(r) \/ \E kind \in ErrorKinds : CallFails(r, kind) \/ LastCallFails(r, kind)
Disconnects(r) == DisconnectInQueue(r) \/ DisconnectInCall(r)

Served(r) == Starts(r) \/ Proceeds(r) \/ BackendAnswers(r) \/ TimeOut(r)
               \/ Disconnects(r) \/ ReleaseSlot(r)

DispatchNext == Reload \/ \E r \in Requests : Served(r) \/ DisconnectInHandOver(r)

(***************************************************************************)
(* The runtime polls every ready future and fires every timer.  A backend  *)
(* owes no answer: a hung call ends only by the gateway timeout.           *)
(***************************************************************************)
DispatchFairness == \A r \in Requests :
    /\ WF_dispatchVars(Starts(r))
    /\ WF_dispatchVars(Proceeds(r))
    /\ WF_dispatchVars(TimeOut(r))
    /\ WF_dispatchVars(ReleaseSlot(r))

DispatchSpec == DispatchInit /\ [][DispatchNext]_dispatchVars
DispatchFairSpec == DispatchSpec /\ DispatchFairness

-----------------------------------------------------------------------------
DispatchTypeOK ==
    /\ TypeOK
    /\ hasGate \in BOOLEAN /\ provider \in Providers
    /\ local \in [Requests -> BOOLEAN]
    /\ phase \in [Requests -> Phases]
    /\ attempts \in [Requests -> 0 .. MaxRetries + 1]
    /\ delay \in [Requests -> Nat]
    /\ slept \in [Requests -> Seq(Nat)]
    /\ errors \in [Requests -> SUBSET ErrorKinds]

\* The permit spans the whole retry loop, back-off sleeps included, and no exit
\* (answer, last error, failed client build, timeout, disconnect) keeps it.
PermitSpansLoop ==
    \A r \in Requests :
        pc[r] = "holding" <=> Gated(r) /\ phase[r] \in {"ready", "calling", "sleeping"}

\* Through a tier that was there at startup no two requests of one priority ever
\* call a local backend together: not over a retry or a hand-over, not when one
\* of them began before a reload and the other after it, and not when the tier
\* was a cloud tier, or had no backend, in between.
OneCallPerPriority ==
    \A r, s \in Requests :
        /\ hasGate
        /\ local[r] /\ phase[r] = "calling"
        /\ local[s] /\ phase[s] = "calling"
        /\ prio[r] = prio[s]
        => r = s

\* The first sleep is RetryDelay and each later one twice the one before it, up
\* to DelayCap, however far the doubling has run; there is one sleep between any
\* two calls; and a request whose errors were all transient fails only after
\* exactly MaxRetries + 1 calls.  It says nothing of how often a request is
\* tried that the backend refused (4xx): see ClientErrorsNotRetried.
BackoffSchedule ==
    \A r \in Requests :
        /\ \A k \in DOMAIN slept[r] :
              slept[r][k] = Least(IF k = 1 THEN RetryDelay ELSE 2 * slept[r][k - 1], DelayCap)
        /\ phase[r] = "calling" => Len(slept[r]) = attempts[r] - 1
        /\ phase[r] = "failed" /\ errors[r] = {"transient"} => attempts[r] = MaxRetries + 1

\* A dispatch ends with its first 4xx error: config/gateway.rs:60-61 says that
\* such errors are not retried.  The loop looks at no kind, so this fails.
ClientErrorsNotRetried ==
    \A r \in Requests : "client" \in errors[r] => phase[r] \in Ended

\* The slot of r was handed over when its client had just left.
Ghost(r) == pc[r] = "ghost"

\* Every dispatch ends, even when every backend call hangs, unless it queues
\* behind a ghost: no sequence of failures, sleeps and retries outlasts the
\* gateway timeout, and each end lets the queue move on.
DispatchEndsBarGhosts ==
    \A r \in Requests :
        phase[r] = "start" ~> phase[r] \in Ended \/ \E g \in Requests : Ghost(g)

=============================================================================
