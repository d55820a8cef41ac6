------------------------------ MODULE TrafficLog ------------------------------
(***************************************************************************)
(* The traffic log of traffic.rs and what is drawn from it: a ring buffer  *)
(* behind a mutex that request handlers write with try_lock and that       *)
(* escalate and the pages of the two ports (/admin/traffic, /metrics,      *)
(* /status, /admin/backends/health) read with lock().await.  Of an entry   *)
(* the model keeps backend, success and escalated: the counts of a page    *)
(* and the verdicts.  Latencies and the layout of the pages are left out.  *)
(***************************************************************************)
EXTENDS Integers, Sequences, FiniteSets

CONSTANTS Handlers,       \* request handlers, each running one request at a time
          Readers,        \* escalate and the handlers of the pages
          Backends,
          Limit,          \* the limit of /admin/traffic
          LogCapacity,    \* traffic_log_capacity
          HealthWindow,   \* health_window; 0 disables the verdicts
          ErrorsIn, Of,   \* health_error_threshold as the fraction ErrorsIn / Of
          MaxCalls        \* bound on the backend calls

Free == "free"        \* nobody holds the mutex
NoBackend == "none"   \* the backend of an entry of reply mode

ASSUME TrafficAssumption ==
    /\ Free \notin Handlers \union Readers
    /\ Handlers \intersect Readers = {}
    /\ LogCapacity \in Nat /\ Limit \in Nat
    /\ HealthWindow \in Nat
    /\ ErrorsIn \in Nat /\ Of \in Nat \ {0}
    /\ MaxCalls \in Nat

Entry == [backend : Backends \union {NoBackend}, success : BOOLEAN, escalated : BOOLEAN]
Outcome == [backend : Backends, success : BOOLEAN]

VARIABLES
    entries,     \* TrafficLog.entries, oldest first
    lock,        \* who holds the mutex, or Free
    hand,        \* the entry a handler is about to push, or none
    unhealthy,   \* what each reader last found unhealthy
    page,        \* what each reader is putting together, or the last page it sent
    outcomes,    \* history: the outcome of every backend call, in order
    accepted,    \* history: every entry that went into the buffer, in order
    contended    \* history: the entries given up because the mutex was held

logVars == <<entries, lock, hand, unhealthy, page, outcomes, accepted, contended>>

\* What a handler holds: at most one entry.
Hands == {<<>>} \union {<<e>> : e \in Entry}

\* The sections under the lock each page is made of, in the order of the code.
Sections == [health |-> <<"judge">>, traffic |-> <<"recent", "stats">>,
             metrics |-> <<"recent">>, status |-> <<"stats">>]

\* A page: the sections still due, what the others returned, and, as history,
\* how many entries had been stored when it was asked for.
Totals(records) ==
    [total |-> Len(records),
     errors |-> Cardinality({i \in DOMAIN records : ~records[i].success}),
     escalations |-> Cardinality({i \in DOMAIN records : records[i].escalated})]
Page(report, due, listed, totals, since) ==
    [report |-> report, due |-> due, listed |-> listed, totals |-> totals, since |-> since]
NoPage == Page("none", <<>>, <<>>, Totals(<<>>), 0)

LogInit ==
    /\ entries = <<>>
    /\ lock = Free
    /\ hand = [h \in Handlers |-> <<>>]
    /\ unhealthy = [r \in Readers |-> {}]
    /\ page = [r \in Readers |-> NoPage]
    /\ outcomes = <<>>
    /\ accepted = <<>>
    /\ contended = 0

-----------------------------------------------------------------------------
Called(b, ok) ==
    /\ Len(outcomes) < MaxCalls
    /\ outcomes' = Append(outcomes, [backend |-> b, success |-> ok])

Holds(h, b, escalated) ==
    hand' = [hand EXCEPT ![h] = <<[backend |-> b, success |-> TRUE, escalated |-> escalated]>>]

\* dispatch or escalate returns Ok, or a stream opens: route builds the entry it
\* will push; escalate marks the answer of any tier but the first.
CallSucceeds(h, b, escalated) ==
    /\ hand[h] = <<>>
    /\ Called(b, TRUE)
    /\ Holds(h, b, escalated)
    /\ UNCHANGED <<entries, lock, unhealthy, page, accepted, contended>>

\* Reply mode: an entry without a call.
Replies(h) ==
    /\ hand[h] = <<>>
    /\ Len(accepted) + contended < MaxCalls
    /\ Holds(h, NoBackend, FALSE)
    /\ UNCHANGED <<entries, lock, unhealthy, page, outcomes, accepted, contended>>

\* The call fails: `?` leaves route before the push, or escalate moves on.
CallFails(h, b) ==
    /\ hand[h] = <<>>
    /\ Called(b, FALSE)
    /\ UNCHANGED <<entries, lock, hand, unhealthy, page, accepted, contended>>

\* push: try_lock succeeds ...
TryLock(h) ==
    /\ hand[h] # <<>>
    /\ lock = Free
    /\ lock' = h
    /\ UNCHANGED <<entries, hand, unhealthy, page, outcomes, accepted, contended>>

\* ... or does not, and the entry is dropped.
Drop(h) ==
    /\ hand[h] # <<>>
    /\ lock \notin {Free, h}
    /\ hand' = [hand EXCEPT ![h] = <<>>]
    /\ contended' = contended + 1
    /\ UNCHANGED <<entries, lock, unhealthy, page, outcomes, accepted>>

\* Seeded fault: the newest entry makes room instead of the oldest.
RoomAtTheBack ==
    IF Len(entries) = LogCapacity /\ entries # <<>>
    THEN SubSeq(entries, 1, Len(entries) - 1) ELSE entries

\* pop_front when the buffer is exactly full; on an empty buffer it does nothing.
Room == IF Len(entries) = LogCapacity /\ entries # <<>> THEN Tail(entries) ELSE entries

\* push, under the lock.
Store(h) ==
    /\ lock = h
    /\ entries' = Append(Room, hand[h][1])
    /\ accepted' = Append(accepted, hand[h][1])
    /\ hand' = [hand EXCEPT ![h] = <<>>]
    /\ lock' = Free
    /\ UNCHANGED <<unhealthy, page, outcomes, contended>>

-----------------------------------------------------------------------------
\* The last n members of a sequence.
Newest(s, n) == SubSeq(s, IF Len(s) > n THEN Len(s) - n + 1 ELSE 1, Len(s))

\* The newest HealthWindow records of one backend.
WindowOf(b, records) == Newest(SelectSeq(records, LAMBDA e : e.backend = b), HealthWindow)

Errors(records) == Cardinality({i \in DOMAIN records : ~records[i].success})

\* backend_health: three samples at least, and an error rate not below the threshold.
Degraded(records) ==
    Len(records) >= 3 /\ Errors(records) * Of >= ErrorsIn * Len(records)

Judged(records) == {b \in Backends : Degraded(WindowOf(b, records))}

\* A page is asked for.
Ask(r, report) ==
    /\ page[r].due = <<>>
    /\ page' = [page EXCEPT ![r] =
                   Page(report, Sections[report], <<>>, Totals(<<>>), Len(accepted))]
    /\ UNCHANGED <<entries, lock, hand, unhealthy, outcomes, accepted, contended>>

\* lock().await, in any of the sections.
Lock(r) ==
    /\ page[r].due # <<>>
    /\ lock = Free
    /\ lock' = r
    /\ UNCHANGED <<entries, hand, unhealthy, page, outcomes, accepted, contended>>

\* The section of r under the lock, with what it adds to the page.
Section(r, name, listed, totals) ==
    /\ lock = r
    /\ page[r].due # <<>> /\ Head(page[r].due) = name
    /\ page' = [page EXCEPT ![r] = Page(@.report, Tail(@.due), listed, totals, @.since)]
    /\ lock' = Free
    /\ UNCHANGED <<entries, hand, outcomes, accepted, contended>>

\* backend_health.
Judge(r) ==
    /\ Section(r, "judge", page[r].listed, page[r].totals)
    /\ unhealthy' = [unhealthy EXCEPT ![r] = Judged(entries)]

\* Seeded fault: the entries that were there first, not last.
RecentOldest(r) ==
    LET n == IF page[r].report = "metrics" \/ Limit > Len(entries) THEN Len(entries) ELSE Limit
        listed == SubSeq(entries, 1, n)
    IN  /\ Section(r, "recent", listed,
                   IF page[r].report = "metrics" THEN Totals(listed) ELSE page[r].totals)
        /\ UNCHANGED unhealthy

NewestFirst(s) == [i \in DOMAIN s |-> s[Len(s) + 1 - i]]

\* recent; metrics asks for all entries and counts them itself.
Recent(r) ==
    LET all == page[r].report = "metrics"
        listed == NewestFirst(Newest(entries, IF all THEN Len(entries) ELSE Limit))
    IN  /\ Section(r, "recent", listed, IF all THEN Totals(listed) ELSE page[r].totals)
        /\ UNCHANGED unhealthy

\* stats and public_stats.
Stats(r) ==
    /\ Section(r, "stats", page[r].listed, Totals(entries))
    /\ UNCHANGED unhealthy

LogNext ==
    \/ \E h \in Handlers :
          \/ \E b \in Backends :
                CallFails(h, b) \/ \E escalated \in BOOLEAN : CallSucceeds(h, b, escalated)
          \/ Replies(h) \/ TryLock(h) \/ Drop(h) \/ Store(h)
    \/ \E r \in Readers :
          \/ \E report \in DOMAIN Sections : Ask(r, report)
          \/ Lock(r) \/ Judge(r) \/ Recent(r) \/ Stats(r)

LogSpec == LogInit /\ [][LogNext]_logVars

-----------------------------------------------------------------------------
LogTypeOK ==
    /\ entries \in Seq(Entry)
    /\ lock \in {Free} \union Handlers \union Readers
    /\ hand \in [Handlers -> Hands]
    /\ unhealthy \in [Readers -> SUBSET Backends]
    /\ outcomes \in Seq(Outcome) /\ accepted \in Seq(Entry)
    /\ DOMAIN page = Readers
    /\ \A r \in Readers : page[r].report \in DOMAIN Sections \union {"none"}
    /\ contended \in Nat
    /\ lock \in Handlers => hand[lock] # <<>>

\* "A bounded, O(1) memory footprint regardless of request volume".
Bounded == Len(entries) <= LogCapacity

\* What is kept is exactly the newest entries, in order: no eviction takes the
\* wrong end, and no race of two pushes loses an entry already stored.
NewestKept == entries = Newest(accepted, LogCapacity)

\* The buffer after the first n entries stored.
BufferAt(n) == Newest(SubSeq(accepted, 1, n), LogCapacity)

\* What a finished page says, when its first section saw one buffer and its last
\* one another.
Fits(p, verdict, before, after) ==
    CASE p.report = "traffic" -> /\ p.listed = NewestFirst(Newest(before, Limit))
                                 /\ p.totals = Totals(after)
      [] p.report = "metrics" -> p.listed = NewestFirst(before) /\ p.totals = Totals(before)
      [] p.report = "status"  -> p.totals = Totals(after)
      [] p.report = "health"  -> verdict = Judged(after)

\* Each section of a page shows the buffer as it was at one moment between the
\* request for the page and its answer, newest first; the two of /admin/traffic
\* may show two moments, the counts never an earlier one than the list.
PagesInOrder ==
    \A r \in Readers : page[r].report # "none" /\ page[r].due = <<>> =>
        \E i \in page[r].since .. Len(accepted) : \E j \in i .. Len(accepted) :
            Fits(page[r], unhealthy[r], BufferAt(i), BufferAt(j))

\* "If a backend's error rate over this window exceeds health_error_threshold,
\* that backend is skipped": a verdict drawn when no outcome was evicted or
\* dropped finds every backend whose last outcomes are that bad.
FailingBackendFound ==
    [][\A r \in Readers :
          /\ lock = r /\ lock' = Free /\ Head(page[r].due) = "judge"
          /\ contended = 0 /\ Len(outcomes) <= LogCapacity
          => Judged(outcomes) \subseteq unhealthy'[r]]_logVars
=============================================================================
