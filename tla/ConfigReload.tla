----------------------------- MODULE ConfigReload -----------------------------
(***************************************************************************)
(* Hot reload of the configuration: main loads it once, then the watcher   *)
(* task of main.rs polls the mtime of the main file, and every             *)
(* POST /admin/reload loads and installs it on demand.  The operator edits *)
(* the files meanwhile.  A file is its version number: every write of the  *)
(* main file gives it a new mtime, so the version stands for the mtime.    *)
(* The conf.d and profile files, which have no watched mtime, are one      *)
(* overlay version.                                                        *)
(***************************************************************************)
EXTENDS Integers

CONSTANTS Admins,         \* handlers of POST /admin/reload
          Watcher,        \* the config_watcher task
          Invalid,        \* the <<main, overlay>> versions that fail to parse,
                          \* merge or validate
          MaxChanges      \* bound on what the operator does to the files

ASSUME ReloadAssumption ==
    /\ Watcher \notin Admins
    /\ Invalid \subseteq Nat \X Nat
    /\ <<0, 0>> \notin Invalid
    /\ MaxChanges \in Nat

Loaders == Admins \union {Watcher}

None == -1   \* metadata(path).modified() failed

VARIABLES
    exists,     \* whether the main file is there
    main,       \* version of the main file last written
    overlay,    \* version of the conf.d and profile files
    changes,    \* what the operator has done so far
    live,       \* the config behind config_lock: <<main, overlay>>
    last,       \* last_mtime of the watcher
    first,      \* history: what last_mtime was at first
    sampled,    \* mtime of the watcher's current round
    step,       \* where each loader is in Config::load
    read,       \* the versions each loader has read
    overtaken,  \* history: the loaders that had read the main file when live
                \* was last replaced
    newest      \* history: the newest version of the main file ever live

vars == <<exists, main, overlay, changes, live, last, first, sampled, step,
          read, overtaken, newest>>
files == <<exists, main, overlay, changes>>

(***************************************************************************)
(* unborn     the watcher task has not sampled its first mtime             *)
(* idle       not loading                                                  *)
(* reading    Config::load is called                                       *)
(* merging    the main file is read, the overlays are not                  *)
(* loaded     everything is read: validate decides, replace_config follows *)
(***************************************************************************)
Steps == {"unborn", "idle", "reading", "merging", "loaded"}

Init ==
    /\ exists = TRUE
    /\ main = 0
    /\ overlay = 0
    /\ changes = 0
    /\ live = <<0, 0>>
    /\ last = None /\ first = None
    /\ sampled = None
    /\ step = [p \in Loaders |-> IF p = Watcher THEN "unborn" ELSE "idle"]
    /\ read = [p \in Loaders |-> <<0, 0>>]
    /\ overtaken = {}
    /\ newest = 0

-----------------------------------------------------------------------------
(* The operator.                                                           *)

Change ==
    /\ changes < MaxChanges
    /\ changes' = changes + 1
    /\ UNCHANGED <<live, last, first, sampled, step, read, overtaken, newest>>

\* The main file is written, or replaced by a new one.
EditMain == Change /\ main' = main + 1 /\ exists' = TRUE /\ UNCHANGED overlay

EditOverlay == Change /\ overlay' = overlay + 1 /\ UNCHANGED <<exists, main>>

\* The main file is moved away, or moved back with its mtime.
MoveMain == Change /\ exists' = ~exists /\ UNCHANGED <<main, overlay>>

-----------------------------------------------------------------------------
Mtime == IF exists THEN main ELSE None

At(p, from, to) == step[p] = from /\ step' = [step EXCEPT ![p] = to]

\* config_watcher starts: the first mtime, and the tick that is skipped.
FirstSample ==
    /\ At(Watcher, "unborn", "idle")
    /\ last' = Mtime /\ first' = Mtime
    /\ UNCHANGED <<files, live, sampled, read, overtaken, newest>>

\* A tick of the interval on which the mtime is not last_mtime.
Poll ==
    /\ Mtime # last
    /\ At(Watcher, "idle", "reading")
    /\ sampled' = Mtime
    /\ UNCHANGED <<files, live, last, first, read, overtaken, newest>>

\* POST /admin/reload.
Call(a) ==
    /\ At(a, "idle", "reading")
    /\ UNCHANGED <<files, live, last, first, sampled, read, overtaken, newest>>

\* Seeded fault: a loader keeps the text of the main file it first read.
ReadMainCached(p) ==
    /\ exists
    /\ At(p, "reading", "merging")
    /\ read' = [read EXCEPT ![p][1] = IF @ = 0 THEN main ELSE @]
    /\ UNCHANGED <<files, live, last, first, sampled, overtaken, newest>>

\* Config::load: read_to_string of the main file.
ReadMain(p) ==
    /\ exists
    /\ At(p, "reading", "merging")
    /\ read' = [read EXCEPT ![p][1] = main]
    /\ UNCHANGED <<files, live, last, first, sampled, overtaken, newest>>

\* The main file is not there: the load fails at once.
ReadFails(p) ==
    /\ ~exists
    /\ At(p, "reading", "idle")
    /\ UNCHANGED <<files, live, last, first, sampled, read, overtaken, newest>>

\* Config::load: the conf.d files and the profile directory.
ReadOverlay(p) ==
    /\ At(p, "merging", "loaded")
    /\ read' = [read EXCEPT ![p][2] = overlay]
    /\ UNCHANGED <<files, live, last, first, sampled, overtaken, newest>>

\* Seeded fault: validate is not called.
InstallUnchecked(p) ==
    /\ At(p, "loaded", "idle")
    /\ live' = read[p]
    /\ last' = IF p = Watcher THEN sampled ELSE last
    /\ newest' = IF read[p][1] > newest THEN read[p][1] ELSE newest
    /\ overtaken' = {q \in Loaders \ {p} : step[q] \in {"merging", "loaded"}}
    /\ UNCHANGED <<files, first, sampled, read>>

\* Seeded fault: last_mtime is taken after the load instead of before it.
InstallLateMtime(p) ==
    /\ read[p] \notin Invalid
    /\ At(p, "loaded", "idle")
    /\ live' = read[p]
    /\ last' = IF p = Watcher THEN Mtime ELSE last
    /\ newest' = IF read[p][1] > newest THEN read[p][1] ELSE newest
    /\ overtaken' = {q \in Loaders \ {p} : step[q] \in {"merging", "loaded"}}
    /\ UNCHANGED <<files, first, sampled, read>>

\* The load succeeds: replace_config, then the watcher notes its mtime.
Install(p) ==
    /\ read[p] \notin Invalid
    /\ At(p, "loaded", "idle")
    /\ live' = read[p]
    /\ last' = IF p = Watcher THEN sampled ELSE last
    /\ newest' = IF read[p][1] > newest THEN read[p][1] ELSE newest
    /\ overtaken' = {q \in Loaders \ {p} : step[q] \in {"merging", "loaded"}}
    /\ UNCHANGED <<files, first, sampled, read>>

\* Seeded fault: last_mtime is assigned whether or not the load succeeded.
RefuseAndMark(p) ==
    /\ read[p] \in Invalid
    /\ At(p, "loaded", "idle")
    /\ last' = IF p = Watcher THEN sampled ELSE last
    /\ UNCHANGED <<files, live, first, sampled, read, overtaken, newest>>

\* The load fails to parse or to validate: warn, or 422; nothing changes.
Refuse(p) ==
    /\ read[p] \in Invalid
    /\ At(p, "loaded", "idle")
    /\ UNCHANGED <<files, live, last, first, sampled, read, overtaken, newest>>

Loads(p) == ReadMain(p) \/ ReadFails(p) \/ ReadOverlay(p) \/ Install(p) \/ Refuse(p)

Next ==
    \/ EditMain \/ EditOverlay \/ MoveMain
    \/ FirstSample \/ Poll
    \/ \E a \in Admins : Call(a)
    \/ \E p \in Loaders : Loads(p)

(***************************************************************************)
(* The task is spawned once, the interval fires every five seconds, and a  *)
(* load that has begun is straight-line code.  Nobody owes an admin call.  *)
(***************************************************************************)
Fairness ==
    /\ WF_vars(FirstSample)
    /\ WF_vars(Poll)
    /\ \A p \in Loaders : WF_vars(Loads(p))

Spec == Init /\ [][Next]_vars
FairSpec == Spec /\ Fairness

-----------------------------------------------------------------------------
\* "The running config is unchanged" by a load that fails: what is live has
\* always passed validate, even when its two parts were read around an edit.
TypeOK ==
    /\ exists \in BOOLEAN
    /\ main \in Nat /\ overlay \in Nat
    /\ changes \in 0 .. MaxChanges
    /\ live \in ((0 .. main) \X (0 .. overlay)) \ Invalid
    /\ last \in {None} \union 0 .. main /\ first \in {None} \union 0 .. main
    /\ sampled \in {None} \union 0 .. main
    /\ step \in [Loaders -> Steps]
    /\ read \in [Loaders -> (0 .. main) \X (0 .. overlay)]
    /\ overtaken \in SUBSET Loaders
    /\ newest \in live[1] .. main

\* last_mtime never claims a version that has not been live: the watcher keeps
\* retrying a file that failed to load and rereads one that changed under it,
\* whatever the admin handlers do meanwhile.  The one exception is the mtime it
\* starts with: an edit between the load in main and that sample goes unseen.
AppliedMark == last <= newest \/ last = first

\* "Hot-reloads on change": once the operator stops, a main file that loads is
\* the live one, unless a slower load has since put an older one back, or the
\* file has not been written since the watcher's first sample of it.
MainConvergesBarRace ==
    <>[](exists /\ <<main, overlay>> \notin Invalid =>
            live[1] = main \/ live[1] < newest \/ main = first)

\* A reload never loses to one that ended before it began: an older main file
\* replaces a newer one only by a loader that had read it before that.
RealTimeOrder ==
    [][live'[1] < live[1] =>
          \E p \in overtaken : step[p] = "loaded" /\ step'[p] = "idle"]_vars
=============================================================================
