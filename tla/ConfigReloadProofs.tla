-------------------------- MODULE ConfigReloadProofs --------------------------
(***************************************************************************)
(* Proofs about ConfigReload for any number of admin handlers, any set of  *)
(* unloadable versions and any number of edits, and about ConfigFiles for  *)
(* files of any content.                                                   *)
(***************************************************************************)
EXTENDS ConfigFiles, ConfigLoadProofs

USE DEF Steps, None, files, vars

-----------------------------------------------------------------------------
\* The files only move forward, and what was read of them lies behind them.
LEMMA PairsGrow ==
  ASSUME NEW m \in Nat, NEW o \in Nat, NEW m2 \in Nat, NEW o2 \in Nat,
         m <= m2, o <= o2
  PROVE  (0 .. m) \X (0 .. o) \subseteq (0 .. m2) \X (0 .. o2)
<1>1. 0 .. m \subseteq 0 .. m2 /\ 0 .. o \subseteq 0 .. o2
  OBVIOUS
<1>. QED  BY <1>1

LEMMA InitType == Init => TypeOK
<1> SUFFICES ASSUME Init PROVE TypeOK
  OBVIOUS
<1>1. live = <<0, 0>> /\ <<0, 0>> \in (0 .. main) \X (0 .. overlay)
  BY DEF Init
<1>2. live \in ((0 .. main) \X (0 .. overlay)) \ Invalid
  BY <1>1, ReloadAssumption
<1>3. read \in [Loaders -> (0 .. main) \X (0 .. overlay)]
  BY <1>1 DEF Init
<1>4. changes \in 0 .. MaxChanges /\ main \in Nat /\ overlay \in Nat
  BY ReloadAssumption DEF Init
<1>5. {last, first, sampled} \subseteq {None} \union 0 .. main
  BY DEF Init
<1>6. exists \in BOOLEAN /\ overtaken \in SUBSET Loaders
  BY Zenon DEF Init
<1>8. newest \in live[1] .. main
  BY <1>1, SMT DEF Init
<1>7. step \in [Loaders -> Steps]
  BY DEF Init
<1>. QED  BY <1>2, <1>3, <1>4, <1>5, <1>6, <1>7, <1>8 DEF TypeOK

\* The versions of the main file that are live or were read are on disk or older.
LEMMA PairParts ==
  ASSUME TypeOK
  PROVE  live[1] \in 0 .. main /\ \A p \in Loaders : read[p][1] \in 0 .. main
BY DEF TypeOK

\* newest stays between the live version and the one on disk.
LEMMA NewestType ==
  ASSUME TypeOK, main' \in Nat, main <= main',
         \/ UNCHANGED <<live, newest>>
         \/ \E p \in Loaders : Install(p) /\ main' = main
  PROVE  newest' \in live'[1] .. main'
<1>1. CASE UNCHANGED <<live, newest>>
  <2>1. newest' = newest /\ live'[1] = live[1]
    BY <1>1
  <2>2. newest \in live[1] .. main /\ live[1] \in 0 .. main /\ main \in Nat
    BY PairParts DEF TypeOK
  <2>. QED  BY <2>1, <2>2
<1>2. CASE \E p \in Loaders : Install(p) /\ main' = main
  <2>0. PICK p \in Loaders : Install(p) /\ main' = main
    BY <1>2
  <2>1. live' = read[p] /\ newest' = IF read[p][1] > newest THEN read[p][1] ELSE newest
    BY <2>0 DEF Install
  <2>2. read[p][1] \in 0 .. main /\ newest \in live[1] .. main /\ live[1] \in 0 .. main
    BY PairParts DEF TypeOK
  <2>. QED  BY <2>0, <2>1, <2>2
<1>. QED  BY <1>1, <1>2

\* The operator's edits keep the types.
LEMMA ChangeType ==
  ASSUME TypeOK, EditMain \/ EditOverlay \/ MoveMain
  PROVE  TypeOK'
<1>1. /\ main' \in Nat /\ overlay' \in Nat /\ main <= main' /\ overlay <= overlay'
      /\ changes' \in 0 .. MaxChanges
  BY ReloadAssumption DEF TypeOK, EditMain, EditOverlay, MoveMain, Change
<1>2. (0 .. main) \X (0 .. overlay) \subseteq (0 .. main') \X (0 .. overlay')
  BY <1>1, PairsGrow DEF TypeOK
<1>3. UNCHANGED <<live, last, first, sampled, step, read, overtaken, newest>>
  BY DEF EditMain, EditOverlay, MoveMain, Change
<1>4. live' \in ((0 .. main') \X (0 .. overlay')) \ Invalid
  BY <1>2, <1>3 DEF TypeOK
<1>5. read' \in [Loaders -> (0 .. main') \X (0 .. overlay')]
  BY <1>2, <1>3 DEF TypeOK
<1>6. {last, first, sampled}' \subseteq {None} \union 0 .. main'
  BY <1>1, <1>3 DEF TypeOK
<1>7. exists' \in BOOLEAN
  BY Zenon DEF TypeOK, EditMain, EditOverlay, MoveMain
<1>8. step' \in [Loaders -> Steps] /\ overtaken' \in SUBSET Loaders
  BY <1>3 DEF TypeOK
<1>9. newest' \in live'[1] .. main'
  BY <1>1, <1>3, NewestType DEF TypeOK
<1>. QED  BY <1>1, <1>4, <1>5, <1>6, <1>7, <1>8, <1>9 DEF TypeOK

\* Reading the main file or the overlays keeps a pair of versions.
LEMMA ReadType ==
  ASSUME TypeOK, NEW p \in Loaders, ReadMain(p) \/ ReadOverlay(p)
  PROVE  read' \in [Loaders -> (0 .. main) \X (0 .. overlay)]
<1>1. \A q \in Loaders : \E m \in 0 .. main, o \in 0 .. overlay : read[q] = <<m, o>>
  BY DEF TypeOK
<1>2. PICK m \in 0 .. main, o \in 0 .. overlay : read[p] = <<m, o>>
  BY <1>1
<1>3. main \in 0 .. main /\ overlay \in 0 .. overlay
  BY DEF TypeOK
<1>4. CASE ReadMain(p)
  <2>1. [read[p] EXCEPT ![1] = main] = <<main, o>>
    BY <1>2
  <2>2. read' = [read EXCEPT ![p] = <<main, o>>]
    BY <1>4, <2>1 DEF ReadMain
  <2>. QED  BY <2>2, <1>3 DEF TypeOK
<1>5. CASE ReadOverlay(p)
  <2>1. [read[p] EXCEPT ![2] = overlay] = <<m, overlay>>
    BY <1>2
  <2>2. read' = [read EXCEPT ![p] = <<m, overlay>>]
    BY <1>5, <2>1 DEF ReadOverlay
  <2>. QED  BY <2>2, <1>3 DEF TypeOK
<1>. QED  BY <1>4, <1>5

LEMMA MtimeType == TypeOK => Mtime \in {None} \union 0 .. main
BY DEF Mtime, TypeOK

\* A failed load changes nothing, and what is live has always passed validate,
\* in whatever order handlers and the watcher read and install.
THEOREM TypeCorrect == Spec => []TypeOK
<1>1. TypeOK /\ [Next]_vars => TypeOK'
  <2> SUFFICES ASSUME TypeOK, [Next]_vars
               PROVE  TypeOK'
    OBVIOUS
  <2>1. CASE EditMain \/ EditOverlay \/ MoveMain
    BY <2>1, ChangeType
  <2>2. CASE FirstSample
    <3>1. step' \in [Loaders -> Steps] /\ {last, first}' \subseteq {None} \union 0 .. main
      BY <2>2, MtimeType DEF FirstSample, At, TypeOK
    <3>. QED  BY <2>2, <3>1 DEF FirstSample, TypeOK
  <2>3. CASE Poll
    <3>1. step' \in [Loaders -> Steps] /\ sampled' \in {None} \union 0 .. main
      BY <2>3, MtimeType DEF Poll, At, TypeOK
    <3>. QED  BY <2>3, <3>1 DEF Poll, TypeOK
  <2>4. ASSUME NEW a \in Admins, Call(a) PROVE TypeOK'
    BY <2>4 DEF Call, At, TypeOK
  <2>5. ASSUME NEW p \in Loaders, ReadMain(p) \/ ReadOverlay(p) PROVE TypeOK'
    BY <2>5, ReadType DEF ReadMain, ReadOverlay, At, TypeOK
  <2>6. ASSUME NEW p \in Loaders, ReadFails(p) \/ Refuse(p) PROVE TypeOK'
    BY <2>6 DEF ReadFails, Refuse, At, TypeOK
  <2>7. ASSUME NEW p \in Loaders, Install(p) PROVE TypeOK'
    <3>1. newest' \in live'[1] .. main'
      BY <2>7, NewestType DEF Install, TypeOK
    <3>. QED  BY <2>7, <3>1 DEF Install, At, TypeOK
  <2>8. CASE UNCHANGED vars
    BY <2>8 DEF TypeOK
  <2>. QED  BY <2>1, <2>2, <2>3, <2>4, <2>5, <2>6, <2>7, <2>8 DEF Next, Loads
<1>. QED  BY InitType, <1>1, PTL DEF Spec

-----------------------------------------------------------------------------
\* What a loader has read of the main file is as new as the live config, unless
\* the live config was replaced after it read.
ReadsFresh ==
    \A p \in Loaders : step[p] \in {"merging", "loaded"} =>
        p \in overtaken \/ live[1] <= read[p][1]

OrderInv == TypeOK /\ ReadsFresh

LEMMA FreshStep == OrderInv /\ [Next]_vars => ReadsFresh'
<1> SUFFICES ASSUME TypeOK, ReadsFresh, [Next]_vars
             PROVE  ReadsFresh'
  BY DEF OrderInv
<1>1. CASE EditMain \/ EditOverlay \/ MoveMain
  BY <1>1 DEF EditMain, EditOverlay, MoveMain, Change, ReadsFresh
<1>2. CASE FirstSample \/ Poll
  BY <1>2 DEF FirstSample, Poll, At, ReadsFresh, TypeOK
<1>3. ASSUME NEW a \in Admins, Call(a) PROVE ReadsFresh'
  BY <1>3 DEF Call, At, ReadsFresh, TypeOK
<1>4. ASSUME NEW p \in Loaders, ReadMain(p) PROVE ReadsFresh'
  <2>1. read'[p][1] = main
    BY <1>4 DEF ReadMain, TypeOK
  <2>2. \A q \in Loaders \ {p} : step'[q] = step[q] /\ read'[q] = read[q]
    BY <1>4 DEF ReadMain, At, TypeOK
  <2>3. live' = live /\ overtaken' = overtaken /\ live[1] <= main
    BY <1>4, PairParts DEF ReadMain, TypeOK
  <2>. QED  BY <2>1, <2>2, <2>3 DEF ReadsFresh
<1>5. ASSUME NEW p \in Loaders, ReadOverlay(p) PROVE ReadsFresh'
  <2>1. \A q \in Loaders : read'[q][1] = read[q][1]
    <3>1. PICK m \in 0 .. main, o \in 0 .. overlay : read[p] = <<m, o>>
      BY DEF TypeOK
    <3>2. [read[p] EXCEPT ![2] = overlay] = <<m, overlay>>
      BY <3>1
    <3>3. read' = [read EXCEPT ![p] = <<m, overlay>>]
      BY <1>5, <3>2 DEF ReadOverlay
    <3>4. read'[p] = <<m, overlay>> /\ \A q \in Loaders \ {p} : read'[q] = read[q]
      BY <3>3 DEF TypeOK
    <3>5. read'[p][1] = m /\ read[p][1] = m
      BY <3>1, <3>4
    <3>6. ASSUME NEW q \in Loaders PROVE read'[q][1] = read[q][1]
      BY <3>4, <3>5
    <3>. QED  BY <3>6
  <2>2. \A q \in Loaders : step'[q] = step[q] \/ (q = p /\ step[q] = "merging")
    BY <1>5 DEF ReadOverlay, At, TypeOK
  <2>3. live' = live /\ overtaken' = overtaken
    BY <1>5 DEF ReadOverlay
  <2>. QED  BY <2>1, <2>2, <2>3 DEF ReadsFresh
<1>6. ASSUME NEW p \in Loaders, ReadFails(p) \/ Refuse(p) PROVE ReadsFresh'
  BY <1>6 DEF ReadFails, Refuse, At, ReadsFresh, TypeOK
<1>7. ASSUME NEW p \in Loaders, Install(p) PROVE ReadsFresh'
  BY <1>7 DEF Install, At, ReadsFresh, TypeOK
<1>8. CASE UNCHANGED vars
  BY <1>8 DEF ReadsFresh
<1>. QED  BY <1>1, <1>2, <1>3, <1>4, <1>5, <1>6, <1>7, <1>8 DEF Next, Loads

\* An older main file replaces a newer one only by a loader that overlapped the
\* newer one's installation: reloads that follow one another are never undone.
THEOREM ReloadsInOrder == Spec => RealTimeOrder
<1>1. Init => ReadsFresh
  BY DEF Init, ReadsFresh
<1>2. OrderInv /\ [Next]_vars =>
        (live'[1] < live[1] =>
            \E p \in overtaken : step[p] = "loaded" /\ step'[p] = "idle")
  <2> SUFFICES ASSUME OrderInv, [Next]_vars, live'[1] < live[1]
               PROVE  \E p \in overtaken : step[p] = "loaded" /\ step'[p] = "idle"
    OBVIOUS
  <2>1. live' # live
    BY PairParts DEF OrderInv
  <2>2. PICK p \in Loaders : Install(p)
    BY <2>1 DEF Next, Loads, EditMain, EditOverlay, MoveMain, Change, FirstSample,
                Poll, Call, ReadMain, ReadFails, ReadOverlay, Refuse
  <2>3. step[p] = "loaded" /\ step'[p] = "idle" /\ live' = read[p]
    BY <2>2 DEF Install, At, OrderInv, TypeOK
  <2>4. ~(live[1] <= read[p][1])
    BY <2>3, PairParts DEF OrderInv, TypeOK
  <2>. QED  BY <2>3, <2>4 DEF OrderInv, ReadsFresh
<1>3. Spec => []OrderInv
  <2>1. OrderInv /\ [Next]_vars => ReadsFresh'
    BY FreshStep
  <2>. QED  BY <1>1, <2>1, TypeCorrect, PTL DEF Spec, OrderInv
<1>. QED  BY <1>2, <1>3, PTL DEF Spec, RealTimeOrder

-----------------------------------------------------------------------------
\* The watcher's bookkeeping: the mtime of a round is no newer than what the
\* round reads.
WatcherInv ==
    /\ AppliedMark
    /\ step[Watcher] \in {"merging", "loaded"} => sampled <= read[Watcher][1]

LEMMA WatcherStep ==
  ASSUME TypeOK, WatcherInv, [Next]_vars
  PROVE  WatcherInv'
<1>0. Watcher \in Loaders /\ newest \in Int /\ last \in Int /\ sampled \in Int
  BY PairParts DEF Loaders, TypeOK
<1>. USE <1>0, PairParts
<1>1. CASE EditMain \/ EditOverlay \/ MoveMain
  BY <1>1 DEF EditMain, EditOverlay, MoveMain, Change, WatcherInv, AppliedMark
<1>2. CASE FirstSample
  BY <1>2 DEF FirstSample, At, Mtime, WatcherInv, AppliedMark, TypeOK
<1>3. CASE Poll
  BY <1>3 DEF Poll, At, WatcherInv, AppliedMark, TypeOK
<1>4. ASSUME NEW a \in Admins, Call(a) PROVE WatcherInv'
  BY <1>4, ReloadAssumption DEF Call, At, WatcherInv, AppliedMark, TypeOK
<1>5. ASSUME NEW p \in Loaders, ReadMain(p) PROVE WatcherInv'
  <2>1. read' = [read EXCEPT ![p][1] = main] /\ step' = [step EXCEPT ![p] = "merging"]
    BY <1>5 DEF ReadMain, At
  <2>2. CASE p = Watcher
    <3>1. read'[Watcher][1] = main /\ sampled <= main
      BY <2>1, <2>2 DEF TypeOK
    <3>2. step'[Watcher] = "merging"
      BY <2>1, <2>2 DEF TypeOK
    <3>. QED  BY <1>5, <3>1, <3>2 DEF ReadMain, WatcherInv, AppliedMark
  <2>3. CASE p # Watcher
    BY <1>5, <2>1, <2>3 DEF ReadMain, WatcherInv, AppliedMark, TypeOK
  <2>. QED  BY <2>2, <2>3
<1>6. ASSUME NEW p \in Loaders, ReadOverlay(p) PROVE WatcherInv'
  <2>1. step[p] = "merging" /\ step' = [step EXCEPT ![p] = "loaded"]
    BY <1>6 DEF ReadOverlay, At
  <2>2. read'[Watcher][1] = read[Watcher][1]
    BY <1>6 DEF ReadOverlay, TypeOK
  <2>3. step'[Watcher] = step[Watcher] \/ (step[Watcher] = "merging" /\ step'[Watcher] = "loaded")
    BY <2>1 DEF TypeOK
  <2>. QED  BY <1>6, <2>2, <2>3 DEF ReadOverlay, WatcherInv, AppliedMark
<1>7. ASSUME NEW p \in Loaders, ReadFails(p) \/ Refuse(p) PROVE WatcherInv'
  BY <1>7 DEF ReadFails, Refuse, At, WatcherInv, AppliedMark, TypeOK
<1>8. ASSUME NEW p \in Loaders, Install(p) PROVE WatcherInv'
  <2>1. newest' >= newest /\ newest' >= read[p][1]
    BY <1>8 DEF Install
  <2>2. last' = IF p = Watcher THEN sampled ELSE last
    BY <1>8 DEF Install
  <2>3. step[p] = "loaded" /\ step' = [step EXCEPT ![p] = "idle"] /\ UNCHANGED <<main, sampled, read>>
    BY <1>8 DEF Install, At
  <2>4. newest' \in Int
    BY <1>8 DEF Install
  <2>5. AppliedMark'
    <3>1. CASE p = Watcher
      BY <2>1, <2>2, <2>3, <2>4, <3>1 DEF WatcherInv, AppliedMark, TypeOK
    <3>2. CASE p # Watcher
      <4>1. last' = last /\ first' = first
        BY <1>8, <2>2, <3>2 DEF Install
      <4>. QED  BY <2>1, <2>4, <4>1 DEF WatcherInv, AppliedMark
    <3>. QED  BY <3>1, <3>2
  <2>6. step'[Watcher] \in {"merging", "loaded"} => sampled' <= read'[Watcher][1]
    BY <2>3 DEF WatcherInv, TypeOK
  <2>. QED  BY <2>5, <2>6 DEF WatcherInv
<1>9. CASE UNCHANGED vars
  BY <1>9 DEF WatcherInv, AppliedMark
<1>. QED  BY <1>1, <1>2, <1>3, <1>4, <1>5, <1>6, <1>7, <1>8, <1>9 DEF Next, Loads

\* Apart from the mtime the watcher starts with, last_mtime never claims a
\* version that has not been live, so a file that failed to load or changed under
\* a load is tried again, whatever other loaders do.
THEOREM WatcherNeverSkips == Spec => []AppliedMark
<1>. DEFINE IInv == TypeOK /\ WatcherInv
<1>1. Init => WatcherInv
  BY DEF Init, WatcherInv, AppliedMark, Loaders
<1>2. IInv /\ [Next]_vars => WatcherInv'
  BY WatcherStep
<1>3. IInv => AppliedMark
  BY DEF WatcherInv
<1>. QED  BY <1>1, <1>2, <1>3, TypeCorrect, PTL DEF Spec

-----------------------------------------------------------------------------
(* What is in the files.                                                   *)

\* A version number counts edits, so the catalogue has it.
EditsCounted == main <= changes /\ overlay <= changes

\* Every edit raises the count at least as much as the version it writes.
LEMMA CountStep ==
  ASSUME TypeOK, EditsCounted, [Next]_vars
  PROVE  EditsCounted'
<1>. USE DEF EditsCounted
<1>1. main \in Int /\ overlay \in Int /\ changes \in Int
  BY ReloadAssumption DEF TypeOK
<1>2. CASE EditMain \/ EditOverlay \/ MoveMain
  BY <1>1, <1>2 DEF EditMain, EditOverlay, MoveMain, Change
<1>3. CASE UNCHANGED files
  BY <1>3
<1>4. \/ EditMain \/ EditOverlay \/ MoveMain
      \/ UNCHANGED files
  BY DEF Next, Loads, FirstSample, Poll, Call, ReadMain, ReadFails, ReadOverlay, Install, Refuse
<1>. QED  BY <1>2, <1>3, <1>4

\* What is live is in the catalogue and is not refused.
LEMMA LiveIsListed ==
  ASSUME TypeOK, EditsCounted
  PROVE  live \in Versions(Catalogue) \ Invalid
<1>1. main \in 0 .. MaxChanges /\ overlay \in 0 .. MaxChanges
  BY ReloadAssumption DEF TypeOK, EditsCounted
<1>2. MaxChanges \in Nat
  BY ReloadAssumption
<1>3. (0 .. main) \X (0 .. overlay) \subseteq (0 .. MaxChanges) \X (0 .. MaxChanges)
  BY <1>1, <1>2, PairsGrow
<1>. QED  BY <1>3, CatalogueAssumption DEF TypeOK

\* Every load of listed files ends as they declare.
LEMMA ListedAsDeclared ==
  /\ \A e \in Catalogue : Load(e.holds) = DeclaredLoad(e.holds)
  /\ \A f \in Inputs : Load(f) = DeclaredLoad(f)
<1>1. ASSUME NEW e \in Catalogue PROVE Load(e.holds) = DeclaredLoad(e.holds)
  <2>1. Legible(e.holds)
    BY LegibleFiles
  <2>. QED  BY <2>1, LoadIsDeclared
<1>2. ASSUME NEW f \in Inputs PROVE Load(f) = DeclaredLoad(f)
  <2>1. Legible(f)
    BY LegibleFiles
  <2>. QED  BY <2>1, LoadIsDeclared
<1>. QED  BY <1>1, <1>2

\* Whatever mixture of versions a loader has read, and whatever is in the files,
\* merging them one after the other and searching path by path ends where the
\* documentation's reading of all of them together does.
THEOREM LoadsAsDeclared == Spec => []LoadAsDeclared
<1>1. MisreadVersions = {} /\ Misread = {}
  BY ListedAsDeclared DEF MisreadVersions, Misread, Versions
<1>2. LoadAsDeclared
  BY <1>1 DEF LoadAsDeclared
<1>. QED  BY <1>2, PTL

\* What is live names nothing that is missing and has no cascade that closes,
\* however edits, handlers and the watcher interleave around its parts.
THEOREM LiveStaysSound == Spec => []LiveIsSound
<1>1. Init => EditsCounted
  BY DEF Init, EditsCounted
<1>2. TypeOK /\ EditsCounted /\ [Next]_vars => EditsCounted'
  BY CountStep
<1>3. TypeOK /\ EditsCounted => LiveIsSound
  <2> SUFFICES ASSUME TypeOK, EditsCounted PROVE LiveIsSound
    OBVIOUS
  <2>1. PICK e \in Catalogue : live = e.version
    BY LiveIsListed DEF Versions
  <2>2. Load(e.holds) # Refused
    BY <2>1, LiveIsListed, CatalogueAssumption DEF Versions
  <2>3. DeclaredLoad(e.holds) # Refused
    BY <2>2, ListedAsDeclared
  <2>. QED  BY <2>1, <2>3 DEF LiveIsSound, SoundVersions, Versions
<1>. QED  BY <1>1, <1>2, <1>3, TypeCorrect, PTL DEF Spec
==============================================================================
