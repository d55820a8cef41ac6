------------------------------ MODULE ConfigFiles ------------------------------
(***************************************************************************)
(* ConfigReload with what is in the files: the catalogue says what each    *)
(* version of the main file and of the overlays holds, and Config::load,   *)
(* the module ConfigLoad, which of them it refuses.                        *)
(***************************************************************************)
EXTENDS ConfigReload, ConfigLoad

CONSTANTS Catalogue,   \* [version, holds]: a <<main, overlay>> version, its files
          Inputs       \* more files to load

Versions(entries) == {e.version : e \in entries}

ASSUME CatalogueAssumption ==
    /\ Versions(Catalogue) = (0 .. MaxChanges) \X (0 .. MaxChanges)
    /\ Invalid = Versions({e \in Catalogue : Load(e.holds) = Refused})

ASSUME LegibleFiles == \A f \in Inputs \union {e.holds : e \in Catalogue} : Legible(f)

Misread == {f \in Inputs : Load(f) # DeclaredLoad(f)}
MisreadVersions == Versions({e \in Catalogue : Load(e.holds) # DeclaredLoad(e.holds)})
SoundVersions == Versions({e \in Catalogue : DeclaredLoad(e.holds) # Refused})

\* "Deep-merge overlay into base", "fails at the first detected cycle": file by
\* file and path by path, load ends where the documentation's reading of all the
\* files together does, and refuses what dangles or cascades into itself: for
\* whatever mixture of versions a loader has read, and for all of Inputs.  Of
\* files that stack an array whose items have no name, of which the code and its
\* documentation differ (Legible), nothing is said.
LoadAsDeclared ==
    /\ \A p \in Loaders : read[p] \notin MisreadVersions
    /\ Misread = {}

\* "The running config is unchanged" by a load that fails: what is live was
\* read from files that fit together, although a load reads them one after the
\* other around an operator who writes them.
LiveIsSound == live \in SoundVersions
=============================================================================
