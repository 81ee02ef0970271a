---------------------------- MODULE ViewerAssets ----------------------------
(***************************************************************************)
(* What the viewer shows of the selected file: the catalog it polls        *)
(* (cadManifestStore.js), the status of the file's artifact (useArtifact,  *)
(* which UseArtifact models in full), and the loaders of useCadAssets.js,  *)
(* started by effects of CadWorkspace.js and served by the caches of       *)
(* renderAssetClient.js, while builds replace the package on disk.         *)
(*                                                                         *)
(* A package is a descriptor (assembly.json) that names component GLBs; a  *)
(* plain file is fetched whole.  A version stands for the bytes of one     *)
(* build, its hash and the ?v= token of its URL; the server serves what is *)
(* on disk whatever the token says.  JavaScript runs an event and the      *)
(* promise continuations it settles to the end: that is one step.  React   *)
(* renders and runs the effects of a change before the next event (were a  *)
(* load to start and fail within one render, it would not be retried).     *)
(* A cancelled load is aborted and its rejection ignored: it disappears.   *)
(* A render backend, closing the last tab and a page's first catalog are   *)
(* left out, and one component stands for the components of a package.     *)
(***************************************************************************)
EXTENDS Integers

CONSTANTS
  Packages,   \* files shown from a component-GLB package (STEP models)
  Plain,      \* files that are their own mesh (STL, 3MF, GLB)
  Nothing,    \* no listing, state or load
  MaxEdits,   \* bound on the edits of sources
  MaxFaults,  \* bound on the fetches, checks and builds that fail
  TornScans   \* a build may replace a file between a scan's two reads of it

Files == Packages \cup Plain
Versions == 1 .. MaxEdits + 1
NoVersion == 0  \* no url, hash or content

ASSUME FilesAssumption == Packages \cap Plain = {} /\ Files # {}
ASSUME BoundsAssumption == MaxEdits \in Nat /\ MaxFaults \in Nat /\ TornScans \in BOOLEAN
ASSUME NothingAssumption == Nothing \notin Files

VARIABLES
  source,     \* per file: the version its source would build
  disk,       \* per file: the version on disk (of a package: its descriptor)
  kept,       \* per package: the versions whose component is on disk
  catalog,    \* per file: the url and hash in currentSnapshot.manifest
  stale,      \* currentSnapshot.catalogError is set
  refresh,    \* per file: the version scanned for refreshInFlight, or Nothing
  answer,     \* what the build POST is answered: the state and the listing scanned for it, or Nothing
  artifact,   \* selectedArtifact: "asking" (optimistically ready), "ready", "generating", "error"
  selected,   \* selectedKey
  expanded,   \* the packages with an expanded node in their tab (expandedStepTreeNodeIds)
  mesh,       \* meshState, or Nothing
  status,     \* of the mesh
  meshLoad,   \* the running loadMeshForEntry calls
  loading,    \* meshLoadTargetFile while meshLoadInProgress, or Nothing
  seen,       \* the dependencies of the two effects when they last ran
  refs,       \* referenceState, or Nothing
  refStatus,
  refLoad,    \* the running loadReferencesForEntry calls
  cache,      \* jsonCache and the mesh caches: per file and url, the version fetched, or 0
  glbs,       \* glbCache: the file, url and version of the components
  edits,      \* how often a source was edited
  faults      \* how many fetches, checks and builds failed

diskVars == <<source, disk, kept, edits>>
catalogVars == <<catalog, stale, refresh, answer, artifact>>
userVars == <<selected, expanded>>
meshVars == <<mesh, status, meshLoad, loading>>
refVars == <<refs, refStatus, refLoad>>
cacheVars == <<cache, glbs>>
vars == <<diskVars, catalogVars, userVars, meshVars, refVars, seen, cacheVars, faults>>

(***************************************************************************)
(* What a render computes from the state                                   *)
(***************************************************************************)
\* Unless its artifact is ready the entry is rendered without its assets.
Entry ==
  IF selected \in Packages /\ artifact \in {"generating", "error"}
    THEN [file |-> selected, url |-> NoVersion, hash |-> NoVersion]
    ELSE [file |-> selected, url |-> catalog[selected].url, hash |-> catalog[selected].hash]

\* Mutant: entryHasMesh looks at the entry, not at its assets.
HasFile(e) == e.file \in Files

\* entryHasMesh, entryHasReferences
HasAssets(e) == e.hash # NoVersion

\* Mutant: what is shown is matched by its file alone.
NamesFile(state, e) == state # Nothing /\ state.file = e.file

\* selectedMeshMatches, selectedReferencesMatch
Names(state, e) == state # Nothing /\ state.file = e.file /\ state.hash = e.hash

MeshMatches == Names(mesh, Entry)

\* The tree of nodes exists while the mesh of the rendered entry is shown.
RefsRequested == MeshMatches /\ selected \in expanded
RefsMatch == HasAssets(Entry) /\ RefsRequested /\ Names(refs, Entry)

\* Mutant: the reference effect depends on the entry only.
DepsOfTheEntry ==
  [mesh |-> [entry |-> Entry, of |-> catalog, loading |-> loading, matches |-> MeshMatches],
   refs |-> [entry |-> Entry, of |-> catalog, requested |-> FALSE, matches |-> FALSE]]

\* What the mesh effect and the reference effect depend on: all entries are new objects
\* in a changed manifest.
Deps ==
  [mesh |-> [entry |-> Entry, of |-> catalog, loading |-> loading, matches |-> MeshMatches],
   refs |-> [entry |-> Entry, of |-> catalog, requested |-> RefsRequested, matches |-> RefsMatch]]
NeverRan == [mesh |-> Nothing, refs |-> Nothing]

\* The effects of what is rendered have run: the page takes its next event.
Settled == seen = Deps

Listing == [f \in Files |-> [url |-> disk[f], hash |-> disk[f]]]

Init ==
  /\ source = [f \in Files |-> 1] /\ disk = source
  /\ kept = [f \in Packages |-> {1}]
  /\ catalog = Listing /\ stale = FALSE
  /\ refresh = Nothing /\ answer = Nothing
  /\ selected \in Files /\ expanded = {}
  /\ artifact = IF selected \in Packages THEN "asking" ELSE "ready"
  /\ mesh = Nothing /\ status = "ready" /\ meshLoad = {} /\ loading = Nothing
  /\ refs = Nothing /\ refStatus = "idle" /\ refLoad = {}
  /\ seen = NeverRan
  /\ cache = [f \in Files |-> [v \in Versions |-> NoVersion]]
  /\ glbs = {}
  /\ edits = 0 /\ faults = 0

(***************************************************************************)
(* The disk: sources are edited, builds replace packages                   *)
(***************************************************************************)
Edit(f) ==
  /\ edits < MaxEdits /\ edits' = edits + 1
  /\ source' = [source EXCEPT ![f] = @ + 1]
  /\ disk' = IF f \in Plain THEN [disk EXCEPT ![f] = @ + 1] ELSE disk
  /\ UNCHANGED <<kept, catalogVars, userVars, meshVars, refVars, seen, cacheVars, faults>>

\* The components of the new version are written before its descriptor.
Build(f) ==
  /\ disk[f] < source[f]
  /\ disk' = [disk EXCEPT ![f] = source[f]]
  /\ kept' = [kept EXCEPT ![f] = @ \cup {source[f]}]
  /\ UNCHANGED <<source, edits, catalogVars, userVars, meshVars, refVars, seen, cacheVars, faults>>

Prune(f) ==
  /\ kept[f] # {disk[f]}
  /\ kept' = [kept EXCEPT ![f] = {disk[f]}]
  /\ UNCHANGED <<source, disk, edits, catalogVars, userVars, meshVars, refVars, seen, cacheVars, faults>>

(***************************************************************************)
(* The catalog and the status of the artifact                              *)
(***************************************************************************)
\* A new revision is part of useArtifact's key: the status is asked again and
\* the request under way is aborted.
Publish(listing, error, settled) ==
  /\ catalog' = listing /\ stale' = error
  /\ artifact' = IF <<listing, error>> # <<catalog, stale>> /\ selected \in Packages
                   THEN "asking" ELSE settled

RefreshScans ==
  /\ refresh = Nothing
  /\ refresh' = disk
  /\ UNCHANGED <<diskVars, catalog, stale, answer, artifact, userVars, meshVars, refVars, seen, cacheVars, faults>>

RefreshEnds(listing, error) ==
  /\ refresh # Nothing
  /\ refresh' = Nothing
  /\ Publish(listing, error, artifact)
  /\ answer' = IF <<catalog', stale'>> # <<catalog, stale>> THEN Nothing ELSE answer
  /\ UNCHANGED <<diskVars, userVars, meshVars, refVars, seen, cacheVars>>

\* asset_for_path stats a file for its url and then reads it for its hash: torn, that
\* is of any version that was on disk since.
HashesRead ==
  IF TornScans THEN {read \in [Files -> Versions] : \A f \in Files : read[f] \in refresh[f] .. disk[f]}
               ELSE {refresh}

RefreshAnswers ==
  /\ refresh # Nothing
  /\ \E read \in HashesRead : RefreshEnds([f \in Files |-> [url |-> refresh[f], hash |-> read[f]]], FALSE)
  /\ UNCHANGED faults

\* The refresh failed, or its 10 seconds are over.
RefreshFails ==
  /\ faults < MaxFaults
  /\ faults' = faults + 1
  /\ RefreshEnds(catalog, TRUE)

\* A build holds the lock until it has pruned: till then the status is "generating".
Current(f) == disk[f] = source[f] /\ kept[f] = {disk[f]}

StatusAnswers ==
  /\ artifact = "asking"
  /\ artifact' = IF Current(selected) THEN "ready" ELSE "generating"
  /\ UNCHANGED <<diskVars, catalog, stale, refresh, answer, userVars, meshVars, refVars, seen, cacheVars, faults>>

Built == artifact = "generating" /\ Current(selected)

\* The POST of this tab is over, with its build or because a peer's goes on: the
\* server scans the catalog for its answer.
PostEnds ==
  /\ artifact = "generating" /\ answer = Nothing
  /\ answer' = [state |-> IF Built THEN "ready" ELSE "generating", listing |-> Listing]
  /\ UNCHANGED <<diskVars, catalog, stale, refresh, artifact, userVars, meshVars, refVars, seen, cacheVars, faults>>

AnswerArrives ==
  /\ answer # Nothing
  /\ answer' = Nothing
  /\ Publish(answer.listing, FALSE, answer.state)
  /\ UNCHANGED <<diskVars, refresh, userVars, meshVars, refVars, seen, cacheVars, faults>>

\* The build was somebody else's: a poll sees that it is over.
PeerBuildEnds ==
  /\ Built /\ answer = Nothing
  /\ artifact' = "ready"
  /\ UNCHANGED <<diskVars, catalog, stale, refresh, answer, userVars, meshVars, refVars, seen, cacheVars, faults>>

\* The request under way fails, or the build does: an error answers 500, and its
\* listing is not published.  Nothing asks again until the key changes.
ArtifactFails ==
  /\ artifact \in {"asking", "generating"}
  /\ faults < MaxFaults /\ faults' = faults + 1
  /\ artifact' = "error" /\ answer' = Nothing
  /\ UNCHANGED <<diskVars, catalog, stale, refresh, userVars, meshVars, refVars, seen, cacheVars>>

(***************************************************************************)
(* The user                                                                *)
(***************************************************************************)
\* getCachedMeshState: of a package only the descriptor could be peeked.
CachedMesh(e) ==
  IF e.file \in Plain /\ cache[e.file][e.url] # NoVersion
    THEN [file |-> e.file, hash |-> e.hash, of |-> cache[e.file][e.url]]
    ELSE Nothing

\* activateEntryTab: shows what is cached; the loads are left to the effects.
Select(f) ==
  LET cached == CachedMesh([file |-> f, url |-> catalog[f].url, hash |-> catalog[f].hash])
  IN /\ f # selected
     /\ selected' = f
     /\ artifact' = IF f \in Packages THEN "asking" ELSE "ready"
     /\ answer' = Nothing
     /\ IF cached # Nothing THEN mesh' = cached /\ status' = "ready" ELSE UNCHANGED <<mesh, status>>
     /\ IF f \in Plain THEN refs' = Nothing /\ refStatus' = "disabled" ELSE UNCHANGED <<refs, refStatus>>
     /\ UNCHANGED <<diskVars, catalog, stale, refresh, expanded, meshLoad, loading, refLoad, seen, cacheVars, faults>>

\* The user expands or collapses a node of the tree.
Toggle ==
  /\ selected \in Packages /\ MeshMatches
  /\ expanded' = IF selected \in expanded THEN expanded \ {selected} ELSE expanded \cup {selected}
  /\ UNCHANGED <<diskVars, catalogVars, selected, meshVars, refVars, seen, cacheVars, faults>>

(***************************************************************************)
(* The mesh                                                                *)
(***************************************************************************)
Load(e, at) == [file |-> e.file, url |-> e.url, hash |-> e.hash, at |-> at, of |-> NoVersion]

\* Mutant: the running load is not cancelled.
KeepMeshLoad == meshLoad

\* cancelMeshLoad: a new request id, and the running load is aborted.
CancelMeshLoad == {}

LoadMeshForEntry(e) ==
  LET cached == CachedMesh(e)
      at == IF e.file \in Packages THEN "descriptor" ELSE "whole"
  IN IF ~HasAssets(e) THEN
       /\ mesh' = Nothing /\ status' = "pending"
       /\ meshLoad' = CancelMeshLoad /\ loading' = Nothing
     ELSE IF cached # Nothing THEN
       /\ mesh' = cached /\ status' = "ready"
       /\ meshLoad' = CancelMeshLoad /\ loading' = Nothing
     ELSE
       /\ mesh' = mesh /\ status' = "loading"
       /\ meshLoad' = CancelMeshLoad \cup {Load(e, at)} /\ loading' = e.file

\* A file that is loading, or shown, is left alone: so is a load of another one.
MeshEffect ==
  IF loading = Entry.file \/ MeshMatches THEN UNCHANGED meshVars ELSE LoadMeshForEntry(Entry)

\* Mutant: the caches are keyed by the file, without the ?v= token.
FetchedByFile(l) ==
  IF cache[l.file][1] # NoVersion THEN cache[l.file][1] ELSE disk[l.file]

\* What a load of the url is given.  (loadRenderArrayBuffer's fetch goes on when its load
\* is cancelled, and a later load shares it: left out, as it leaves in the cache what the
\* load would have left there by ending before it was cancelled.)
Fetched(l) == IF cache[l.file][l.url] # NoVersion THEN cache[l.file][l.url] ELSE disk[l.file]
Remember(l) == cache' = [cache EXCEPT ![l.file][l.url] = l.of]

Component(l) == <<l.file, l.url, l.of>>
OnDisk(l) == l.of \in kept[l.file]

Becomes(loads, l, next) == (loads \ {l}) \cup {next}
Serve(l) == [l EXCEPT !.at = IF @ = "whole" THEN "mesh" ELSE "index", !.of = Fetched(l)]

\* The load is over: its finally clears the progress.
EndMeshLoad(l) == meshLoad' = meshLoad \ {l} /\ loading' = Nothing

ShowMesh(l) ==
  /\ mesh' = [file |-> l.file, hash |-> l.hash, of |-> l.of]
  /\ status' = "ready"
  /\ EndMeshLoad(l)

\* The answer is cached when it arrives.
MeshServed(l) ==
  /\ l \in meshLoad /\ l.at \in {"whole", "descriptor"}
  /\ meshLoad' = Becomes(meshLoad, l, Serve(l))
  /\ UNCHANGED <<diskVars, catalogVars, userVars, mesh, status, loading, refVars, seen, cacheVars, faults>>

MeshDescriptorRead(l) ==
  /\ l \in meshLoad /\ l.at = "index"
  /\ Remember(l)
  /\ meshLoad' = Becomes(meshLoad, l, [l EXCEPT !.at = "component"])
  /\ UNCHANGED <<diskVars, catalogVars, userVars, mesh, status, loading, refVars, seen, glbs, faults>>

MeshComponentRead(l) ==
  /\ l \in meshLoad /\ l.at = "component"
  /\ Component(l) \in glbs \/ OnDisk(l)
  /\ glbs' = glbs \cup {Component(l)}
  /\ ShowMesh(l)
  /\ UNCHANGED <<diskVars, catalogVars, userVars, refVars, seen, cache, faults>>

WholeMeshRead(l) ==
  /\ l \in meshLoad /\ l.at = "mesh"
  /\ Remember(l)
  /\ ShowMesh(l)
  /\ UNCHANGED <<diskVars, catalogVars, userVars, refVars, seen, glbs, faults>>

MeshLoadFailed(l) ==
  /\ status' = "error"
  /\ EndMeshLoad(l)
  /\ UNCHANGED <<diskVars, catalogVars, userVars, mesh, refVars, seen, cacheVars>>

Unasked(l) == l.at \in {"whole", "descriptor"} /\ cache[l.file][l.url] = NoVersion

MeshFetchFails(l) ==
  /\ l \in meshLoad
  /\ Unasked(l) \/ (l.at = "component" /\ Component(l) \notin glbs)
  /\ faults < MaxFaults /\ faults' = faults + 1
  /\ MeshLoadFailed(l)

\* A build has pruned the component that the descriptor names.
MeshComponentGone(l) ==
  /\ l \in meshLoad /\ l.at = "component" /\ Component(l) \notin glbs /\ ~OnDisk(l)
  /\ MeshLoadFailed(l)
  /\ UNCHANGED faults

(***************************************************************************)
(* The references of an expanded node                                      *)
(***************************************************************************)
CancelReferenceLoad == {}

\* Mutant: a load that is cancelled leaves its status.
DropReferences(why) ==
  /\ refs' = Nothing /\ refStatus' = refStatus
  /\ refLoad' = CancelReferenceLoad

ShowNoReferences(why) ==
  /\ refs' = Nothing /\ refStatus' = why
  /\ refLoad' = CancelReferenceLoad

LoadReferencesForEntry(e) ==
  /\ refs' = refs /\ refStatus' = "loading"
  /\ refLoad' = CancelReferenceLoad \cup {Load(e, "descriptor")}

ReferenceEffect ==
  IF Entry.file \in Plain \/ ~HasAssets(Entry) THEN ShowNoReferences("disabled")
  ELSE IF ~RefsRequested THEN ShowNoReferences("idle")
  ELSE IF RefsMatch THEN UNCHANGED refVars
  ELSE LoadReferencesForEntry(Entry)

\* React runs the effects of a render together; each sees what was rendered.  One of
\* them forgets the expanded nodes when there is no tree.
Effects ==
  /\ seen # Deps
  /\ seen' = Deps
  /\ IF seen.mesh # Deps.mesh THEN MeshEffect ELSE UNCHANGED meshVars
  /\ IF seen.refs # Deps.refs THEN ReferenceEffect ELSE UNCHANGED refVars
  /\ expanded' = IF MeshMatches THEN expanded ELSE expanded \ {selected}
  /\ UNCHANGED <<diskVars, catalogVars, selected, cacheVars, faults>>

ReferenceServed(l) ==
  /\ l \in refLoad /\ l.at = "descriptor"
  /\ refLoad' = Becomes(refLoad, l, Serve(l))
  /\ UNCHANGED <<diskVars, catalogVars, userVars, meshVars, refs, refStatus, seen, cacheVars, faults>>

ReferenceDescriptorRead(l) ==
  /\ l \in refLoad /\ l.at = "index"
  /\ Remember(l)
  /\ refLoad' = Becomes(refLoad, l, [l EXCEPT !.at = "component"])
  /\ UNCHANGED <<diskVars, catalogVars, userVars, meshVars, refs, refStatus, seen, glbs, faults>>

\* Without a descriptor the package's directory is asked for a bundle, in vain.
ReferenceDescriptorFails(l) ==
  /\ l \in refLoad /\ Unasked(l)
  /\ faults < MaxFaults /\ faults' = faults + 1
  /\ refStatus' = "error" /\ refLoad' = refLoad \ {l}
  /\ UNCHANGED <<diskVars, catalogVars, userVars, meshVars, refs, seen, cacheVars>>

\* Composes the bundles it got: those that are gone or fail are null and left out.
ComposeReferences(l) ==
  /\ l \in refLoad /\ l.at = "component"
  /\ refs' = [file |-> l.file, hash |-> l.hash, of |-> l.of]
  /\ refStatus' = "ready"
  /\ refLoad' = refLoad \ {l}
  /\ UNCHANGED <<diskVars, catalogVars, userVars, meshVars, seen, cacheVars, faults>>

(***************************************************************************)
(* The specification                                                       *)
(***************************************************************************)
DiskNext == \/ \E f \in Files : Edit(f)
            \/ \E f \in Packages : Build(f) \/ Prune(f)
            \/ RefreshScans \/ PostEnds

UserNext == Toggle \/ \E f \in Files : Select(f)

CatalogNext == \/ RefreshAnswers \/ RefreshFails
               \/ StatusAnswers \/ AnswerArrives \/ PeerBuildEnds \/ ArtifactFails

MeshNext ==
  \E l \in meshLoad : \/ MeshServed(l) \/ MeshDescriptorRead(l) \/ MeshComponentRead(l)
                      \/ WholeMeshRead(l) \/ MeshFetchFails(l) \/ MeshComponentGone(l)

ReferenceNext ==
  \E l \in refLoad : \/ ReferenceServed(l) \/ ReferenceDescriptorRead(l) \/ ReferenceDescriptorFails(l)
                     \/ ComposeReferences(l)

\* Effects come first: for the page by React's order, for the rest because they
\* touch nothing that a step of the disk or the server reads or changes.
Next ==
  \/ Effects
  \/ Settled /\ (DiskNext \/ UserNext \/ CatalogNext \/ MeshNext \/ ReferenceNext)

Spec == Init /\ [][Next]_vars

\* Builds end, the catalog is polled, fetches answer or fail, and the page gets to
\* an event in spite of later ones; nothing is assumed of the user.
Fairness ==
  /\ \A f \in Packages : WF_vars(Prune(f)) /\ WF_vars(artifact = "generating" /\ selected = f /\ Build(f))
  /\ WF_vars(RefreshScans) /\ WF_vars(RefreshAnswers \/ RefreshFails)
  /\ WF_vars(StatusAnswers) /\ WF_vars((Built /\ PostEnds) \/ PeerBuildEnds) /\ WF_vars(AnswerArrives)
  /\ WF_vars(Effects)
  /\ WF_vars(MeshNext) /\ WF_vars(ReferenceNext)

FairSpec == Spec /\ Fairness

(***************************************************************************)
(* Properties                                                              *)
(***************************************************************************)
Shown == [file : Files, hash : Versions, of : Versions]
Loads == [file : Files, url : Versions, hash : Versions,
          at : {"whole", "mesh", "descriptor", "index", "component"}, of : 0 .. MaxEdits + 1]
Listings == [Files -> [url : Versions, hash : Versions]]

\* Every variable has its type.
TypeOK ==
  /\ source \in [Files -> Versions] /\ disk \in [Files -> Versions]
  /\ kept \in [Packages -> SUBSET Versions]
  /\ catalog \in Listings /\ stale \in BOOLEAN
  /\ refresh = Nothing \/ refresh \in [Files -> Versions]
  /\ answer = Nothing \/ answer \in [state : {"ready", "generating"}, listing : Listings]
  /\ artifact \in {"asking", "ready", "generating", "error"}
  /\ selected \in Files /\ expanded \subseteq Packages
  /\ mesh = Nothing \/ mesh \in Shown
  /\ status \in {"pending", "loading", "ready", "error"}
  /\ meshLoad \subseteq Loads /\ loading \in Files \cup {Nothing}
  /\ refs = Nothing \/ refs \in Shown
  /\ refStatus \in {"idle", "disabled", "loading", "ready", "error"}
  /\ refLoad \subseteq Loads
  /\ cache \in [Files -> [Versions -> 0 .. MaxEdits + 1]]
  /\ glbs \subseteq Files \X Versions \X Versions
  /\ edits \in 0 .. MaxEdits /\ faults \in 0 .. MaxFaults

\* "Never renders a stale cache" (entryWithoutRenderAssets): what is shown under a
\* hash is not older than it.
NoStaleGeometry ==
  /\ mesh # Nothing => mesh.of >= mesh.hash
  /\ refs # Nothing => refs.of >= refs.hash

\* The progress flag of the mesh is about the one load that runs: neither does a
\* cancelled load's card stay, nor does a load run unseen, or two at a time.
LoadingIsRunning ==
  IF loading = Nothing THEN meshLoad = {}
                       ELSE \E l \in meshLoad : meshLoad = {l} /\ l.file = loading

\* References that are said to be loading are: a cancelled load of a file that is
\* left, collapsed or rebuilt does not leave its message behind.
ReferencesAreLoading == Settled /\ refStatus = "loading" => refLoad # {}

\* A user who stays with a file ends up with the version on disk, whatever was built,
\* pruned or delayed before and whichever loads failed; or with the error of a check or
\* a build of its artifact that failed.
SelectedIsShown ==
  \A f \in Files :
    <>[](selected = f) => <>[]((MeshMatches /\ mesh.of = disk[f]) \/ artifact = "error")

\* References that stay requested arrive or report an error: the card that says
\* they are loading does not stay.
ReferencesSettle ==
  \A f \in Packages :
    <>[](selected = f /\ RefsRequested)
      => <>[]((RefsMatch /\ refs.of = disk[f]) \/ refStatus = "error")
=============================================================================
