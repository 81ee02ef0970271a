------------------------- MODULE ViewerAssetsProofs -------------------------
(* What holds of ViewerAssets for every set of files and every number of edits and faults. *)
EXTENDS ViewerAssets, TLAPS

\* The points of a load behind the server's answer.
Answered == {"index", "component", "mesh"}

\* The types, with what keeps them: the disk follows the sources, an answer has content.
TypeInv ==
  /\ TypeOK
  /\ \A f \in Files : disk[f] <= source[f] /\ source[f] <= edits + 1
  /\ \A l \in meshLoad \cup refLoad : l.at \in Answered => l.of \in Versions

\* What is rendered is an entry of the catalog, or one without assets.
LEMMA EntryIsListed ==
  ASSUME TypeOK
  PROVE  /\ Entry.file = selected /\ selected \in Files
         /\ HasAssets(Entry) => /\ Entry.url = catalog[selected].url
                                /\ Entry.hash = catalog[selected].hash
                                /\ Entry.url \in Versions /\ Entry.hash \in Versions
<1>1. selected \in Files /\ catalog[selected] \in [url : Versions, hash : Versions]
  BY DEF TypeOK, Listings
<1> QED
  BY <1>1 DEF Entry, HasAssets, NoVersion

\* A mesh from the cache has a type, and its content is the cached one.
LEMMA CachedIsShown ==
  ASSUME TypeOK, NEW f \in Files, NEW v \in Versions, NEW h \in Versions,
         CachedMesh([file |-> f, url |-> v, hash |-> h]) # Nothing
  PROVE  /\ CachedMesh([file |-> f, url |-> v, hash |-> h])
              = [file |-> f, hash |-> h, of |-> cache[f][v]]
         /\ cache[f][v] \in Versions
         /\ cache[f][v] # NoVersion
<1>1. cache[f][v] \in 0 .. MaxEdits + 1
  BY DEF TypeOK
<1> QED
  BY <1>1, BoundsAssumption DEF CachedMesh, NoVersion, Versions

\* A served load is one that was answered, with the cache's content or the disk's.
LEMMA ServedIsAnswered ==
  ASSUME TypeOK, NEW l \in Loads
  PROVE  /\ Serve(l) \in Loads
         /\ Serve(l).of \in Versions
         /\ Serve(l).of = Fetched(l)
         /\ Serve(l).file = l.file /\ Serve(l).url = l.url /\ Serve(l).hash = l.hash
         /\ Serve(l).at \in Answered
<1>1. l.file \in Files /\ l.url \in Versions
  BY DEF Loads
<1>2. cache[l.file][l.url] \in 0 .. MaxEdits + 1 /\ disk[l.file] \in Versions
  BY <1>1 DEF TypeOK
<1>3. Fetched(l) \in Versions
  BY <1>2, BoundsAssumption DEF Fetched, NoVersion, Versions
<1>4. Versions \subseteq 0 .. MaxEdits + 1
  BY BoundsAssumption DEF Versions
<1> QED
  BY <1>3, <1>4 DEF Serve, Loads, Answered

\* The page opens in a typed state.
LEMMA InitTypes == Init => TypeInv
<1> SUFFICES ASSUME Init PROVE TypeInv
  OBVIOUS
<1>1. 1 \in Versions /\ NoVersion \in 0 .. MaxEdits + 1
  BY BoundsAssumption DEF Versions, NoVersion
<1>2. Listing \in Listings
  BY <1>1 DEF Init, Listing, Listings
<1>3. /\ source \in [Files -> Versions] /\ disk \in [Files -> Versions]
      /\ kept \in [Packages -> SUBSET Versions]
      /\ edits \in 0 .. MaxEdits /\ faults \in 0 .. MaxFaults
  BY <1>1, BoundsAssumption DEF Init
<1>4. /\ catalog \in Listings /\ stale \in BOOLEAN /\ refresh = Nothing /\ answer = Nothing
      /\ artifact \in {"asking", "ready", "generating", "error"}
  BY <1>2 DEF Init
<1>5. cache \in [Files -> [Versions -> 0 .. MaxEdits + 1]]
  BY <1>1 DEF Init
<1>6. TypeOK
  BY <1>3, <1>4, <1>5 DEF Init, TypeOK
<1> QED
  BY <1>6, <1>1 DEF Init, TypeInv

\* Every action keeps the types: the disk and the server ...
LEMMA DiskTypes == TypeInv /\ DiskNext => TypeInv'
<1> SUFFICES ASSUME TypeInv, DiskNext PROVE TypeInv'
  OBVIOUS
<1>0. Listing \in Listings
  BY DEF TypeInv, TypeOK, Listing, Listings
<1>1. ASSUME NEW f \in Files, Edit(f) PROVE TypeInv'
  <2>1. /\ source \in [Files -> Versions] /\ disk \in [Files -> Versions]
        /\ edits < MaxEdits /\ edits \in 0 .. MaxEdits /\ MaxEdits \in Nat
    BY <1>1, BoundsAssumption DEF Edit, TypeInv, TypeOK
  <2>2. source[f] + 1 \in Versions /\ disk[f] + 1 \in Versions
    BY <2>1 DEF TypeInv, Versions
  <2>3. /\ source' \in [Files -> Versions] /\ disk' \in [Files -> Versions]
        /\ edits' \in 0 .. MaxEdits
    BY <1>1, <2>1, <2>2 DEF Edit
  <2>4. \A g \in Files : disk'[g] <= source'[g] /\ source'[g] <= edits' + 1
    BY <1>1, <2>1 DEF Edit, TypeInv, Versions
  <2> QED
    BY <1>1, <2>3, <2>4
    DEF Edit, TypeInv, TypeOK, catalogVars, userVars, meshVars, refVars, cacheVars
<1>2. ASSUME NEW f \in Packages, Build(f) PROVE TypeInv'
  <2>1. /\ source \in [Files -> Versions] /\ disk \in [Files -> Versions]
        /\ kept \in [Packages -> SUBSET Versions] /\ f \in Files
    BY DEF TypeInv, TypeOK, Files
  <2>2. disk' \in [Files -> Versions] /\ kept' \in [Packages -> SUBSET Versions]
    BY <1>2, <2>1 DEF Build
  <2>3. \A g \in Files : disk'[g] <= source[g]
    BY <1>2, <2>1 DEF Build, TypeInv, Versions
  <2> QED
    BY <1>2, <2>2, <2>3
    DEF Build, TypeInv, TypeOK, catalogVars, userVars, meshVars, refVars, cacheVars
<1>3. ASSUME NEW f \in Packages, Prune(f) PROVE TypeInv'
  <2>1. kept' \in [Packages -> SUBSET Versions]
    BY <1>3 DEF Prune, TypeInv, TypeOK, Files
  <2> QED
    BY <1>3, <2>1
    DEF Prune, TypeInv, TypeOK, catalogVars, userVars, meshVars, refVars, cacheVars
<1>4. CASE RefreshScans
  BY <1>4 DEF RefreshScans, TypeInv, TypeOK, diskVars, userVars, meshVars, refVars, cacheVars
<1>5. CASE PostEnds
  <2>1. answer' \in [state : {"ready", "generating"}, listing : Listings]
    BY <1>5, <1>0 DEF PostEnds
  <2> QED
    BY <1>5, <2>1 DEF PostEnds, TypeInv, TypeOK, diskVars, userVars, meshVars, refVars, cacheVars
<1> QED
  BY <1>1, <1>2, <1>3, <1>4, <1>5 DEF DiskNext

\* ... the catalog and the status ...
LEMMA CatalogTypes == TypeInv /\ CatalogNext => TypeInv'
<1> SUFFICES ASSUME TypeInv, CatalogNext PROVE TypeInv'
  OBVIOUS
<1>1. ASSUME NEW listing \in Listings, NEW error \in BOOLEAN,
             RefreshEnds(listing, error), faults' \in 0 .. MaxFaults
      PROVE  TypeInv'
  BY <1>1 DEF RefreshEnds, Publish, TypeInv, TypeOK, diskVars, userVars, meshVars, refVars, cacheVars
<1>2. CASE RefreshAnswers
  <2>1. refresh \in [Files -> Versions] /\ faults' \in 0 .. MaxFaults
    BY <1>2 DEF RefreshAnswers, TypeInv, TypeOK
  <2>2. \A read \in HashesRead : read \in [Files -> Versions]
    BY <2>1 DEF HashesRead
  <2>3. PICK read \in HashesRead :
          RefreshEnds([f \in Files |-> [url |-> refresh[f], hash |-> read[f]]], FALSE)
    BY <1>2 DEF RefreshAnswers
  <2>4. [f \in Files |-> [url |-> refresh[f], hash |-> read[f]]] \in Listings
    BY <2>1, <2>2 DEF Listings
  <2> QED
    BY <1>1, <2>1, <2>3, <2>4
<1>3. CASE RefreshFails
  <2>1. faults' \in 0 .. MaxFaults /\ catalog \in Listings
    BY <1>3, BoundsAssumption DEF RefreshFails, TypeInv, TypeOK
  <2> QED
    BY <1>1, <1>3, <2>1 DEF RefreshFails
<1>4. CASE StatusAnswers
  BY <1>4 DEF StatusAnswers, TypeInv, TypeOK, diskVars, userVars, meshVars, refVars, cacheVars
<1>5. CASE AnswerArrives
  <2>1. answer \in [state : {"ready", "generating"}, listing : Listings]
    BY <1>5 DEF AnswerArrives, TypeInv, TypeOK
  <2> QED
    BY <1>5, <2>1
    DEF AnswerArrives, Publish, TypeInv, TypeOK, diskVars, userVars, meshVars, refVars, cacheVars
<1>6. CASE PeerBuildEnds
  BY <1>6 DEF PeerBuildEnds, TypeInv, TypeOK, diskVars, userVars, meshVars, refVars, cacheVars
<1>7. CASE ArtifactFails
  <2>1. faults' \in 0 .. MaxFaults
    BY <1>7, BoundsAssumption DEF ArtifactFails, TypeInv, TypeOK
  <2> QED
    BY <1>7, <2>1
    DEF ArtifactFails, TypeInv, TypeOK, diskVars, userVars, meshVars, refVars, cacheVars
<1> QED
  BY <1>2, <1>3, <1>4, <1>5, <1>6, <1>7 DEF CatalogNext

\* ... the user ...
LEMMA UserTypes == TypeInv /\ UserNext => TypeInv'
<1> SUFFICES ASSUME TypeInv, UserNext PROVE TypeInv'
  OBVIOUS
<1>1. CASE Toggle
  BY <1>1 DEF Toggle, TypeInv, TypeOK, diskVars, catalogVars, meshVars, refVars, cacheVars
<1>2. ASSUME NEW f \in Files, Select(f) PROVE TypeInv'
  <2>1. catalog[f].url \in Versions /\ catalog[f].hash \in Versions
    BY DEF TypeInv, TypeOK, Listings
  <2> DEFINE cached == CachedMesh([file |-> f, url |-> catalog[f].url, hash |-> catalog[f].hash])
  <2>2. mesh' = Nothing \/ mesh' \in Shown
    <3>1. TypeOK
      BY DEF TypeInv
    <3>2. CASE cached = Nothing
      BY <1>2, <3>1, <3>2 DEF Select, TypeOK
    <3>3. CASE cached # Nothing
      <4>1. cached = [file |-> f, hash |-> catalog[f].hash, of |-> cache[f][catalog[f].url]]
            /\ cache[f][catalog[f].url] \in Versions
        BY <2>1, <3>1, <3>3, CachedIsShown
      <4>2. mesh' = cached
        BY <1>2, <3>3 DEF Select
      <4> QED
        BY <2>1, <4>1, <4>2 DEF Shown
    <3> QED
      BY <3>2, <3>3
  <2>3. status' \in {"pending", "loading", "ready", "error"}
    BY <1>2 DEF Select, TypeInv, TypeOK
  <2>4. /\ refs' = Nothing \/ refs' \in Shown
        /\ refStatus' \in {"idle", "disabled", "loading", "ready", "error"}
    BY <1>2 DEF Select, TypeInv, TypeOK
  <2>5. artifact' \in {"asking", "ready", "generating", "error"} /\ answer' = Nothing /\ selected' \in Files
    BY <1>2 DEF Select
  <2>6. UNCHANGED <<diskVars, catalog, stale, refresh, expanded, meshLoad, loading, refLoad, cacheVars, faults>>
    BY <1>2 DEF Select
  <2> QED
    BY <2>2, <2>3, <2>4, <2>5, <2>6 DEF TypeInv, TypeOK, diskVars, cacheVars
<1> QED
  BY <1>1, <1>2 DEF UserNext

\* ... the effects ...
LEMMA EffectTypes == TypeInv /\ Effects => TypeInv'
<1> SUFFICES ASSUME TypeInv, Effects PROVE TypeInv'
  OBVIOUS
<1>0. TypeOK
  BY DEF TypeInv
<1>1. 0 \in 0 .. MaxEdits + 1
  BY BoundsAssumption
<1> DEFINE MeshTyped == /\ mesh = Nothing \/ mesh \in Shown
                       /\ status \in {"pending", "loading", "ready", "error"}
                       /\ meshLoad \subseteq Loads /\ loading \in Files \cup {Nothing}
                       /\ \A l \in meshLoad : l.at \in Answered => l.of \in Versions
           RefsTyped == /\ refs = Nothing \/ refs \in Shown
                       /\ refStatus \in {"idle", "disabled", "loading", "ready", "error"}
                       /\ refLoad \subseteq Loads
                       /\ \A l \in refLoad : l.at \in Answered => l.of \in Versions
<1>2. MeshTyped /\ RefsTyped
  BY DEF TypeInv, TypeOK
<1>3. ASSUME HasAssets(Entry), NEW at \in {"whole", "descriptor"}
      PROVE  /\ Load(Entry, at) \in Loads
             /\ Load(Entry, at).at \notin Answered
  BY <1>0, <1>1, <1>3, EntryIsListed DEF Load, Loads, Answered, NoVersion
<1>4. ASSUME LoadMeshForEntry(Entry) PROVE MeshTyped'
  <2>1. CASE ~HasAssets(Entry)
    BY <1>4, <2>1 DEF LoadMeshForEntry, CancelMeshLoad
  <2>2. CASE HasAssets(Entry) /\ CachedMesh(Entry) # Nothing
    <3>1. mesh' = CachedMesh(Entry) /\ status' = "ready" /\ meshLoad' = {} /\ loading' = Nothing
      BY <1>4, <2>2 DEF LoadMeshForEntry, CancelMeshLoad
    <3>2. PICK v \in Versions, h \in Versions :
            Entry = [file |-> selected, url |-> v, hash |-> h] /\ selected \in Files
      BY <1>0, <2>2, EntryIsListed DEF Entry
    <3>3. CachedMesh(Entry) \in Shown
      <4>1. CachedMesh([file |-> selected, url |-> v, hash |-> h]) # Nothing
        BY <2>2, <3>2
      <4>2. /\ CachedMesh([file |-> selected, url |-> v, hash |-> h])
                 = [file |-> selected, hash |-> h, of |-> cache[selected][v]]
            /\ cache[selected][v] \in Versions
        BY <1>0, <3>2, <4>1, CachedIsShown
      <4> QED
        BY <3>2, <4>2 DEF Shown
    <3> QED
      BY <3>1, <3>3
  <2>3. CASE HasAssets(Entry) /\ CachedMesh(Entry) = Nothing
    <3>1. PICK at \in {"whole", "descriptor"} :
            /\ mesh' = mesh /\ status' = "loading"
            /\ meshLoad' = {Load(Entry, at)} /\ loading' = Entry.file
      BY <1>4, <2>3 DEF LoadMeshForEntry, CancelMeshLoad
    <3> QED
      BY <1>0, <1>2, <1>3, <2>3, <3>1, EntryIsListed
  <2> QED
    BY <2>1, <2>2, <2>3
<1>5. MeshTyped'
  BY <1>2, <1>4 DEF Effects, MeshEffect, meshVars
<1>6. ASSUME LoadReferencesForEntry(Entry), HasAssets(Entry) PROVE RefsTyped'
  <2>1. refs' = refs /\ refStatus' = "loading" /\ refLoad' = {Load(Entry, "descriptor")}
    BY <1>6 DEF LoadReferencesForEntry, CancelReferenceLoad
  <2> QED
    BY <1>2, <1>3, <1>6, <2>1
<1>7. ASSUME NEW why \in {"disabled", "idle"}, ShowNoReferences(why) PROVE RefsTyped'
  BY <1>7 DEF ShowNoReferences, CancelReferenceLoad
<1>8. RefsTyped'
  BY <1>2, <1>6, <1>7 DEF Effects, ReferenceEffect, refVars
<1>9. UNCHANGED <<diskVars, catalogVars, selected, cacheVars, faults>>
  BY DEF Effects
<1>10. expanded' \subseteq Packages
  BY <1>0 DEF Effects, TypeOK
<1> QED
  BY <1>5, <1>8, <1>9, <1>10 DEF TypeInv, TypeOK, diskVars, catalogVars, cacheVars

\* ... the loads of the mesh ...
LEMMA MeshTypes == TypeInv /\ MeshNext => TypeInv'
<1> SUFFICES ASSUME TypeInv, NEW l \in meshLoad,
                    \/ MeshServed(l) \/ MeshDescriptorRead(l) \/ MeshComponentRead(l)
                    \/ WholeMeshRead(l) \/ MeshFetchFails(l) \/ MeshComponentGone(l)
             PROVE  TypeInv'
  BY DEF MeshNext
<1>0. TypeOK /\ l \in Loads /\ (l.at \in Answered => l.of \in Versions)
  BY DEF TypeInv, TypeOK
<1>1. CASE MeshServed(l)
  <2>1. meshLoad' = (meshLoad \ {l}) \cup {Serve(l)}
    BY <1>1 DEF MeshServed, Becomes
  <2>2. /\ meshLoad' \subseteq Loads
        /\ \A k \in meshLoad' : k.at \in Answered => k.of \in Versions
    BY <1>0, <2>1, ServedIsAnswered DEF TypeInv, TypeOK
  <2>3. UNCHANGED <<diskVars, catalogVars, userVars, mesh, status, loading, refVars, cacheVars, faults>>
    BY <1>1 DEF MeshServed
  <2> QED
    BY <2>2, <2>3 DEF TypeInv, TypeOK, diskVars, catalogVars, userVars, refVars, cacheVars
<1>2. CASE MeshDescriptorRead(l)
  <2>1. meshLoad' = (meshLoad \ {l}) \cup {[l EXCEPT !.at = "component"]} /\ l.at \in Answered
    BY <1>2 DEF MeshDescriptorRead, Becomes, Answered
  <2>2. [l EXCEPT !.at = "component"] \in Loads /\ [l EXCEPT !.at = "component"].of = l.of
    BY <1>0 DEF Loads
  <2>3. /\ meshLoad' \subseteq Loads
        /\ \A k \in meshLoad' : k.at \in Answered => k.of \in Versions
    BY <1>0, <2>1, <2>2 DEF TypeInv, TypeOK
  <2>4. cache' \in [Files -> [Versions -> 0 .. MaxEdits + 1]]
    BY <1>0, <1>2 DEF MeshDescriptorRead, Remember, TypeOK, Loads
  <2>5. UNCHANGED <<diskVars, catalogVars, userVars, mesh, status, loading, refVars, glbs, faults>>
    BY <1>2 DEF MeshDescriptorRead
  <2> QED
    BY <2>3, <2>4, <2>5 DEF TypeInv, TypeOK, diskVars, catalogVars, userVars, refVars
<1>3. ASSUME ShowMesh(l), l.at \in Answered
      PROVE  /\ mesh' \in Shown /\ status' = "ready"
             /\ meshLoad' \subseteq Loads /\ loading' = Nothing
             /\ \A k \in meshLoad' : k.at \in Answered => k.of \in Versions
  BY <1>0, <1>3 DEF ShowMesh, EndMeshLoad, Shown, Loads, TypeInv, TypeOK
<1>4. CASE MeshComponentRead(l)
  <2>1. l.at \in Answered /\ ShowMesh(l)
    BY <1>4 DEF MeshComponentRead, Answered
  <2>2. glbs' \subseteq Files \X Versions \X Versions
    BY <1>0, <1>4, <2>1 DEF MeshComponentRead, Component, TypeOK, Loads
  <2>3. UNCHANGED <<diskVars, catalogVars, userVars, refVars, seen, cache, faults>>
    BY <1>4 DEF MeshComponentRead
  <2> QED
    BY <1>3, <2>1, <2>2, <2>3 DEF TypeInv, TypeOK, diskVars, catalogVars, userVars, refVars
<1>5. CASE WholeMeshRead(l)
  <2>1. l.at \in Answered /\ ShowMesh(l)
    BY <1>5 DEF WholeMeshRead, Answered
  <2>2. cache' \in [Files -> [Versions -> 0 .. MaxEdits + 1]]
    BY <1>0, <1>5 DEF WholeMeshRead, Remember, TypeOK, Loads
  <2>3. UNCHANGED <<diskVars, catalogVars, userVars, refVars, seen, glbs, faults>>
    BY <1>5 DEF WholeMeshRead
  <2> QED
    BY <1>3, <2>1, <2>2, <2>3 DEF TypeInv, TypeOK, diskVars, catalogVars, userVars, refVars
<1>6. ASSUME MeshLoadFailed(l), faults' \in 0 .. MaxFaults PROVE TypeInv'
  BY <1>6 DEF MeshLoadFailed, EndMeshLoad, TypeInv, TypeOK, diskVars, catalogVars, userVars, refVars, cacheVars
<1>7. CASE MeshFetchFails(l)
  BY <1>6, <1>7, BoundsAssumption DEF MeshFetchFails, TypeInv, TypeOK
<1>8. CASE MeshComponentGone(l)
  BY <1>6, <1>8 DEF MeshComponentGone, TypeInv, TypeOK
<1> QED
  BY <1>1, <1>2, <1>4, <1>5, <1>7, <1>8

\* ... and those of the references.
LEMMA ReferenceTypes == TypeInv /\ ReferenceNext => TypeInv'
<1> SUFFICES ASSUME TypeInv, NEW l \in refLoad,
                    \/ ReferenceServed(l) \/ ReferenceDescriptorRead(l)
                    \/ ReferenceDescriptorFails(l) \/ ComposeReferences(l)
             PROVE  TypeInv'
  BY DEF ReferenceNext
<1>0. TypeOK /\ l \in Loads /\ (l.at \in Answered => l.of \in Versions)
  BY DEF TypeInv, TypeOK
<1>1. CASE ReferenceServed(l)
  <2>1. refLoad' = (refLoad \ {l}) \cup {Serve(l)}
    BY <1>1 DEF ReferenceServed, Becomes
  <2>2. /\ refLoad' \subseteq Loads
        /\ \A k \in refLoad' : k.at \in Answered => k.of \in Versions
    BY <1>0, <2>1, ServedIsAnswered DEF TypeInv, TypeOK
  <2>3. UNCHANGED <<diskVars, catalogVars, userVars, meshVars, refs, refStatus, cacheVars, faults>>
    BY <1>1 DEF ReferenceServed
  <2> QED
    BY <2>2, <2>3 DEF TypeInv, TypeOK, diskVars, catalogVars, userVars, meshVars, cacheVars
<1>2. CASE ReferenceDescriptorRead(l)
  <2>1. refLoad' = (refLoad \ {l}) \cup {[l EXCEPT !.at = "component"]} /\ l.at \in Answered
    BY <1>2 DEF ReferenceDescriptorRead, Becomes, Answered
  <2>2. [l EXCEPT !.at = "component"] \in Loads /\ [l EXCEPT !.at = "component"].of = l.of
    BY <1>0 DEF Loads
  <2>3. /\ refLoad' \subseteq Loads
        /\ \A k \in refLoad' : k.at \in Answered => k.of \in Versions
    BY <1>0, <2>1, <2>2 DEF TypeInv, TypeOK
  <2>4. cache' \in [Files -> [Versions -> 0 .. MaxEdits + 1]]
    BY <1>0, <1>2 DEF ReferenceDescriptorRead, Remember, TypeOK, Loads
  <2>5. UNCHANGED <<diskVars, catalogVars, userVars, meshVars, refs, refStatus, glbs, faults>>
    BY <1>2 DEF ReferenceDescriptorRead
  <2> QED
    BY <2>3, <2>4, <2>5 DEF TypeInv, TypeOK, diskVars, catalogVars, userVars, meshVars
<1>3. CASE ReferenceDescriptorFails(l)
  BY <1>3, BoundsAssumption
  DEF ReferenceDescriptorFails, TypeInv, TypeOK, diskVars, catalogVars, userVars, meshVars, cacheVars
<1>4. CASE ComposeReferences(l)
  <2>1. refs' \in Shown
    BY <1>0, <1>4 DEF ComposeReferences, Answered, Shown, Loads
  <2> QED
    BY <1>4, <2>1 DEF ComposeReferences, TypeInv, TypeOK, diskVars, catalogVars, userVars, meshVars, cacheVars
<1> QED
  BY <1>1, <1>2, <1>3, <1>4

\* So every step keeps the types.
LEMMA NextTypes == TypeInv /\ [Next]_vars => TypeInv'
<1> SUFFICES ASSUME TypeInv, [Next]_vars PROVE TypeInv'
  OBVIOUS
<1>1. CASE UNCHANGED vars
  BY <1>1 DEF TypeInv, TypeOK, vars, diskVars, catalogVars, userVars, meshVars, refVars, cacheVars
<1> QED
  BY <1>1, DiskTypes, CatalogTypes, UserTypes, EffectTypes, MeshTypes, ReferenceTypes DEF Next

\* Every variable keeps its type.
THEOREM TypesKept == Spec => []TypeOK
<1>1. Spec => []TypeInv
  BY InitTypes, NextTypes, PTL DEF Spec
<1>2. TypeInv => TypeOK
  BY DEF TypeInv
<1> QED
  BY <1>1, <1>2, PTL

-----------------------------------------------------------------------------
\* The steps that leave the mesh and its load alone.
LEMMA MeshFrame ==
  ASSUME DiskNext \/ CatalogNext \/ UserNext \/ ReferenceNext
  PROVE  UNCHANGED <<meshLoad, loading>>
<1>1. CASE DiskNext
  BY <1>1 DEF DiskNext, Edit, Build, Prune, RefreshScans, PostEnds, meshVars
<1>2. CASE CatalogNext
  BY <1>2 DEF CatalogNext, RefreshAnswers, RefreshFails, RefreshEnds, StatusAnswers,
              AnswerArrives, PeerBuildEnds, ArtifactFails, meshVars
<1>3. CASE UserNext
  BY <1>3 DEF UserNext, Toggle, Select, meshVars
<1>4. CASE ReferenceNext
  BY <1>4 DEF ReferenceNext, ReferenceServed, ReferenceDescriptorRead,
              ReferenceDescriptorFails, ComposeReferences, meshVars
<1> QED
  BY <1>1, <1>2, <1>3, <1>4

\* One load of a mesh at most, the one the flag names, through every step.
LEMMA OneLoad == TypeOK /\ LoadingIsRunning /\ [Next]_vars => LoadingIsRunning'
<1> SUFFICES ASSUME TypeOK, LoadingIsRunning, [Next]_vars PROVE LoadingIsRunning'
  OBVIOUS
<1>1. CASE UNCHANGED <<meshLoad, loading>>
  BY <1>1 DEF LoadingIsRunning
<1>2. CASE Effects
  <2>1. CASE LoadMeshForEntry(Entry)
    <3>1. \/ meshLoad' = {} /\ loading' = Nothing
          \/ \E at \in {"whole", "descriptor"} :
               meshLoad' = {Load(Entry, at)} /\ loading' = Entry.file
      BY <2>1 DEF LoadMeshForEntry, CancelMeshLoad
    <3>2. Entry.file \in Files
      BY EntryIsListed
    <3>3. \A at \in {"whole", "descriptor"} : Load(Entry, at).file = Entry.file
      BY DEF Load
    <3> QED
      BY <3>1, <3>2, <3>3, NothingAssumption DEF LoadingIsRunning
  <2> QED
    BY <1>1, <1>2, <2>1 DEF Effects, MeshEffect, meshVars
<1>3. CASE MeshNext
  <2>1. PICK l \in meshLoad :
          \/ MeshServed(l) \/ MeshDescriptorRead(l) \/ MeshComponentRead(l)
          \/ WholeMeshRead(l) \/ MeshFetchFails(l) \/ MeshComponentGone(l)
    BY <1>3 DEF MeshNext
  <2>2. meshLoad = {l} /\ l.file = loading /\ loading # Nothing /\ l \in Loads
    BY DEF LoadingIsRunning, TypeOK
  <2>3. CASE EndMeshLoad(l)
    BY <2>2, <2>3 DEF EndMeshLoad, LoadingIsRunning
  <2>4. CASE MeshServed(l)
    <3>1. meshLoad' = {Serve(l)} /\ loading' = loading
      BY <2>2, <2>4 DEF MeshServed, Becomes
    <3> QED
      BY <2>2, <3>1, ServedIsAnswered DEF LoadingIsRunning
  <2>5. CASE MeshDescriptorRead(l)
    <3>1. meshLoad' = {[l EXCEPT !.at = "component"]} /\ loading' = loading
      BY <2>2, <2>5 DEF MeshDescriptorRead, Becomes
    <3>2. [l EXCEPT !.at = "component"].file = l.file
      BY <2>2 DEF Loads
    <3> QED
      BY <2>2, <3>1, <3>2 DEF LoadingIsRunning
  <2> QED
    BY <2>1, <2>3, <2>4, <2>5
    DEF MeshComponentRead, WholeMeshRead, MeshFetchFails, MeshComponentGone, MeshLoadFailed, ShowMesh
<1> QED
  BY <1>1, <1>2, <1>3, MeshFrame DEF Next, vars, meshVars

\* The progress flag of the mesh is about the one load that runs.
THEOREM LoadingAlwaysRuns == Spec => []LoadingIsRunning
<1>1. Init => LoadingIsRunning
  BY DEF Init, LoadingIsRunning
<1> QED
  BY <1>1, OneLoad, TypesKept, PTL DEF Spec

-----------------------------------------------------------------------------
\* Of ReferencesAreLoading the part that does not wait for the effects.
LoadBehindStatus == refStatus = "loading" => refLoad # {}

\* Every step that leaves the status "loading" leaves a load behind it.
LEMMA LoadStaysBehindStatus == LoadBehindStatus /\ [Next]_vars => LoadBehindStatus'
<1> SUFFICES ASSUME LoadBehindStatus, [Next]_vars PROVE LoadBehindStatus'
  OBVIOUS
<1>1. CASE UNCHANGED <<refStatus, refLoad>>
  BY <1>1 DEF LoadBehindStatus
<1>2. CASE DiskNext \/ CatalogNext \/ MeshNext
  <2>1. CASE DiskNext
    BY <1>1, <2>1 DEF DiskNext, Edit, Build, Prune, RefreshScans, PostEnds, refVars
  <2>2. CASE CatalogNext
    BY <1>1, <2>2 DEF CatalogNext, RefreshAnswers, RefreshFails, RefreshEnds, StatusAnswers,
                      AnswerArrives, PeerBuildEnds, ArtifactFails, refVars
  <2>3. CASE MeshNext
    BY <1>1, <2>3 DEF MeshNext, MeshServed, MeshDescriptorRead, MeshComponentRead, WholeMeshRead,
                      MeshFetchFails, MeshComponentGone, MeshLoadFailed, refVars
  <2> QED
    BY <1>2, <2>1, <2>2, <2>3
<1>3. CASE UserNext
  BY <1>1, <1>3 DEF UserNext, Toggle, Select, refVars, LoadBehindStatus
<1>4. CASE Effects
  BY <1>1, <1>4 DEF Effects, ReferenceEffect, ShowNoReferences, LoadReferencesForEntry, refVars,
                    LoadBehindStatus
<1>5. CASE ReferenceNext
  BY <1>5 DEF ReferenceNext, ReferenceServed, ReferenceDescriptorRead, ReferenceDescriptorFails,
              ComposeReferences, Becomes, LoadBehindStatus
<1> QED
  BY <1>1, <1>2, <1>3, <1>4, <1>5 DEF Next, vars, refVars

\* References that are said to be loading are.
THEOREM ReferencesAlwaysLoad == Spec => []ReferencesAreLoading
<1>1. Init => LoadBehindStatus
  BY DEF Init, LoadBehindStatus
<1>2. LoadBehindStatus => ReferencesAreLoading
  BY DEF LoadBehindStatus, ReferencesAreLoading
<1> QED
  BY <1>1, <1>2, LoadStaysBehindStatus, PTL DEF Spec

-----------------------------------------------------------------------------
\* Where scans are not torn, hash and url of a listing are of one version, which the disk
\* has reached; so what a load fetches, or a cache keeps, is not older than its hash.
ListingFresh(listing) ==
  \A f \in Files : listing[f].url = listing[f].hash /\ listing[f].url <= disk[f]

LoadFresh(l) ==
  /\ l.url = l.hash /\ l.url <= disk[l.file]
  /\ l.at \in Answered => l.url <= l.of

ServerFresh ==
  /\ ListingFresh(catalog)
  /\ refresh # Nothing => \A f \in Files : refresh[f] <= disk[f]
  /\ answer # Nothing => ListingFresh(answer.listing)

PageFresh ==
  /\ \A f \in Files, v \in Versions : cache[f][v] = NoVersion \/ v <= cache[f][v]
  /\ \A l \in meshLoad \cup refLoad : LoadFresh(l)
  /\ NoStaleGeometry

FreshInv == ServerFresh /\ PageFresh

\* The disk only gets newer, and what is scanned is what it has.
LEMMA DiskFresh == TypeInv /\ FreshInv /\ DiskNext => FreshInv'
<1> SUFFICES ASSUME TypeInv, FreshInv, DiskNext PROVE FreshInv'
  OBVIOUS
<1>0. /\ disk \in [Files -> Versions] /\ catalog \in Listings
      /\ refresh = Nothing \/ refresh \in [Files -> Versions]
      /\ answer = Nothing \/ answer \in [state : {"ready", "generating"}, listing : Listings]
      /\ meshLoad \subseteq Loads /\ refLoad \subseteq Loads
  BY DEF TypeInv, TypeOK
<1>1. disk' \in [Files -> Versions]
  BY DiskTypes DEF TypeInv, TypeOK
<1>2. \A f \in Files : disk[f] <= disk'[f]
  <2>1. \A f \in Files : disk[f] \in Int /\ source[f] \in Int
    BY <1>0 DEF TypeInv, TypeOK, Versions
  <2>2. ASSUME NEW f \in Files, Edit(f) PROVE \A g \in Files : disk[g] <= disk'[g]
    BY <1>0, <2>1, <2>2 DEF Edit
  <2>3. ASSUME NEW f \in Packages, Build(f) PROVE \A g \in Files : disk[g] <= disk'[g]
    BY <1>0, <2>1, <2>3 DEF Build
  <2>4. CASE disk' = disk
    BY <2>1, <2>4
  <2> QED
    BY <2>2, <2>3, <2>4 DEF DiskNext, Prune, RefreshScans, PostEnds, diskVars
<1>3. UNCHANGED <<catalog, cache, mesh, meshLoad, refs, refLoad>>
  BY DEF DiskNext, Edit, Build, Prune, RefreshScans, PostEnds, catalogVars, meshVars, refVars, cacheVars
<1>4. \/ UNCHANGED <<refresh, answer>>
      \/ refresh' = disk /\ UNCHANGED <<answer, disk>>
      \/ (\E state : answer' = [state |-> state, listing |-> Listing]) /\ UNCHANGED <<refresh, disk>>
  BY DEF DiskNext, Edit, Build, Prune, RefreshScans, PostEnds, catalogVars, diskVars
<1>5. PageFresh'
  <2>1. \A l \in Loads : LoadFresh(l) => LoadFresh(l)'
    BY <1>0, <1>1, <1>2 DEF Loads, LoadFresh, Versions
  <2>2. \A l \in meshLoad' \cup refLoad' : LoadFresh(l)'
    BY <1>0, <1>3, <2>1 DEF FreshInv, PageFresh
  <2> QED
    BY <1>3, <2>2 DEF FreshInv, PageFresh, NoStaleGeometry
<1>6. \A listing \in Listings : ListingFresh(listing) => ListingFresh(listing)'
  BY <1>0, <1>1, <1>2 DEF Listings, ListingFresh, Versions
<1>7. ListingFresh(catalog)'
  <2>1. ListingFresh(catalog)
    BY DEF FreshInv, ServerFresh
  <2> QED
    BY <1>0, <1>3, <1>6, <2>1 DEF ListingFresh
<1>8. refresh' # Nothing => \A f \in Files : refresh'[f] <= disk'[f]
  BY <1>0, <1>1, <1>2, <1>4 DEF FreshInv, ServerFresh, Versions
<1>9. answer' # Nothing => ListingFresh(answer.listing)'
  <2>1. CASE answer' = answer
    BY <1>0, <1>6, <2>1 DEF FreshInv, ServerFresh, ListingFresh
  <2>2. CASE (\E state : answer' = [state |-> state, listing |-> Listing]) /\ disk' = disk
    <3>1. answer'.listing = Listing
      BY <2>2
    <3> QED
      BY <1>0, <2>2, <3>1 DEF ListingFresh, Listing, Versions
  <2> QED
    BY <1>4, <2>1, <2>2
<1> QED
  BY <1>5, <1>7, <1>8, <1>9 DEF FreshInv, ServerFresh

\* A listing that is published is one that was scanned, and scans are not torn.
LEMMA CatalogFresh == TornScans = FALSE /\ TypeInv /\ FreshInv /\ CatalogNext => FreshInv'
<1> SUFFICES ASSUME TornScans = FALSE, TypeInv, FreshInv, CatalogNext PROVE FreshInv'
  OBVIOUS
<1>1. ListingFresh(catalog) /\ (answer # Nothing => ListingFresh(answer.listing))
  BY DEF FreshInv, ServerFresh
<1>2. UNCHANGED <<diskVars, cacheVars, mesh, meshLoad, refs, refLoad>>
  BY DEF CatalogNext, RefreshAnswers, RefreshFails, RefreshEnds, StatusAnswers, AnswerArrives,
         PeerBuildEnds, ArtifactFails, meshVars, refVars
<1>3. PageFresh'
  BY <1>2 DEF FreshInv, PageFresh, LoadFresh, NoStaleGeometry, diskVars, cacheVars
<1>4. disk' = disk
  BY <1>2 DEF diskVars
<1>5. refresh' # Nothing => \A f \in Files : refresh'[f] <= disk'[f]
  <2>1. refresh' = refresh \/ refresh' = Nothing
    BY DEF CatalogNext, RefreshAnswers, RefreshFails, RefreshEnds, StatusAnswers, AnswerArrives,
           PeerBuildEnds, ArtifactFails
  <2> QED
    BY <1>4, <2>1 DEF FreshInv, ServerFresh
<1>6. answer' # Nothing => ListingFresh(answer.listing)'
  <2>1. answer' = answer \/ answer' = Nothing
    BY DEF CatalogNext, RefreshAnswers, RefreshFails, RefreshEnds, StatusAnswers, AnswerArrives,
           PeerBuildEnds, ArtifactFails
  <2> QED
    BY <1>1, <1>4, <2>1 DEF ListingFresh
<1>7. ASSUME NEW listing, ListingFresh(listing), catalog' = listing PROVE ListingFresh(catalog)'
  BY <1>4, <1>7 DEF ListingFresh
<1>8. ListingFresh(catalog)'
  <2>1. CASE RefreshAnswers
    <3>1. refresh # Nothing /\ HashesRead = {refresh}
      BY <2>1 DEF RefreshAnswers, HashesRead
    <3>2. catalog' = [f \in Files |-> [url |-> refresh[f], hash |-> refresh[f]]]
      BY <2>1, <3>1 DEF RefreshAnswers, RefreshEnds, Publish
    <3>3. ListingFresh([f \in Files |-> [url |-> refresh[f], hash |-> refresh[f]]])
      BY <3>1 DEF ListingFresh, FreshInv, ServerFresh
    <3> QED
      BY <1>7, <3>2, <3>3
  <2>2. CASE AnswerArrives
    BY <1>1, <1>7, <2>2 DEF AnswerArrives, Publish
  <2>3. CASE catalog' = catalog
    BY <1>1, <1>7, <2>3
  <2> QED
    BY <2>1, <2>2, <2>3 DEF CatalogNext, RefreshFails, RefreshEnds, Publish, StatusAnswers,
                            PeerBuildEnds, ArtifactFails
<1> QED
  BY <1>3, <1>5, <1>6, <1>8 DEF FreshInv, ServerFresh

\* What is cached under the url of a fresh listing is not older than its hash.
LEMMA CachedIsFresh ==
  ASSUME TypeInv, FreshInv, NEW f \in Files, NEW v \in Versions,
         CachedMesh([file |-> f, url |-> v, hash |-> v]) # Nothing
  PROVE  /\ CachedMesh([file |-> f, url |-> v, hash |-> v]).hash = v
         /\ CachedMesh([file |-> f, url |-> v, hash |-> v]).of >= v
<1>1. TypeOK
  BY DEF TypeInv
<1>2. /\ CachedMesh([file |-> f, url |-> v, hash |-> v]) = [file |-> f, hash |-> v, of |-> cache[f][v]]
      /\ cache[f][v] \in Versions /\ cache[f][v] # NoVersion
  BY <1>1, CachedIsShown
<1>3. v <= cache[f][v]
  BY <1>2 DEF FreshInv, PageFresh
<1> QED
  BY <1>2, <1>3 DEF Versions

\* Selecting a file shows at most what is cached under the url it is listed with.
LEMMA UserFresh == TypeInv /\ FreshInv /\ UserNext => FreshInv'
<1> SUFFICES ASSUME TypeInv, FreshInv, UserNext PROVE FreshInv'
  OBVIOUS
<1>1. UNCHANGED <<disk, catalog, refresh, cache, meshLoad, refLoad>>
  BY DEF UserNext, Toggle, Select, diskVars, catalogVars, cacheVars, meshVars, refVars
<1>2. answer' = answer \/ answer' = Nothing
  BY DEF UserNext, Toggle, Select, catalogVars
<1>3. ServerFresh'
  BY <1>1, <1>2 DEF FreshInv, ServerFresh, ListingFresh
<1>4. refs' = refs \/ refs' = Nothing
  BY DEF UserNext, Toggle, Select, refVars
<1>5. mesh' # Nothing => mesh'.of >= mesh'.hash
  <2>1. CASE mesh' = mesh
    BY <2>1 DEF FreshInv, PageFresh, NoStaleGeometry
  <2>2. ASSUME NEW f \in Files, Select(f), mesh' # mesh PROVE mesh'.of >= mesh'.hash
    <3>1. PICK v \in Versions : catalog[f].url = v /\ catalog[f].hash = v
      BY DEF TypeInv, TypeOK, Listings, FreshInv, ServerFresh, ListingFresh
    <3>2. /\ CachedMesh([file |-> f, url |-> v, hash |-> v]) # Nothing
          /\ mesh' = CachedMesh([file |-> f, url |-> v, hash |-> v])
      BY <2>2, <3>1 DEF Select
    <3> QED
      BY <3>2, CachedIsFresh
  <2> QED
    BY <2>1, <2>2 DEF UserNext, Toggle, meshVars
<1> QED
  BY <1>1, <1>3, <1>4, <1>5 DEF FreshInv, PageFresh, LoadFresh, NoStaleGeometry

\* An entry with assets names one version, which is on disk.
LEMMA EntryIsFresh ==
  ASSUME TypeInv, FreshInv, HasAssets(Entry)
  PROVE  \E v \in Versions : Entry = [file |-> selected, url |-> v, hash |-> v] /\ v <= disk[selected]
<1>1. TypeOK /\ selected \in Files
  BY DEF TypeInv, TypeOK
<1>2. /\ Entry.url = catalog[selected].url /\ Entry.hash = catalog[selected].hash
      /\ Entry.url \in Versions /\ Entry.file = selected
  BY <1>1, EntryIsListed
<1>3. catalog[selected].url = catalog[selected].hash /\ catalog[selected].url <= disk[selected]
  BY <1>1 DEF FreshInv, ServerFresh, ListingFresh
<1>4. Entry = [file |-> Entry.file, url |-> Entry.url, hash |-> Entry.hash]
  BY DEF Entry
<1> QED
  BY <1>2, <1>3, <1>4

\* What the server gives for a fresh load is not older than the load's hash.
LEMMA ServedIsFresh ==
  ASSUME TypeInv, FreshInv, NEW l \in meshLoad \cup refLoad
  PROVE  LoadFresh(Serve(l))
<1>1. TypeOK /\ l \in Loads /\ LoadFresh(l)
  BY DEF TypeInv, TypeOK, FreshInv, PageFresh
<1>2. l.file \in Files /\ l.url \in Versions
  BY <1>1 DEF Loads
<1>3. l.url <= Fetched(l)
  BY <1>1, <1>2 DEF Fetched, LoadFresh, FreshInv, PageFresh
<1> QED
  BY <1>1, <1>3, ServedIsAnswered DEF LoadFresh

\* A fresh answer that is cached keeps the cache fresh.
LEMMA RememberedIsFresh ==
  ASSUME TypeInv, FreshInv, NEW l \in meshLoad \cup refLoad, l.at \in Answered, Remember(l)
  PROVE  \A f \in Files, v \in Versions : cache'[f][v] = NoVersion \/ v <= cache'[f][v]
<1>1. cache \in [Files -> [Versions -> 0 .. MaxEdits + 1]] /\ l \in Loads /\ LoadFresh(l)
  BY DEF TypeInv, TypeOK, FreshInv, PageFresh
<1>2. l.file \in Files /\ l.url \in Versions /\ l.url <= l.of
  BY <1>1 DEF Loads, LoadFresh
<1>3. ASSUME NEW f \in Files, NEW v \in Versions
      PROVE  cache'[f][v] = IF f = l.file /\ v = l.url THEN l.of ELSE cache[f][v]
  BY <1>1, <1>2 DEF Remember
<1> QED
  BY <1>2, <1>3 DEF FreshInv, PageFresh

\* The page stays fresh where the server does not change, its loads are those that were there
\* or fresh ones, and its cache and what it shows are fresh.
LEMMA PageStaysFresh ==
  ASSUME FreshInv, UNCHANGED <<disk, catalog, refresh, answer>>,
         \A f \in Files, v \in Versions : cache'[f][v] = NoVersion \/ v <= cache'[f][v],
         \A l \in meshLoad' \cup refLoad' : l \in meshLoad \cup refLoad \/ LoadFresh(l),
         NoStaleGeometry'
  PROVE  FreshInv'
<1>1. \A l \in meshLoad' \cup refLoad' : LoadFresh(l)'
  BY DEF LoadFresh, FreshInv, PageFresh
<1>2. ServerFresh'
  BY DEF FreshInv, ServerFresh, ListingFresh
<1> QED
  BY <1>1, <1>2 DEF FreshInv, PageFresh

\* Effects show what is cached for the entry, or start a load of it.
LEMMA EffectFresh == TypeInv /\ FreshInv /\ Effects => FreshInv'
<1> SUFFICES ASSUME TypeInv, FreshInv, Effects PROVE FreshInv'
  OBVIOUS
<1>1. UNCHANGED <<disk, catalog, refresh, answer, cache>>
  BY DEF Effects, diskVars, catalogVars, cacheVars
<1>2. ASSUME HasAssets(Entry), NEW at \in {"whole", "descriptor"} PROVE LoadFresh(Load(Entry, at))
  <2>1. PICK v \in Versions : Entry = [file |-> selected, url |-> v, hash |-> v] /\ v <= disk[selected]
    BY <1>2, EntryIsFresh
  <2> QED
    BY <2>1 DEF Load, LoadFresh, Answered
<1>3. \A l \in meshLoad' : l \in meshLoad \/ LoadFresh(l)
  <2>1. CASE LoadMeshForEntry(Entry)
    <3>1. \/ meshLoad' = {}
          \/ HasAssets(Entry) /\ \E at \in {"whole", "descriptor"} : meshLoad' = {Load(Entry, at)}
      BY <2>1 DEF LoadMeshForEntry, CancelMeshLoad
    <3> QED
      BY <1>2, <3>1
  <2> QED
    BY <2>1 DEF Effects, MeshEffect, meshVars
<1>4. \A l \in refLoad' : l \in refLoad \/ LoadFresh(l)
  <2>1. CASE LoadReferencesForEntry(Entry) /\ HasAssets(Entry)
    <3>1. refLoad' = {Load(Entry, "descriptor")}
      BY <2>1 DEF LoadReferencesForEntry, CancelReferenceLoad
    <3> QED
      BY <1>2, <2>1, <3>1
  <2>2. CASE \E why \in {"disabled", "idle"} : ShowNoReferences(why)
    BY <2>2 DEF ShowNoReferences, CancelReferenceLoad
  <2> QED
    BY <2>1, <2>2 DEF Effects, ReferenceEffect, refVars
<1>5. mesh' # Nothing => mesh'.of >= mesh'.hash
  <2>1. CASE mesh' = mesh
    BY <2>1 DEF FreshInv, PageFresh, NoStaleGeometry
  <2>2. CASE LoadMeshForEntry(Entry) /\ mesh' # mesh /\ mesh' # Nothing
    <3>1. HasAssets(Entry) /\ CachedMesh(Entry) # Nothing /\ mesh' = CachedMesh(Entry)
      BY <2>2 DEF LoadMeshForEntry
    <3>2. PICK v \in Versions : Entry = [file |-> selected, url |-> v, hash |-> v]
      BY <3>1, EntryIsFresh
    <3>3. selected \in Files
      BY DEF TypeInv, TypeOK
    <3>4. /\ CachedMesh([file |-> selected, url |-> v, hash |-> v]) # Nothing
          /\ mesh' = CachedMesh([file |-> selected, url |-> v, hash |-> v])
      BY <3>1, <3>2
    <3> QED
      BY <3>3, <3>4, CachedIsFresh
  <2> QED
    BY <2>1, <2>2 DEF Effects, MeshEffect, meshVars
<1>6. refs' = refs \/ refs' = Nothing
  BY DEF Effects, ReferenceEffect, ShowNoReferences, LoadReferencesForEntry, refVars
<1>7. \A f \in Files, v \in Versions : cache'[f][v] = NoVersion \/ v <= cache'[f][v]
  BY <1>1 DEF FreshInv, PageFresh
<1>8. NoStaleGeometry'
  BY <1>5, <1>6 DEF FreshInv, PageFresh, NoStaleGeometry
<1> QED
  BY <1>1, <1>3, <1>4, <1>7, <1>8, PageStaysFresh

\* A mesh is shown with what was served for its url.
LEMMA MeshFresh == TypeInv /\ FreshInv /\ MeshNext => FreshInv'
<1> SUFFICES ASSUME TypeInv, FreshInv, NEW l \in meshLoad,
                    \/ MeshServed(l) \/ MeshDescriptorRead(l) \/ MeshComponentRead(l)
                    \/ WholeMeshRead(l) \/ MeshFetchFails(l) \/ MeshComponentGone(l)
             PROVE  FreshInv'
  BY DEF MeshNext
<1>1. /\ \A f \in Files, v \in Versions : cache[f][v] = NoVersion \/ v <= cache[f][v]
      /\ NoStaleGeometry /\ LoadFresh(l) /\ l \in Loads
  BY DEF FreshInv, PageFresh, TypeInv, TypeOK
<1>2. CASE MeshServed(l)
  <2>1. meshLoad' = (meshLoad \ {l}) \cup {Serve(l)} /\ LoadFresh(Serve(l))
    BY <1>2, ServedIsFresh DEF MeshServed, Becomes
  <2>2. UNCHANGED <<disk, catalog, refresh, answer, cache, mesh, refs, refLoad>>
    BY <1>2 DEF MeshServed, diskVars, catalogVars, cacheVars, refVars
  <2>3. NoStaleGeometry'
    BY <1>1, <2>2 DEF NoStaleGeometry
  <2>4. \A k \in meshLoad' \cup refLoad' : k \in meshLoad \cup refLoad \/ LoadFresh(k)
    BY <2>1, <2>2
  <2>5. \A f \in Files, v \in Versions : cache'[f][v] = NoVersion \/ v <= cache'[f][v]
    BY <1>1, <2>2
  <2> QED
    BY <2>2, <2>3, <2>4, <2>5, PageStaysFresh
<1>3. CASE MeshDescriptorRead(l)
  <2>1. /\ meshLoad' = (meshLoad \ {l}) \cup {[l EXCEPT !.at = "component"]}
        /\ l.at \in Answered /\ Remember(l)
    BY <1>3 DEF MeshDescriptorRead, Becomes, Answered
  <2>2. UNCHANGED <<disk, catalog, refresh, answer, mesh, refs, refLoad>>
    BY <1>3 DEF MeshDescriptorRead, diskVars, catalogVars, refVars
  <2>3. NoStaleGeometry'
    BY <1>1, <2>2 DEF NoStaleGeometry
  <2>4. LoadFresh([l EXCEPT !.at = "component"])
    BY <1>1, <2>1 DEF LoadFresh, Loads
  <2>5. \A k \in meshLoad' \cup refLoad' : k \in meshLoad \cup refLoad \/ LoadFresh(k)
    BY <2>1, <2>2, <2>4
  <2>6. \A f \in Files, v \in Versions : cache'[f][v] = NoVersion \/ v <= cache'[f][v]
    BY <2>1, RememberedIsFresh
  <2> QED
    BY <2>2, <2>3, <2>5, <2>6, PageStaysFresh
<1>4. CASE MeshComponentRead(l) \/ WholeMeshRead(l)
  <2>1. l.at \in Answered /\ ShowMesh(l)
    BY <1>4 DEF MeshComponentRead, WholeMeshRead, Answered
  <2>2. UNCHANGED <<disk, catalog, refresh, answer, refs, refLoad>>
    BY <1>4 DEF MeshComponentRead, WholeMeshRead, diskVars, catalogVars, refVars
  <2>3. meshLoad' = meshLoad \ {l} /\ mesh' = [file |-> l.file, hash |-> l.hash, of |-> l.of]
    BY <2>1 DEF ShowMesh, EndMeshLoad
  <2>4. l.hash <= l.of /\ l.hash \in Int
    BY <1>1, <2>1 DEF LoadFresh, Loads, Versions
  <2>5. l.of \in Int
    BY <1>1 DEF Loads
  <2>6. NoStaleGeometry'
    BY <1>1, <2>2, <2>3, <2>4, <2>5 DEF NoStaleGeometry
  <2>7. cache' = cache \/ Remember(l)
    BY <1>4 DEF MeshComponentRead, WholeMeshRead
  <2>8. \A f \in Files, v \in Versions : cache'[f][v] = NoVersion \/ v <= cache'[f][v]
    BY <1>1, <2>1, <2>7, RememberedIsFresh
  <2>9. \A k \in meshLoad' \cup refLoad' : k \in meshLoad \cup refLoad
    BY <2>2, <2>3
  <2> QED
    BY <2>2, <2>6, <2>8, <2>9, PageStaysFresh
<1>5. CASE MeshFetchFails(l) \/ MeshComponentGone(l)
  <2>1. /\ meshLoad' = meshLoad \ {l}
        /\ UNCHANGED <<disk, catalog, refresh, answer, cache, mesh, refs, refLoad>>
    BY <1>5 DEF MeshFetchFails, MeshComponentGone, MeshLoadFailed, EndMeshLoad,
                diskVars, catalogVars, cacheVars, refVars
  <2>2. NoStaleGeometry'
    BY <1>1, <2>1 DEF NoStaleGeometry
  <2>3. \A k \in meshLoad' \cup refLoad' : k \in meshLoad \cup refLoad
    BY <2>1
  <2>4. \A f \in Files, v \in Versions : cache'[f][v] = NoVersion \/ v <= cache'[f][v]
    BY <1>1, <2>1
  <2> QED
    BY <2>1, <2>2, <2>3, <2>4, PageStaysFresh
<1> QED
  BY <1>2, <1>3, <1>4, <1>5

\* So are references.
LEMMA ReferenceFresh == TypeInv /\ FreshInv /\ ReferenceNext => FreshInv'
<1> SUFFICES ASSUME TypeInv, FreshInv, NEW l \in refLoad,
                    \/ ReferenceServed(l) \/ ReferenceDescriptorRead(l)
                    \/ ReferenceDescriptorFails(l) \/ ComposeReferences(l)
             PROVE  FreshInv'
  BY DEF ReferenceNext
<1>1. /\ \A f \in Files, v \in Versions : cache[f][v] = NoVersion \/ v <= cache[f][v]
      /\ NoStaleGeometry /\ LoadFresh(l) /\ l \in Loads
  BY DEF FreshInv, PageFresh, TypeInv, TypeOK
<1>2. UNCHANGED <<disk, catalog, refresh, answer, mesh, meshLoad>>
  BY DEF ReferenceServed, ReferenceDescriptorRead, ReferenceDescriptorFails, ComposeReferences,
         diskVars, catalogVars, meshVars
<1>3. \/ cache' = cache
      \/ l.at \in Answered /\ Remember(l)
  BY DEF ReferenceServed, ReferenceDescriptorRead, ReferenceDescriptorFails, ComposeReferences,
         cacheVars, Answered
<1>4. \A f \in Files, v \in Versions : cache'[f][v] = NoVersion \/ v <= cache'[f][v]
  BY <1>1, <1>3, RememberedIsFresh
<1>5. \/ refLoad' = (refLoad \ {l}) \cup {Serve(l)}
      \/ l.at \in Answered /\ refLoad' = (refLoad \ {l}) \cup {[l EXCEPT !.at = "component"]}
      \/ refLoad' = refLoad \ {l}
  BY DEF ReferenceServed, ReferenceDescriptorRead, ReferenceDescriptorFails, ComposeReferences,
         Becomes, Answered
<1>6. l.at \in Answered => LoadFresh([l EXCEPT !.at = "component"])
  BY <1>1 DEF LoadFresh, Loads
<1>7. \A k \in meshLoad' \cup refLoad' : k \in meshLoad \cup refLoad \/ LoadFresh(k)
  BY <1>2, <1>5, <1>6, ServedIsFresh
<1>8. \/ refs' = refs
      \/ l.at \in Answered /\ refs' = [file |-> l.file, hash |-> l.hash, of |-> l.of]
  BY DEF ReferenceServed, ReferenceDescriptorRead, ReferenceDescriptorFails, ComposeReferences, Answered
<1>9. l.at \in Answered => l.hash \in Int /\ l.of \in Int /\ l.of >= l.hash
  BY <1>1 DEF LoadFresh, Loads, Versions
<1>10. NoStaleGeometry'
  BY <1>1, <1>2, <1>8, <1>9 DEF NoStaleGeometry
<1> QED
  BY <1>2, <1>4, <1>7, <1>10, PageStaysFresh

\* Nothing is shown at first, and the catalog lists what is on disk.
LEMMA InitFresh == Init => FreshInv
<1> SUFFICES ASSUME Init PROVE FreshInv
  OBVIOUS
<1>1. 1 \in Versions
  BY BoundsAssumption DEF Versions
<1>2. ListingFresh(catalog)
  <2>1. catalog = Listing /\ \A f \in Files : disk[f] = 1
    BY DEF Init
  <2>2. \A f \in Files : Listing[f] = [url |-> 1, hash |-> 1]
    BY <2>1 DEF Listing
  <2> QED
    BY <2>1, <2>2 DEF ListingFresh
<1>3. refresh = Nothing /\ answer = Nothing /\ meshLoad = {} /\ refLoad = {}
      /\ mesh = Nothing /\ refs = Nothing
      /\ cache = [f \in Files |-> [v \in Versions |-> NoVersion]]
  BY DEF Init
<1> QED
  BY <1>2, <1>3 DEF FreshInv, ServerFresh, PageFresh, NoStaleGeometry

\* What is shown under a hash is not older than it, where no build replaces a file between
\* the two reads of a scan: for every set of files, every number of edits and faults.
THEOREM NeverStale == TornScans = FALSE => (Spec => []NoStaleGeometry)
<1> SUFFICES ASSUME TornScans = FALSE PROVE Spec => []NoStaleGeometry
  OBVIOUS
<1>1. TypeInv /\ FreshInv /\ [Next]_vars => FreshInv'
  <2> SUFFICES ASSUME TypeInv, FreshInv, [Next]_vars PROVE FreshInv'
    OBVIOUS
  <2>1. CASE UNCHANGED vars
    BY <2>1 DEF FreshInv, ServerFresh, PageFresh, ListingFresh, LoadFresh, NoStaleGeometry,
                vars, diskVars, catalogVars, meshVars, refVars, cacheVars
  <2> QED
    BY <2>1, DiskFresh, CatalogFresh, UserFresh, EffectFresh, MeshFresh, ReferenceFresh DEF Next
<1>2. FreshInv => NoStaleGeometry
  BY DEF FreshInv, PageFresh
<1> QED
  BY <1>1, <1>2, InitTypes, NextTypes, InitFresh, PTL DEF Spec
=============================================================================
