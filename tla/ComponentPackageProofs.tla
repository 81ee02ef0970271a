----------------------- MODULE ComponentPackageProofs -----------------------
(***************************************************************************)
(* The theorems of ComponentPackage, for any number of processes, contents *)
(* and components: the descriptor on disk is always complete, and a        *)
(* sidecar that stays in place while it is read is served only beside a    *)
(* descriptor of the same geometry.                                        *)
(*                                                                         *)
(* The argument for the descriptor follows a build: once it has looked     *)
(* which components are missing, each component of its geometry is on      *)
(* disk, to be written, or failed (Prepared); what it publishes is this    *)
(* geometry, and what it prunes at the end is none of it (Disposable).     *)
(* Nobody else removes a component meanwhile, for one process holds the    *)
(* lock, and orphaned workers only add.                                    *)
(***************************************************************************)
EXTENDS ComponentPackage, TLAPS

\* What a build in its write phase relies on.
Prepared ==
  \A p \in Processes : pc[p] = "build" =>
    \A c \in ComponentsOf[built[p].of] : glbs[c] # Nothing \/ c \in todo[p] \/ c \in failed[p]

\* What it has published is its geometry, and what it prunes is not part of it.
Disposable ==
  \A p \in Processes :
    descriptor # Nothing =>
      /\ pc[p] = "unlink" => descriptor.of = built[p].of
      /\ pc[p] = "prune" => \A c \in ComponentsOf[descriptor.of] : c \notin todo[p]

\* What a running build or query has in its locals.
Locals ==
  \A p \in Processes :
    /\ pc[p] # "idle" => job[p] \in Jobs
    /\ pc[p] \in {"loading", "extracting"} => scene[p] \in Records
    /\ pc[p] \in {"import", "scan", "build", "unlink"} => built[p] \in Records

\* Between its two reads a query finds the sidecar it has checked, or none, unless another
\* query has put one there.
Checked ==
  \A p \in Processes :
    /\ pc[p] = "bundle" /\ sidecar # Nothing => sidecar.content = seen[p].content
    /\ pc[p] = "served" => scene[p].content = seen[p].content

PackageInv == TypeOK /\ Locals /\ Prepared /\ Disposable /\ DescriptorIsComplete

\* What a present component is: it has a mesh.
LEMMA MeshesArePresent == \A m \in Meshes : m # Nothing
BY NothingAssumption

\* The components of a content are components.
LEMMA ContentHasComponents == \A v \in Contents : ComponentsOf[v] \subseteq Components
BY ComponentsAssumption

\* A step that leaves the files and the locals alone keeps the invariant.
LEMMA InvStutters ==
  ASSUME PackageInv, UNCHANGED vars
  PROVE PackageInv'
BY DEF PackageInv, TypeOK, Locals, Prepared, Disposable, DescriptorIsComplete, Complete, vars,
  files,
  local, Jobs, Descriptors, Records

\* The initial states satisfy the invariant.
LEMMA InvInit == Init => PackageInv
<1> SUFFICES ASSUME Init PROVE PackageInv
  OBVIOUS
<1>1. \A p \in Processes : pc[p] = "idle"
  BY DEF Init
<1>2. TypeOK
  BY NothingAssumption DEF Init, TypeOK, States, Working
<1> QED
  BY <1>1, <1>2 DEF Init, PackageInv, Locals, Prepared, Disposable, DescriptorIsComplete

\* An edit of the sources touches no file of the package and no process.
LEMMA EditKeepsInv ==
  ASSUME PackageInv, Edit
  PROVE PackageInv'
<1> USE DEF PackageInv, Edit, Goes, Leaves, Forgets, Releases, files, local
<1>1. TypeOK'
  BY DEF TypeOK
<1>2. Locals'
  BY DEF Locals
<1>3. Prepared'
  BY DEF Prepared
<1>4. Disposable'
  BY DEF Disposable
<1>5. DescriptorIsComplete'
  BY DEF DescriptorIsComplete, Complete
<1> QED
  BY <1>1, <1>2, <1>3, <1>4, <1>5

\* A build that begins waits for the lock.
LEMMA BuildKeepsInv ==
  ASSUME PackageInv, NEW p \in Processes, NEW force \in BOOLEAN, NEW mesh \in Meshes,
         Build(p, force, mesh)
  PROVE PackageInv'
<1> USE DEF PackageInv, Build, Goes, Leaves, Forgets, Releases, files, local
<1>1. TypeOK'
  BY DEF TypeOK, States, Working, Jobs
<1>2. Locals'
  BY DEF TypeOK, Locals, Jobs
<1>3. Prepared'
  BY DEF Prepared
<1>4. Disposable'
  BY DEF Disposable
<1>5. DescriptorIsComplete'
  BY DEF DescriptorIsComplete, Complete
<1> QED
  BY <1>1, <1>2, <1>3, <1>4, <1>5

\* A process that finds the package current leaves.
LEMMA SkipKeepsInv ==
  ASSUME PackageInv, NEW p \in Processes, Skip(p)
  PROVE PackageInv'
<1> USE DEF PackageInv, Skip, Goes, Leaves, Forgets, Releases, files, local
<1>1. TypeOK'
  BY DEF TypeOK, States, Working
<1>2. Locals'
  BY DEF TypeOK, Locals
<1>3. Prepared'
  BY DEF Prepared
<1>4. Disposable'
  BY DEF Disposable
<1>5. DescriptorIsComplete'
  BY DEF DescriptorIsComplete, Complete
<1> QED
  BY <1>1, <1>2, <1>3, <1>4, <1>5

\* Who acquires the lock is the only one that works.
LEMMA AcquireKeepsInv ==
  ASSUME PackageInv, NEW p \in Processes, Acquire(p)
  PROVE PackageInv'
<1> USE DEF PackageInv, Acquire, Goes, Leaves, Forgets, Releases, files, local
<1>1. TypeOK'
  BY NothingAssumption DEF TypeOK, States, Working
<1>2. Locals'
  BY DEF Locals
<1>3. Prepared'
  BY DEF Prepared
<1>4. Disposable'
  BY DEF Disposable
<1>5. DescriptorIsComplete'
  BY DEF DescriptorIsComplete, Complete
<1> QED
  BY <1>1, <1>2, <1>3, <1>4, <1>5

\* The script runs, or the STEP file is hashed.
LEMMA LoadKeepsInv ==
  ASSUME PackageInv, NEW p \in Processes, Load(p)
  PROVE PackageInv'
<1> USE DEF PackageInv, Load, Goes, Leaves, Forgets, Releases, files, local
<1>0. source \in Contents
  BY DEF TypeOK
<1>l. Locals'
  BY <1>0 DEF TypeOK, Locals, Records, Fresh
<1>1. TypeOK'
  BY <1>0, NothingAssumption DEF TypeOK, Locals, States, Working, Records, Fresh
<1>3. Prepared'
  BY DEF TypeOK, Prepared
<1>4. Disposable'
  BY DEF Disposable
<1>5. DescriptorIsComplete'
  BY DEF DescriptorIsComplete, Complete
<1> QED
  BY <1>l, <1>1, <1>3, <1>4, <1>5

\* The other half of the load.
LEMMA LoadedKeepsInv ==
  ASSUME PackageInv, NEW p \in Processes, Loaded(p)
  PROVE PackageInv'
<1> USE DEF PackageInv, Loaded, Goes, Leaves, Forgets, Releases, files, local
<1>0. source \in Contents
  BY DEF TypeOK
<1>l. Locals'
  BY <1>0 DEF TypeOK, Locals, Records, Fresh
<1>1. TypeOK'
  BY <1>0, NothingAssumption DEF TypeOK, Locals, States, Working, Records, Fresh
<1>3. Prepared'
  BY DEF TypeOK, Prepared
<1>4. Disposable'
  BY DEF Disposable
<1>5. DescriptorIsComplete'
  BY DEF DescriptorIsComplete, Complete
<1> QED
  BY <1>l, <1>1, <1>3, <1>4, <1>5

\* The package of a STEP file is of a state of the file.
LEMMA HashKeepsInv ==
  ASSUME PackageInv, NEW p \in Processes, Hash(p)
  PROVE PackageInv'
<1> USE DEF PackageInv, Hash, Goes, Leaves, Forgets, Releases, files, local
<1>0. source \in Contents
  BY DEF TypeOK
<1>l. Locals'
  BY <1>0 DEF TypeOK, Locals, Records, Fresh
<1>1. TypeOK'
  BY <1>0, NothingAssumption DEF TypeOK, Locals, States, Working, Records, Fresh
<1>3. Prepared'
  BY DEF TypeOK, Prepared
<1>4. Disposable'
  BY DEF Disposable
<1>5. DescriptorIsComplete'
  BY DEF DescriptorIsComplete, Complete
<1> QED
  BY <1>l, <1>1, <1>3, <1>4, <1>5

\* Its geometry is of another.
LEMMA ImportKeepsInv ==
  ASSUME PackageInv, NEW p \in Processes, Import(p)
  PROVE PackageInv'
<1> USE DEF PackageInv, Import, Goes, Leaves, Forgets, Releases, files, local
<1>0. source \in Contents
  BY DEF TypeOK
<1>l. Locals'
  BY <1>0 DEF TypeOK, Locals, Records, Fresh
<1>1. TypeOK'
  BY <1>0, NothingAssumption DEF TypeOK, Locals, States, Working, Records, Fresh
<1>3. Prepared'
  BY DEF TypeOK, Prepared
<1>4. Disposable'
  BY DEF Disposable
<1>5. DescriptorIsComplete'
  BY DEF DescriptorIsComplete, Complete
<1> QED
  BY <1>l, <1>1, <1>3, <1>4, <1>5

\* What is not there is to be built: the build is prepared.
LEMMA ScanKeepsInv ==
  ASSUME PackageInv, NEW p \in Processes, Scan(p)
  PROVE PackageInv'
<1> USE DEF PackageInv, Scan, Goes, Leaves, Forgets, Releases, files, local
<1>0. ComponentsOf[built[p].of] \subseteq Components
  BY ContentHasComponents DEF Locals, Records
<1>t. todo' \in [Processes -> SUBSET Components]
  BY <1>0 DEF TypeOK
<1>1. TypeOK'
  BY <1>t DEF TypeOK, States, Working
<1>2. Locals'
  BY DEF Locals
<1>3. Prepared'
  BY DEF TypeOK, Prepared
<1>4. Disposable'
  BY DEF Disposable
<1>5. DescriptorIsComplete'
  BY DEF DescriptorIsComplete, Complete
<1> QED
  BY <1>1, <1>2, <1>3, <1>4, <1>5

\* A component that is written is there.
LEMMA WriteComponentKeepsInv ==
  ASSUME PackageInv, NEW p \in Processes, NEW c \in Components, WriteComponent(p, c)
  PROVE PackageInv'
<1> USE DEF PackageInv, WriteComponent, Goes, Leaves, Forgets, Releases, files, local
<1>0. job[p].mesh \in Meshes /\ job[p].mesh # Nothing
  BY MeshesArePresent DEF Locals, Jobs
<1>g. glbs' \in [Components -> Meshes \cup {Nothing}]
  BY <1>0 DEF TypeOK
<1>t. todo' \in [Processes -> SUBSET Components] /\ failed' \in [Processes -> SUBSET Components]
  BY DEF TypeOK
<1>1. TypeOK'
  BY <1>g, <1>t DEF TypeOK
<1>2. Locals'
  BY DEF Locals
<1>3. Prepared'
  BY <1>0 DEF TypeOK, Prepared
<1>4. Disposable'
  BY DEF Disposable
<1>5. DescriptorIsComplete'
  BY <1>0 DEF DescriptorIsComplete, Complete
<1> QED
  BY <1>1, <1>2, <1>3, <1>4, <1>5

\* A component that fails is accounted for.
LEMMA ComponentFailsKeepsInv ==
  ASSUME PackageInv, NEW p \in Processes, NEW c \in Components, ComponentFails(p, c)
  PROVE PackageInv'
<1> USE DEF PackageInv, ComponentFails, Goes, Leaves, Forgets, Releases, files, local
<1>1. TypeOK'
  BY DEF TypeOK
<1>2. Locals'
  BY DEF Locals
<1>3. Prepared'
  BY DEF TypeOK, Prepared
<1>4. Disposable'
  BY DEF Disposable
<1>5. DescriptorIsComplete'
  BY DEF DescriptorIsComplete, Complete
<1> QED
  BY <1>1, <1>2, <1>3, <1>4, <1>5

\* A component that is retried is there.
LEMMA RetryKeepsInv ==
  ASSUME PackageInv, NEW p \in Processes, NEW c \in Components, Retry(p, c)
  PROVE PackageInv'
<1> USE DEF PackageInv, Retry, Goes, Leaves, Forgets, Releases, files, local
<1>0. job[p].mesh \in Meshes /\ job[p].mesh # Nothing
  BY MeshesArePresent DEF Locals, Jobs
<1>g. glbs' \in [Components -> Meshes \cup {Nothing}]
  BY <1>0 DEF TypeOK
<1>t. todo' \in [Processes -> SUBSET Components] /\ failed' \in [Processes -> SUBSET Components]
  BY DEF TypeOK
<1>1. TypeOK'
  BY <1>g, <1>t DEF TypeOK
<1>2. Locals'
  BY DEF Locals
<1>3. Prepared'
  BY <1>0 DEF TypeOK, Prepared
<1>4. Disposable'
  BY DEF Disposable
<1>5. DescriptorIsComplete'
  BY <1>0 DEF DescriptorIsComplete, Complete
<1> QED
  BY <1>1, <1>2, <1>3, <1>4, <1>5

\* With nothing to build and nothing failed, all components of the new descriptor are there.
LEMMA WriteDescriptorKeepsInv ==
  ASSUME PackageInv, NEW p \in Processes, WriteDescriptor(p)
  PROVE PackageInv'
<1> USE DEF PackageInv, WriteDescriptor, Goes, Leaves, Forgets, Releases, files, local
<1>0. descriptor' \in Descriptors
  BY DEF Locals, Jobs, Descriptors, Records
<1>1. TypeOK'
  BY <1>0 DEF TypeOK, States, Working
<1>2. Locals'
  BY DEF Locals
<1>3. Prepared'
  BY DEF Prepared
<1>4. Disposable'
  BY DEF TypeOK, Disposable, Working
<1>5. DescriptorIsComplete'
  BY DEF DescriptorIsComplete, Complete, Prepared
<1> QED
  BY <1>1, <1>2, <1>3, <1>4, <1>5

\* What is listed for pruning is none of the content's.
LEMMA UnlinkKeepsInv ==
  ASSUME PackageInv, NEW p \in Processes, Unlink(p)
  PROVE PackageInv'
<1> USE DEF PackageInv, Unlink, Goes, Leaves, Forgets, Releases, files, local
<1>1. TypeOK'
  BY DEF TypeOK, States, Working
<1>2. Locals'
  BY DEF TypeOK, Locals
<1>3. Prepared'
  BY DEF Prepared
<1>4. Disposable'
  BY DEF TypeOK, Disposable
<1>5. DescriptorIsComplete'
  BY DEF DescriptorIsComplete, Complete
<1> QED
  BY <1>1, <1>2, <1>3, <1>4, <1>5

\* What is pruned is none of the descriptor's, for the holder of the lock wrote it.
LEMMA PruneKeepsInv ==
  ASSUME PackageInv, NEW p \in Processes, NEW c \in Components, Prune(p, c)
  PROVE PackageInv'
<1> USE DEF PackageInv, Prune, Goes, Leaves, Forgets, Releases, files, local
<1>1. TypeOK'
  BY DEF TypeOK
<1>2. Locals'
  BY DEF Locals
<1>3. Prepared'
  BY DEF TypeOK, Prepared, Working
<1>4. Disposable'
  BY DEF Disposable
<1>5. DescriptorIsComplete'
  BY DEF DescriptorIsComplete, Complete, Disposable
<1> QED
  BY <1>1, <1>2, <1>3, <1>4, <1>5

\* A build that completes leaves, or goes on with its selectors.
LEMMA FinishKeepsInv ==
  ASSUME PackageInv, NEW p \in Processes, Finish(p)
  PROVE PackageInv'
<1> USE DEF PackageInv, Finish, Goes, Leaves, Forgets, Releases, files, local
<1>1. TypeOK'
  BY NothingAssumption DEF TypeOK, States, Working
<1>2. Locals'
  BY DEF TypeOK, Locals
<1>3. Prepared'
  BY DEF TypeOK, Prepared
<1>4. Disposable'
  BY DEF TypeOK, Disposable
<1>5. DescriptorIsComplete'
  BY DEF DescriptorIsComplete, Complete
<1> QED
  BY <1>1, <1>2, <1>3, <1>4, <1>5

\* A build that raises leaves, and the files stay.
LEMMA RaiseKeepsInv ==
  ASSUME PackageInv, NEW p \in Processes, Raise(p)
  PROVE PackageInv'
<1> USE DEF PackageInv, Raise, Goes, Leaves, Forgets, Releases, files, local
<1>1. TypeOK'
  BY NothingAssumption DEF TypeOK, States, Working
<1>2. Locals'
  BY DEF TypeOK, Locals
<1>3. Prepared'
  BY DEF TypeOK, Prepared
<1>4. Disposable'
  BY DEF TypeOK, Disposable
<1>5. DescriptorIsComplete'
  BY DEF DescriptorIsComplete, Complete
<1> QED
  BY <1>1, <1>2, <1>3, <1>4, <1>5

\* A query begins.
LEMMA QueryKeepsInv ==
  ASSUME PackageInv, NEW p \in Processes, NEW force \in BOOLEAN, NEW mesh \in Meshes,
         Query(p, force, mesh)
  PROVE PackageInv'
<1> USE DEF PackageInv, Query, Goes, Leaves, Forgets, Releases, files, local
<1>1. TypeOK'
  BY DEF TypeOK, States, Working, Jobs
<1>2. Locals'
  BY DEF TypeOK, Locals, Jobs
<1>3. Prepared'
  BY DEF Prepared
<1>4. Disposable'
  BY DEF Disposable
<1>5. DescriptorIsComplete'
  BY DEF DescriptorIsComplete, Complete
<1> QED
  BY <1>1, <1>2, <1>3, <1>4, <1>5

\* The first read of the sidecar.
LEMMA ReadManifestKeepsInv ==
  ASSUME PackageInv, NEW p \in Processes, ReadManifest(p)
  PROVE PackageInv'
<1> USE DEF PackageInv, ReadManifest, Goes, Leaves, Forgets, Releases, files, local
<1>1. TypeOK'
  BY DEF TypeOK, States, Working
<1>2. Locals'
  BY DEF Locals
<1>3. Prepared'
  BY DEF Prepared
<1>4. Disposable'
  BY DEF Disposable
<1>5. DescriptorIsComplete'
  BY DEF DescriptorIsComplete, Complete
<1> QED
  BY <1>1, <1>2, <1>3, <1>4, <1>5

\* The second read of the sidecar.
LEMMA ReadBundleKeepsInv ==
  ASSUME PackageInv, NEW p \in Processes, ReadBundle(p)
  PROVE PackageInv'
<1> USE DEF PackageInv, ReadBundle, Goes, Leaves, Forgets, Releases, files, local
<1>1. TypeOK'
  BY DEF TypeOK, States, Working
<1>2. Locals'
  BY DEF TypeOK, Locals
<1>3. Prepared'
  BY DEF TypeOK, Prepared
<1>4. Disposable'
  BY DEF TypeOK, Disposable
<1>5. DescriptorIsComplete'
  BY DEF DescriptorIsComplete, Complete
<1> QED
  BY <1>1, <1>2, <1>3, <1>4, <1>5

\* Selectors are extracted from the sources.
LEMMA ExtractKeepsInv ==
  ASSUME PackageInv, NEW p \in Processes, Extract(p)
  PROVE PackageInv'
<1> USE DEF PackageInv, Extract, Goes, Leaves, Forgets, Releases, files, local
<1>0. source \in Contents
  BY DEF TypeOK
<1>l. Locals'
  BY <1>0 DEF TypeOK, Locals, Records, Fresh
<1>1. TypeOK'
  BY <1>0, NothingAssumption DEF TypeOK, Locals, States, Working, Records, Fresh
<1>3. Prepared'
  BY DEF TypeOK, Prepared
<1>4. Disposable'
  BY DEF Disposable
<1>5. DescriptorIsComplete'
  BY DEF DescriptorIsComplete, Complete
<1> QED
  BY <1>l, <1>1, <1>3, <1>4, <1>5

\* They are of another state of the sources than their hash, perhaps.
LEMMA ExtractedKeepsInv ==
  ASSUME PackageInv, NEW p \in Processes, Extracted(p)
  PROVE PackageInv'
<1> USE DEF PackageInv, Extracted, Goes, Leaves, Forgets, Releases, files, local
<1>0. source \in Contents
  BY DEF TypeOK
<1>l. Locals'
  BY <1>0 DEF TypeOK, Locals, Records, Fresh
<1>1. TypeOK'
  BY <1>0, NothingAssumption DEF TypeOK, Locals, States, Working, Records, Fresh
<1>3. Prepared'
  BY DEF TypeOK, Prepared
<1>4. Disposable'
  BY DEF Disposable
<1>5. DescriptorIsComplete'
  BY DEF DescriptorIsComplete, Complete
<1> QED
  BY <1>l, <1>1, <1>3, <1>4, <1>5

\* A query replaces the sidecar, or fails to.
LEMMA WriteSidecarKeepsInv ==
  ASSUME PackageInv, NEW p \in Processes, WriteSidecar(p)
  PROVE PackageInv'
<1> USE DEF PackageInv, WriteSidecar, Goes, Leaves, Forgets, Releases, files, local
<1>1. TypeOK'
  BY DEF TypeOK, States, Working
<1>2. Locals'
  BY DEF TypeOK, Locals
<1>3. Prepared'
  BY DEF TypeOK, Prepared
<1>4. Disposable'
  BY DEF TypeOK, Disposable
<1>5. DescriptorIsComplete'
  BY DEF DescriptorIsComplete, Complete
<1> QED
  BY <1>1, <1>2, <1>3, <1>4, <1>5

\* A query that was served leaves.
LEMMA ReturnKeepsInv ==
  ASSUME PackageInv, NEW p \in Processes, Return(p)
  PROVE PackageInv'
<1> USE DEF PackageInv, Return, Goes, Leaves, Forgets, Releases, files, local
<1>1. TypeOK'
  BY DEF TypeOK, States, Working
<1>2. Locals'
  BY DEF TypeOK, Locals
<1>3. Prepared'
  BY DEF Prepared
<1>4. Disposable'
  BY DEF Disposable
<1>5. DescriptorIsComplete'
  BY DEF DescriptorIsComplete, Complete
<1> QED
  BY <1>1, <1>2, <1>3, <1>4, <1>5

\* A process that is killed frees the lock, and workers of its pool stay.
LEMMA KillKeepsInv ==
  ASSUME PackageInv, NEW p \in Processes, Kill(p)
  PROVE PackageInv'
<1> USE DEF PackageInv, Kill, Goes, Leaves, Forgets, Releases, files, local
<1>0. orphans' \in SUBSET (Components \X Meshes)
  BY DEF TypeOK, Locals, Jobs
<1>1. TypeOK'
  BY <1>0, NothingAssumption DEF TypeOK, States, Working
<1>2. Locals'
  BY DEF TypeOK, Locals
<1>3. Prepared'
  BY DEF TypeOK, Prepared
<1>4. Disposable'
  BY DEF TypeOK, Disposable
<1>5. DescriptorIsComplete'
  BY DEF DescriptorIsComplete, Complete
<1> QED
  BY <1>1, <1>2, <1>3, <1>4, <1>5

\* A worker that was left behind adds a component.
LEMMA OrphanWritesKeepsInv ==
  ASSUME PackageInv, NEW o \in orphans, OrphanWrites(o)
  PROVE PackageInv'
<1> USE DEF PackageInv, OrphanWrites, Goes, Leaves, Forgets, Releases, files, local
<1>1. TypeOK'
  BY DEF TypeOK
<1>2. Locals'
  BY DEF Locals
<1>3. Prepared'
  BY MeshesArePresent DEF TypeOK, Prepared
<1>4. Disposable'
  BY DEF Disposable
<1>5. DescriptorIsComplete'
  BY MeshesArePresent DEF TypeOK, DescriptorIsComplete, Complete
<1> QED
  BY <1>1, <1>2, <1>3, <1>4, <1>5

\* Every step keeps the invariant.
LEMMA InvNext == PackageInv /\ [Next]_vars => PackageInv'
<1> SUFFICES ASSUME PackageInv, [Next]_vars PROVE PackageInv'
  OBVIOUS
<1>1. ASSUME NEW p \in Processes, NEW force \in BOOLEAN, NEW mesh \in Meshes, Build(p, force, mesh)
       PROVE PackageInv'
  BY <1>1, BuildKeepsInv
<1>2. ASSUME NEW p \in Processes, NEW force \in BOOLEAN, NEW mesh \in Meshes, Query(p, force, mesh)
       PROVE PackageInv'
  BY <1>2, QueryKeepsInv
<1>3. ASSUME NEW p \in Processes, Skip(p) PROVE PackageInv'
  BY <1>3, SkipKeepsInv
<1>4. ASSUME NEW p \in Processes, Acquire(p) PROVE PackageInv'
  BY <1>4, AcquireKeepsInv
<1>5. ASSUME NEW p \in Processes, Load(p) \/ Loaded(p) \/ Hash(p) \/ Import(p) PROVE PackageInv'
  BY <1>5, LoadKeepsInv, LoadedKeepsInv, HashKeepsInv, ImportKeepsInv
<1>6. ASSUME NEW p \in Processes, Scan(p) PROVE PackageInv'
  BY <1>6, ScanKeepsInv
<1>7. ASSUME NEW p \in Processes, WriteDescriptor(p) PROVE PackageInv'
  BY <1>7, WriteDescriptorKeepsInv
<1>8. ASSUME NEW p \in Processes, Unlink(p) PROVE PackageInv'
  BY <1>8, UnlinkKeepsInv
<1>9. ASSUME NEW p \in Processes, Finish(p) PROVE PackageInv'
  BY <1>9, FinishKeepsInv
<1>10. ASSUME NEW p \in Processes, ReadManifest(p) PROVE PackageInv'
  BY <1>10, ReadManifestKeepsInv
<1>11. ASSUME NEW p \in Processes, ReadBundle(p) PROVE PackageInv'
  BY <1>11, ReadBundleKeepsInv
<1>12. ASSUME NEW p \in Processes, Extract(p) \/ Extracted(p) PROVE PackageInv'
  BY <1>12, ExtractKeepsInv, ExtractedKeepsInv
<1>13. ASSUME NEW p \in Processes, WriteSidecar(p) PROVE PackageInv'
  BY <1>13, WriteSidecarKeepsInv
<1>14. ASSUME NEW p \in Processes, Return(p) PROVE PackageInv'
  BY <1>14, ReturnKeepsInv
<1>15. ASSUME NEW p \in Processes, Raise(p) PROVE PackageInv'
  BY <1>15, RaiseKeepsInv
<1>16. ASSUME NEW p \in Processes, Kill(p) PROVE PackageInv'
  BY <1>16, KillKeepsInv
<1>17. ASSUME NEW p \in Processes, NEW c \in Components, WriteComponent(p, c) PROVE PackageInv'
  BY <1>17, WriteComponentKeepsInv
<1>18. ASSUME NEW p \in Processes, NEW c \in Components, ComponentFails(p, c) PROVE PackageInv'
  BY <1>18, ComponentFailsKeepsInv
<1>19. ASSUME NEW p \in Processes, NEW c \in Components, Retry(p, c) PROVE PackageInv'
  BY <1>19, RetryKeepsInv
<1>20. ASSUME NEW p \in Processes, NEW c \in Components, Prune(p, c) PROVE PackageInv'
  BY <1>20, PruneKeepsInv
<1>21. ASSUME NEW o \in orphans, OrphanWrites(o) PROVE PackageInv'
  BY <1>21, OrphanWritesKeepsInv
<1>22. ASSUME Edit PROVE PackageInv'
  BY <1>22, EditKeepsInv
<1>s. CASE UNCHANGED vars
  BY <1>s, InvStutters
<1> QED
  BY <1>1, <1>2, <1>3, <1>4, <1>5, <1>6, <1>7, <1>8, <1>9, <1>10, <1>11, <1>12, <1>13, <1>14,
    <1>15, <1>16, <1>17, <1>18, <1>19, <1>20, <1>21, <1>22, <1>s DEF Next, Works

\* The invariant holds in every reachable state.
THEOREM PackageInvariant == Spec => []PackageInv
<1> QED
  BY InvInit, InvNext, PTL DEF Spec

\* Every variable keeps its type, and the lock is of the one process that builds.
THEOREM TypeCorrect == Spec => []TypeOK
<1>1. PackageInv => TypeOK
  BY DEF PackageInv
<1> QED
  BY <1>1, PackageInvariant, PTL

\* Whatever builds are killed or raise, and whatever orphaned workers still write, every
\* component the descriptor on disk names is there.
THEOREM AlwaysComplete == Spec => []DescriptorIsComplete
<1>1. PackageInv => DescriptorIsComplete
  BY DEF PackageInv
<1> QED
  BY <1>1, PackageInvariant, PTL

\* What was checked is what is served: whoever replaces a sidecar marks the queries between
\* their two reads of it.
LEMMA CheckedNext ==
  ASSUME TypeOK, Checked, [Next]_vars
  PROVE Checked'
<1> USE DEF TypeOK, Checked, Goes, Leaves, Forgets, Releases, files, local
<1>1. ASSUME NEW p \in Processes, NEW force \in BOOLEAN, NEW mesh \in Meshes, Build(p, force, mesh)
       PROVE Checked'
  BY <1>1 DEF Build
<1>2. ASSUME NEW p \in Processes, NEW force \in BOOLEAN, NEW mesh \in Meshes, Query(p, force, mesh)
       PROVE Checked'
  BY <1>2 DEF Query
<1>3. ASSUME NEW p \in Processes, Skip(p) PROVE Checked'
  BY <1>3 DEF Skip
<1>4. ASSUME NEW p \in Processes, Acquire(p) PROVE Checked'
  BY <1>4 DEF Acquire
<1>5. ASSUME NEW p \in Processes, Load(p) \/ Loaded(p) \/ Hash(p) \/ Import(p) PROVE Checked'
  BY <1>5 DEF Load, Loaded, Hash, Import
<1>6. ASSUME NEW p \in Processes, Scan(p) PROVE Checked'
  BY <1>6 DEF Scan
<1>7. ASSUME NEW p \in Processes, WriteDescriptor(p) PROVE Checked'
  BY <1>7 DEF WriteDescriptor
<1>8. ASSUME NEW p \in Processes, Unlink(p) PROVE Checked'
  BY <1>8 DEF Unlink
<1>9. ASSUME NEW p \in Processes, Finish(p) PROVE Checked'
  BY <1>9 DEF Finish
<1>10. ASSUME NEW p \in Processes, ReadManifest(p) PROVE Checked'
  BY <1>10 DEF ReadManifest, SidecarMatches
<1>11. ASSUME NEW p \in Processes, ReadBundle(p) PROVE Checked'
  BY <1>11 DEF ReadBundle
<1>12. ASSUME NEW p \in Processes, Extract(p) \/ Extracted(p) PROVE Checked'
  BY <1>12 DEF Extract, Extracted
<1>13. ASSUME NEW p \in Processes, WriteSidecar(p) PROVE Checked'
  BY <1>13 DEF WriteSidecar
<1>14. ASSUME NEW p \in Processes, Return(p) PROVE Checked'
  BY <1>14 DEF Return
<1>15. ASSUME NEW p \in Processes, Raise(p) PROVE Checked'
  BY <1>15 DEF Raise
<1>16. ASSUME NEW p \in Processes, Kill(p) PROVE Checked'
  BY <1>16 DEF Kill
<1>17. ASSUME NEW p \in Processes, NEW c \in Components, WriteComponent(p, c) PROVE Checked'
  BY <1>17 DEF WriteComponent
<1>18. ASSUME NEW p \in Processes, NEW c \in Components, ComponentFails(p, c) PROVE Checked'
  BY <1>18 DEF ComponentFails
<1>19. ASSUME NEW p \in Processes, NEW c \in Components, Retry(p, c) PROVE Checked'
  BY <1>19 DEF Retry
<1>20. ASSUME NEW p \in Processes, NEW c \in Components, Prune(p, c) PROVE Checked'
  BY <1>20 DEF Prune
<1>21. ASSUME NEW o \in orphans, OrphanWrites(o) PROVE Checked'
  BY <1>21 DEF OrphanWrites
<1>22. ASSUME Edit PROVE Checked'
  BY <1>22 DEF Edit
<1>s. CASE UNCHANGED vars
  BY <1>s DEF vars
<1> QED
  BY <1>1, <1>2, <1>3, <1>4, <1>5, <1>6, <1>7, <1>8, <1>9, <1>10, <1>11, <1>12, <1>13, <1>14,
    <1>15, <1>16, <1>17, <1>18, <1>19, <1>20, <1>21, <1>22, <1>s DEF Next, Works

\* Selectors that are served are of the geometry the descriptor was made of, whatever builds
\* were killed before they unlinked the old sidecar, and however late a query writes its own.
THEOREM ServedMatch == Spec => []ServedSelectorsMatch
<1>1. Init => Checked
  BY DEF Init, Checked
<1>2. TypeOK /\ Checked /\ [Next]_vars => Checked'
  BY CheckedNext
<1>3. Checked => ServedSelectorsMatch
  BY DEF Checked, ServedSelectorsMatch, Whole
<1> QED
  BY <1>1, <1>2, <1>3, TypeCorrect, PTL DEF Spec
=============================================================================
