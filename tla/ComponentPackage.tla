-------------------------- MODULE ComponentPackage --------------------------
(***************************************************************************)
(* The package of one STEP model: a descriptor (assembly.json) naming      *)
(* content-addressed component GLBs, and the lazy selector sidecar         *)
(* (topology.glb).  Builds (component_package.py, step_artifact_cli.py)    *)
(* hold the model's lock, which Coordination models in full; selector      *)
(* queries (step_artifacts.py) read and replace the sidecar without it.    *)
(*                                                                         *)
(* A process may be killed at any point: the kernel frees its lock, and    *)
(* the workers of its pool still finish what they were writing.  A content *)
(* stands for a state of the sources, and for their closure hash or        *)
(* stepHash.  What is made of the sources has two: `content`, the hash it  *)
(* records, and `of`, the sources its geometry is of.  They differ when an *)
(* edit falls between: a script is run and then hashed, a STEP file is     *)
(* hashed and then parsed.  Every file is replaced by a rename.            *)
(***************************************************************************)
CONSTANTS
  Processes,
  Contents,      \* states of the model's sources
  Components,    \* component ids: a geometry and the package version, no mesh settings
  ComponentsOf,  \* per content: the components of its geometry
  Meshes,        \* tolerances a build may ask for
  Nothing,
  Builders,      \* the processes that are asked to build; any may query
  Generated      \* the model is the output of a script, not an imported STEP file

ASSUME ComponentsAssumption == ComponentsOf \in [Contents -> SUBSET Components]
ASSUME BuildersAssumption == Builders \subseteq Processes
ASSUME NothingAssumption == Nothing \notin Contents \cup Meshes \cup Processes
ASSUME GeneratedAssumption == Generated \in BOOLEAN

VARIABLES
  source,      \* the content of the sources
  lock,        \* the process that holds the write lock, or Nothing
  descriptor,  \* [content, of, mesh] of assembly.json, or Nothing
  glbs,        \* per component: the mesh of <cid>.glb, or Nothing
  sidecar,     \* [content, of] of topology.glb, or Nothing
  orphans,     \* <<component, mesh>>: what workers of killed builds still write
  pc,
  job,         \* per process: [force, mesh, query], or Nothing
  scene,       \* per process: [content, of] of the scene it loaded or the bundle it read
  built,       \* per process: [content, of] of the package it builds
  todo,        \* per process: the components to build, then those to prune
  failed,      \* per process: those whose worker reported an error
  seen         \* per process: the descriptor its query compares the sidecar with

files == <<descriptor, glbs, sidecar>>
local == <<pc, job, scene, built, todo, failed, seen>>
vars == <<source, lock, files, orphans, local>>

\* force: the build is, and no component is reused.
Jobs == [force : BOOLEAN, mesh : Meshes, query : BOOLEAN]
Records == [content : Contents, of : Contents]
Descriptors == [content : Contents, of : Contents, mesh : Meshes]

\* No edit fell between the hash and the run or the parse.
Whole(x) == x.of = x.content

Fresh == [content |-> source, of |-> source]

\* assembly_package_current: every component the descriptor names is there.
Complete == descriptor # Nothing /\ \A c \in ComponentsOf[descriptor.of] : glbs[c] # Nothing

\* _current_artifact_for_spec
Current(mesh) ==
  descriptor # Nothing /\ descriptor.content = source /\ descriptor.mesh = mesh /\ Complete

\* Mutant: any sidecar beside the descriptor is taken for its own.
SidecarIsThere(d) == sidecar # Nothing

\* _topology_sidecar_matches_descriptor
SidecarMatches(d) == sidecar # Nothing /\ sidecar.content = d.content

Init ==
  /\ source \in Contents /\ lock = Nothing
  /\ descriptor = Nothing /\ glbs = [c \in Components |-> Nothing] /\ sidecar = Nothing
  /\ orphans = {}
  /\ pc = [p \in Processes |-> "idle"] /\ job = [p \in Processes |-> Nothing]
  /\ scene = job /\ built = job /\ seen = job
  /\ todo = [p \in Processes |-> {}] /\ failed = todo

Forgets(p) ==
  /\ job' = [job EXCEPT ![p] = Nothing] /\ seen' = [seen EXCEPT ![p] = Nothing]
  /\ scene' = [scene EXCEPT ![p] = Nothing] /\ built' = [built EXCEPT ![p] = Nothing]
  /\ todo' = [todo EXCEPT ![p] = {}] /\ failed' = [failed EXCEPT ![p] = {}]

\* The process has answered, raised or died.
Leaves(p) == pc' = [pc EXCEPT ![p] = "idle"] /\ Forgets(p)

Goes(p, from, to) == pc[p] = from /\ pc' = [pc EXCEPT ![p] = to]

Releases(p) == lock' = IF lock = p THEN Nothing ELSE lock

Edit ==
  /\ \E v \in Contents \ {source} : source' = v
  /\ UNCHANGED <<lock, files, orphans, local>>

(***************************************************************************)
(* A build                                                                 *)
(***************************************************************************)
\* build_step_artifact: a package that is current is returned without the lock.
Build(p, force, mesh) ==
  /\ p \in Builders /\ (force \/ ~Current(mesh))
  /\ Goes(p, "idle", "wait")
  /\ job' = [job EXCEPT ![p] = [force |-> force, mesh |-> mesh, query |-> FALSE]]
  /\ UNCHANGED <<source, lock, files, orphans, scene, built, todo, failed, seen>>

\* A peer made the package current while this process waited.
Skip(p) ==
  /\ pc[p] = "wait" /\ lock = Nothing
  /\ ~job[p].force /\ Current(job[p].mesh)
  /\ Leaves(p)
  /\ UNCHANGED <<source, lock, files, orphans>>

Acquire(p) ==
  /\ lock = Nothing /\ lock' = p
  /\ Goes(p, "wait", "generate")
  /\ job[p].force \/ ~Current(job[p].mesh)
  /\ UNCHANGED <<source, files, orphans, job, scene, built, todo, failed, seen>>

\* The script runs, or the STEP file is hashed and about to be parsed.  A plain build of an
\* imported file takes no more than the entry's kind from this parse.
Load(p) ==
  /\ Goes(p, "generate", IF Generated \/ job[p].query THEN "loading" ELSE "hash")
  /\ scene' = [scene EXCEPT ![p] = IF pc'[p] = "loading" THEN Fresh ELSE Nothing]
  /\ UNCHANGED <<source, lock, files, orphans, job, built, todo, failed, seen>>

\* The closure of the script is hashed, and its scene is what the package is built from; or
\* the STEP file is parsed.
Loaded(p) ==
  /\ Goes(p, "loading", IF Generated THEN "scan" ELSE "hash")
  /\ scene' = IF Generated THEN [scene EXCEPT ![p].content = source]
                           ELSE [scene EXCEPT ![p].of = source]
  /\ built' = IF Generated THEN [built EXCEPT ![p] = scene'[p]] ELSE built
  /\ UNCHANGED <<source, lock, files, orphans, job, todo, failed, seen>>

\* The package of a STEP file records another hash of the file than its scene ...
Hash(p) ==
  /\ Goes(p, "hash", "import")
  /\ built' = [built EXCEPT ![p] = Fresh]
  /\ UNCHANGED <<source, lock, files, orphans, job, scene, todo, failed, seen>>

\* ... and its geometry is that of a third read.
Import(p) ==
  /\ Goes(p, "import", "scan")
  /\ built' = [built EXCEPT ![p].of = source]
  /\ UNCHANGED <<source, lock, files, orphans, job, scene, todo, failed, seen>>

\* A component that is there is reused, unless the build is forced.
Scan(p) ==
  /\ Goes(p, "scan", "build")
  /\ todo' = [todo EXCEPT ![p] =
                 {c \in ComponentsOf[built[p].of] : job[p].force \/ glbs[c] = Nothing}]
  /\ UNCHANGED <<source, lock, files, orphans, job, scene, built, failed, seen>>

WriteComponent(p, c) ==
  /\ pc[p] = "build" /\ c \in todo[p]
  /\ glbs' = [glbs EXCEPT ![c] = job[p].mesh]
  /\ todo' = [todo EXCEPT ![p] = @ \ {c}]
  /\ UNCHANGED <<source, lock, descriptor, sidecar, orphans, pc, job, scene, built, failed, seen>>

ComponentFails(p, c) ==
  /\ pc[p] = "build" /\ c \in todo[p]
  /\ todo' = [todo EXCEPT ![p] = @ \ {c}]
  /\ failed' = [failed EXCEPT ![p] = @ \cup {c}]
  /\ UNCHANGED <<source, lock, files, orphans, pc, job, scene, built, seen>>

\* A payload the worker could not read is built in this process, once the pool is done.
Retry(p, c) ==
  /\ pc[p] = "build" /\ todo[p] = {} /\ c \in failed[p]
  /\ glbs' = [glbs EXCEPT ![c] = job[p].mesh]
  /\ failed' = [failed EXCEPT ![p] = @ \ {c}]
  /\ UNCHANGED <<source, lock, descriptor, sidecar, orphans, pc, job, scene, built, todo, seen>>

\* Mutant: a component that failed does not fail the build.
WriteDescriptorAnyway(p) ==
  /\ todo[p] = {}
  /\ Goes(p, "build", "unlink")
  /\ descriptor' = [content |-> built[p].content, of |-> built[p].of, mesh |-> job[p].mesh]
  /\ UNCHANGED <<source, lock, glbs, sidecar, orphans, job, scene, built, todo, failed, seen>>

WriteDescriptor(p) ==
  /\ todo[p] = {} /\ failed[p] = {}
  /\ Goes(p, "build", "unlink")
  /\ descriptor' = [content |-> built[p].content, of |-> built[p].of, mesh |-> job[p].mesh]
  /\ UNCHANGED <<source, lock, glbs, sidecar, orphans, job, scene, built, todo, failed, seen>>

\* Mutant: nothing is pruned.
UnlinkOnly(p) ==
  /\ Goes(p, "unlink", "prune")
  /\ sidecar' = Nothing
  /\ UNCHANGED <<source, lock, descriptor, glbs, orphans, job, scene, built, todo, failed, seen>>

\* Unlinks the sidecar and lists the components that are to be pruned.
Unlink(p) ==
  /\ Goes(p, "unlink", "prune")
  /\ sidecar' = Nothing
  /\ todo' = [todo EXCEPT ![p] = {c \in Components \ ComponentsOf[built[p].of] : glbs[c] # Nothing}]
  /\ built' = [built EXCEPT ![p] = Nothing]
  /\ UNCHANGED <<source, lock, descriptor, glbs, orphans, job, scene, failed, seen>>

Prune(p, c) ==
  /\ pc[p] = "prune" /\ c \in todo[p]
  /\ glbs' = [glbs EXCEPT ![c] = Nothing]
  /\ todo' = [todo EXCEPT ![p] = @ \ {c}]
  /\ UNCHANGED <<source, lock, descriptor, sidecar, orphans, pc, job, scene, built, failed, seen>>

\* The build is done; one a query asked for goes on with the selectors of its scene.
Finish(p) ==
  /\ pc[p] = "prune" /\ todo[p] = {}
  /\ lock' = Nothing
  /\ \/ ~job[p].query /\ Leaves(p)
     \/ /\ job[p].query /\ pc' = [pc EXCEPT ![p] = "extracted"]
        /\ UNCHANGED <<job, scene, built, todo, failed, seen>>
  /\ UNCHANGED <<source, files, orphans>>

\* Mutant: the lock is released at the regular end only.
RaiseHoldingLock(p) ==
  /\ lock = p
  /\ Leaves(p)
  /\ UNCHANGED <<source, lock, files, orphans>>

\* The generator, a component or a write raises: the lock is released, the files stay.
Raise(p) ==
  /\ lock = p /\ lock' = Nothing
  /\ Leaves(p)
  /\ UNCHANGED <<source, files, orphans>>

(***************************************************************************)
(* A selector query: _assembly_topology_artifact                           *)
(***************************************************************************)
\* Without a package it builds one, forced and without a freshness gate.
Query(p, force, mesh) ==
  /\ Goes(p, "idle",
          IF descriptor = Nothing THEN "wait" ELSE IF force THEN "extract" ELSE "manifest")
  /\ job' = [job EXCEPT ![p] =
                [force |-> descriptor = Nothing, mesh |-> mesh, query |-> TRUE]]
  /\ seen' = [seen EXCEPT ![p] = IF force THEN Nothing ELSE descriptor]
  /\ UNCHANGED <<source, lock, files, orphans, scene, built, todo, failed>>

ReadManifest(p) ==
  /\ Goes(p, "manifest", IF SidecarMatches(seen[p]) THEN "bundle" ELSE "extract")
  /\ seen' = [seen EXCEPT ![p] = IF SidecarMatches(@) THEN @ ELSE Nothing]
  /\ UNCHANGED <<source, lock, files, orphans, job, scene, built, todo, failed>>

\* The file is opened again; if it is gone the selectors are extracted.  Another that was
\* put there meanwhile is served without a second look.
ReadBundle(p) ==
  /\ \/ sidecar = Nothing /\ (Goes(p, "bundle", "extract") \/ Goes(p, "swapped", "extract"))
     \/ sidecar # Nothing /\ (Goes(p, "bundle", "served") \/ Goes(p, "swapped", "unchecked"))
  /\ scene' = [scene EXCEPT ![p] = sidecar]
  /\ UNCHANGED <<source, lock, files, orphans, job, built, todo, failed, seen>>

\* A script runs under the write lock as well; a STEP file is hashed and parsed without.
Extract(p) ==
  /\ Goes(p, "extract", "extracting")
  /\ Generated => lock = Nothing
  /\ lock' = IF Generated THEN p ELSE lock
  /\ scene' = [scene EXCEPT ![p] = Fresh]
  /\ UNCHANGED <<source, files, orphans, job, built, todo, failed, seen>>

\* The other half of the extraction, and the script's lock is released.
Extracted(p) ==
  /\ Goes(p, "extracting", "extracted")
  /\ Releases(p)
  /\ scene' = IF Generated THEN [scene EXCEPT ![p].content = source]
                           ELSE [scene EXCEPT ![p].of = source]
  /\ UNCHANGED <<source, files, orphans, job, built, todo, failed, seen>>

\* _write_topology_sidecar: best effort, without the lock.
WriteSidecar(p) ==
  /\ pc[p] = "extracted"
  /\ \/ UNCHANGED sidecar /\ Leaves(p)
     \/ /\ sidecar' = scene[p] /\ Forgets(p)
        /\ pc' = [q \in Processes |-> IF q = p THEN "idle"
                                     ELSE IF pc[q] = "bundle" THEN "swapped" ELSE pc[q]]
  /\ UNCHANGED <<source, lock, descriptor, glbs, orphans>>

Return(p) ==
  /\ pc[p] \in {"served", "unchecked"}
  /\ Leaves(p)
  /\ UNCHANGED <<source, lock, files, orphans>>

(***************************************************************************)
(* Kills                                                                   *)
(***************************************************************************)
\* Of a build with a pool, any workers still write the component they were at.  A query that
\* raises without the lock leaves in the same way.
Kill(p) ==
  /\ pc[p] # "idle"
  /\ \E cs \in SUBSET (IF pc[p] = "build" THEN todo[p] ELSE {}) :
       orphans' = orphans \cup {<<c, job[p].mesh>> : c \in cs}
  /\ Releases(p) /\ Leaves(p)
  /\ UNCHANGED <<source, files>>

OrphanWrites(o) ==
  /\ orphans' = orphans \ {o}
  /\ glbs' = [glbs EXCEPT ![o[1]] = o[2]]
  /\ UNCHANGED <<source, lock, descriptor, sidecar, local>>

Works(p) ==
  \/ Skip(p) \/ Acquire(p) \/ Load(p) \/ Loaded(p) \/ Hash(p) \/ Import(p) \/ Scan(p)
  \/ \E c \in Components : WriteComponent(p, c) \/ ComponentFails(p, c) \/ Retry(p, c) \/ Prune(p, c)
  \/ WriteDescriptor(p) \/ Unlink(p) \/ Finish(p)
  \/ ReadManifest(p) \/ ReadBundle(p) \/ Extract(p) \/ Extracted(p) \/ WriteSidecar(p) \/ Return(p)

Next ==
  \/ Edit
  \/ \E p \in Processes :
       \/ \E force \in BOOLEAN, mesh \in Meshes : Build(p, force, mesh) \/ Query(p, force, mesh)
       \/ Works(p) \/ Raise(p) \/ Kill(p)
  \/ \E o \in orphans : OrphanWrites(o)

Spec == Init /\ [][Next]_vars

Working == {"generate", "loading", "hash", "import", "scan", "build", "unlink", "prune"}
States == {"idle", "wait", "manifest", "bundle", "swapped", "served", "unchecked",
           "extract", "extracting", "extracted"} \cup Working

\* Every variable has its type, and the lock is of the process that builds.
TypeOK ==
  /\ source \in Contents /\ lock \in Processes \cup {Nothing}
  /\ descriptor \in Descriptors \cup {Nothing}
  /\ glbs \in [Components -> Meshes \cup {Nothing}]
  /\ sidecar \in Records \cup {Nothing}
  /\ orphans \in SUBSET (Components \X Meshes)
  /\ pc \in [Processes -> States] /\ job \in [Processes -> Jobs \cup {Nothing}]
  /\ scene \in [Processes -> Records \cup {Nothing}]
  /\ built \in [Processes -> Records \cup {Nothing}]
  /\ todo \in [Processes -> SUBSET Components] /\ failed \in [Processes -> SUBSET Components]
  /\ seen \in [Processes -> Descriptors \cup {Nothing}]
  /\ \A p \in Processes : lock = p <=> pc[p] \in Working \/ (Generated /\ pc[p] = "extracting")

\* Whatever was killed, raised or still written by an orphaned worker, a reader that loads
\* the descriptor finds every component it names: no build removes or skips one that the
\* descriptor on disk, or the one it is about to write, refers to.
DescriptorIsComplete == descriptor # Nothing => Complete

\* Selectors served from the sidecar are of the geometry the descriptor was made of, even
\* after a build was killed before it unlinked the old sidecar, and though a query that took
\* long replaces a newer one by its own.  Exempt are a query whose sidecar another query
\* replaces between its two reads, which the code serves unchecked, and files made of sources
\* that were edited between the hash and the run or the parse, which no comparison of hashes
\* can tell from others.
ServedSelectorsMatch ==
  \A p \in Processes :
    pc[p] = "served" /\ Whole(scene[p]) /\ Whole(seen[p])
      => scene[p].of = seen[p].of

\* Components no descriptor refers to do not accumulate: what a killed or failed build, or
\* an orphaned worker, left behind is removed by a build that completes.
Garbage(c) == descriptor # Nothing /\ glbs[c] # Nothing /\ c \notin ComponentsOf[descriptor.of]
Finished == \E p \in Processes : Finish(p)
GarbageIsCollected == []<><<Finished>>_vars => \A c \in Components : Garbage(c) ~> ~Garbage(c)
=============================================================================
