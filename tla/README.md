# A verification development for CAD Viewer

CAD Viewer shows CAD models (STEP files, Python generators of parts and
drawings, implicit models) in a browser. What the browser renders is a *render
package* that has to be built from the model's source, which takes seconds to
minutes, and several programs may want to build, export or watch the same model
at the same time: command-line tools in terminals, the viewer's backend, several
browser tabs. Nothing but files and advisory locks connects them. The
page then has to show what was built, while files change, builds replace packages
and the user selects something else. This directory models these parts of the
system in TLA+, checks them with TLC and proves safety properties of them with
TLAPS.

Paths in this file are relative to the repository.

## 1. The system

### Components, their state and their operations

| Component | Code | State | Operations |
|---|---|---|---|
| Artifact coordination | `packages/cadgen/src/cadgen/coordination/{lock,__init__,record,paths}.py` | per artifact two sentinels (the kernel lock on each and the run id inside), two status records | `artifact_build`, `generator_busy` (acquire, stamp, publish, recheck, finish), `snapshot` (probe, read id, read record) |
| Artifact producers | `step_artifact_cli.py`, `dxf_artifact.py`, `implicit_artifact.py`, `_internal/generation_runner.py`, `_internal/source_hash.py` | the render package: what was built, the hash of the sources that were executed | fast path, skipped path, execute, hash, commit |
| Component packages | `_internal/component_package.py`, `_internal/drawing_package.py` | descriptor, component files, topology sidecar | write components, replace the descriptor, unlink the sidecar, prune |
| Node builders | `_internal/{node_runtime,implicit_package}.py`, `implicit_artifact.py`, `packages/cadjs/bin/implicit-artifact.mjs`, `packages/implicitjs/.../assertWriteLock.js` | a child process that writes payload and export under its parent's lock; the descriptor | open the package, spawn, read, kill, describe; the child checks the lock's holder, meshes, writes |
| Parallel implicit mesher | `packages/implicitjs/src/lib/implicitCad/{meshWorkers,meshWorkerEntry,mesh}.js` | worker threads, a shared array, chunks handed out, answers owed | sample, polygonize, hand out the next chunk, join |
| Progress phases | `coordination/phases.py` | weights of the phases, the ratio shown | begin a phase, advance |
| Warm worker | `server_py/{worker_client,worker,cadgen_bridge}.py` | one CAD process, a mutex, request ids, pipes | request, retry, recycle, reap, cold fallback |
| Artifact routes | `server_py/{server,backend,artifact}.py` | none of its own | status (`GET /__cad/artifact`), resolve (`POST`), export |
| Catalog scanner | `server_py/scanner.py` | none: a listing of the file system | scan |
| Artifact hook | `src/client/components/workbench/hooks/useArtifact.js`, `workbench/artifactResolution.js` | per tab: the effect, a timer, `attached`, the state shown | status check, POST, hand-off, progress poll, clean-up |
| Catalog store | `src/client/workbench/cadManifestStore.js` | the catalog and its revision, a refresh in flight | refresh, publish |
| Asset loading | `src/client/components/workbench/hooks/useCadAssets.js`, `packages/cadjs/src/lib/renderAssetClient.js`, effects of `CadWorkspace.js` | caches by url, loads in flight, the mesh and references shown | start, cancel, retry, show |
| Scene cache | `_internal/step_scene_cache.py` | parsed STEP scenes by content | look up, store |
| Motion planning client | `packages/cadjs/src/lib/urdf/moveit2ServerClient.js`, parts of `CadWorkspace.js` | a websocket, requests in flight with a timer each, poses, two animations, a stored session per file | request, answer, expire, reset, animate, save, restore |
| MoveIt2 server | `moveit2_server/` | a ROS planner behind a websocket | dispatch, one message at a time |
| Geometry, analysis, rendering, user interface | the rest of `packages/`, `src/client/` | | |

### How they interact

    browser tab --GET status / POST build--> backend thread
       |  useArtifact                          |  snapshot() of the locks
       |                                       |  run_cadgen() -> warm worker | cold process
       v                                       v
    timer, polls                             artifact_build() -----+
                                                                   |  kernel locks,
    cad gen in a terminal ---------------> artifact_build() -----> |  sentinels,
    export ------------------------------> generator_busy() -----> |  records,
                                                                   |  render package

* Builds of one artifact exclude each other by the kernel's lock on the *write*
  sentinel; an export takes the *generate* sentinel, so it excludes neither a
  build nor the renderer, only other exports. (The export of a drawing is a build
  that copies a file at its end, and takes the write sentinel.)
* A reader never waits: it probes the sentinel with a momentary shared lock, and
  joins the run id it finds there with the status record to show progress.
* The backend has one warm CAD process. All requests of all models queue for it;
  a build may therefore not wait there for a lock that a terminal holds
  (`--lock-timeout`), and answers `contended` instead.
* The tab either waits in its own POST, or *attaches* to somebody else's build
  and then learns of its end only from its own polls.
* The tab polls the catalog, a listing of all files with a url (its `?v=` token is
  from a `stat`) and a hash for each. A change of either restarts the status check
  of the selected file, and makes the effects of `CadWorkspace.js` load its mesh and
  the references of its expanded nodes again.
* The producer of an implicit package holds the write lock for a Node child that does
  the work, and hands it the run id to check. The child meshes with worker threads
  that share memory with it.
* All motion requests of a page share one websocket, to a server that plans one of
  them at a time and accepts no connection while it does.

### What is hard

Interleavings of processes that share nothing but files; a process killed at any
step; state that was read before a lock was granted, an `await` or a callback;
answers of abandoned attempts that arrive after all; timers that are cleared
while what they started is in flight; deadlines that expire because of a reader.
`PROJECT.json` lists these hazards one by one at the line where they bite, with
the properties that watch them.

What makes each component correct:

* coordination: one writer at a time; the sentinel names it; its record is not
  overwritten; a killed run blocks nobody; nobody waits for ever; a version of
  the source is built once and the package never goes back; what a poll reports
  is true of the run it reports about;
* producers: what the package says it was built from is what it was built from;
* worker: a request gets the result of its own job, its attempts write once, no
  process is lost, every request returns;
* hook: what is shown as ready is current, a loading state is always being
  watched and ends, every POST is served;
* catalog store: the catalog shown is the last one asked for;
* asset loading: what is shown under a hash is not older, a load that is said to run
  does, and the file one stays with is shown in the end;
* Node builders: no child writes after its parent's lock is gone, a descriptor
  describes the payload beside it;
* component packages: whatever is killed or fails, the descriptor on disk finds all its
  components, the sidecar is used with the descriptor it belongs to only, and what no
  descriptor names is removed in the end;
* mesher: the threads make the mesh of the serial mesher, and every pass ends;
* motion planning: a busy indicator has its request, and a request that waits has
  somebody to answer it.

## 2. The modules

| Module | What it is |
|---|---|
| `Coordination` | the lock, sentinel and record protocol of one artifact, with the bodies of its producers and the polls of readers |
| `SerialBuilds` | the abstract specification: what the protocol promises about the package |
| `MCCoordination` | instances for TLC |
| `CoordinationProofs` | theorems and proofs |
| `UseArtifact`, `MCUseArtifact` | the browser hook with the backend's artifact routes and other builds |
| `UseArtifactProofs` | theorems and proofs |
| `CadWorker`, `MCCadWorker` | the warm worker, its client and the cold fallback |
| `CadWorkerProofs` | theorems and proofs |
| `ParallelMesher` | the two passes of the Node child over its worker threads |
| `ImplicitBuilder`, `MCImplicitBuilder` | the producer, its child and the package; composes `ParallelMesher` |
| `ImplicitBuilderProofs`, `MesherProofs` | theorems and proofs about both; the second about the progress and the mesh |
| `ComponentPackage`, `MCComponentPackage` | the files of a STEP package: builds with kills and orphaned pool workers, selector queries |
| `ComponentPackageProofs` | theorems and proofs |
| `ViewerAssets`, `MCViewerAssets` | disk, catalog, artifact status, mesh and references of one tab |
| `ViewerAssetsProofs` | theorems and proofs |
| `MotionPlanner`, `MCMotionPlanner` | poses, animations, requests, sockets and the MoveIt2 server |
| `MotionPlannerProofs` | theorems and proofs |

### Coordination

A *run* is one call of `artifact_build` (a builder) or `generator_busy` (an
exporter); its id is a fresh uuid, so a run never starts twice, and CLI process
and worker request need not be told apart. `pc[r]` is its place in the code:

    new -> waiting -> locked -> truncated -> stamped -> checking -> generate -> capture
        -> commit -> finishing -> releasing -> ended          (or dead, after Crash)

`Open`, `Acquire`, `GiveUp`, `Degrade`, `Truncate`, `WriteRunId`, `LoseStamp` and
`Release` are `lock.exclusive()`; the stamp is two steps because the file is
truncated before it is written. `PublishRunning`, `Skip`, `NeedsBuild`, `Finish`
and `Fail` are `artifact_build()`. `FastPath`, `ReturnExisting`,
`FinalizeSkipped`, `BuildAfterSkip`, `Generate`, `Capture` and `Commit` are the
callers' bodies; `Producer` says which caller a run is, because they treat a
skipped run differently. `ProbeMissing`, `ProbeFree`, `Unlock`, `ProbeHeld`,
`ReadRunId` and `ReadRecord` are the steps of `snapshot()` between which runs
move. `owner` and `probers` are the kernel's lock; `Crash` drops it and leaves the
files. A package and a source are versions; the package records both the version
that was executed and the one that was hashed. The lock path where a process
re-enters its own lock, and the order of file writes inside `Commit`, are left
out.

The constants switch the environment: `Bounded` runs have a deadline,
`Unlockable` runs have a file system that cannot lock, `Fallible` runs may lose
writes, `Mortal` runs may be killed, `SharedProbe` tells POSIX from Windows.

### UseArtifact

A tab's `effect` counts the runs of the React effect. `request` holds the fetches
in flight: what for (`resolve`, `post`, `poll`), which tab and effect sent it, and
where it is, on the server (`sent`, `idle`/`busy`, `queued`, `building`) or
answered and waiting for its continuation. `timer` says that `pollTimer` names an
armed timer; `loose` counts timers still armed that the variable does not name any
more, which is how a second chain of polls comes to exist. The server part keeps
the steps of `artifact_status()` (snapshot, then validation) and
`resolve_artifact()` (snapshot, queue for the worker, bounded acquire, build)
apart. Of the write lock the module keeps what `Coordination` shows: one holder, the
`writer`. It executes the sources in a step of its own (`Execute`) and commits later
(`Commit`), what it then hashes: `content` is the version the package is made of,
`package` the one it records, and an edit in between makes them differ
(`EditedDuringBuild`). A producer that finds the package current under its lock keeps it
(`KeepPackage`).

A `model` is a drawing or a solid, which decides what exports do. There may be one of
the viewer and, of a solid, one in a terminal, which takes the generator lock
(`TerminalExports`). The viewer's runs in its one worker, whose mutex is `WorkerFree`,
and waits there without a deadline (`Parked`): for the generator lock, or for the write
lock when it is of a drawing, which is a build that copies a file at its end. `events`
counts edits, failures, terminal builds and exports together. The progress position and
the wording of errors are abstracted.

### CadWorker

A thread goes through `run_cadgen()`: take the mutex, recycle if due, send, wait,
after a transport fault reap and send again, then give up and start a cold
process. The worker's steps are those of `serve()` and of the build under the
artifact's lock. Starting a process may fail, warm or cold (`SpawnFails`,
`ColdSpawnFails`). A terminated process may linger (`doomed`): the client does not wait
after `kill()`. It does close the pipes (`ClosePipes`), with the mutex, and `close()` of
stderr waits for the thread that drains it, so for the end of the pipe (`EndOfFile`): until
the worker (`reaping`) is dead and no process of its pool is left that inherited the
descriptor (`heirs`). A reader thread of an abandoned wait still reads the pipe
(`StrayRead`). Time is not modelled: a wait may be declared silent when nothing is
in the pipe and the process is wedged or, with `Quiet`, just quiet.

### ParallelMesher and ImplicitBuilder

`stage[b]` is the place of build `b`'s Node child in `main()` of `implicit-artifact.mjs`,
`pc[b]` that of its producer in `build_implicit_artifact`. The mesher samples
`Cells + 1` planes into a shared array (`field`), then polygonizes the slabs between
them. `HandOut`, `NextChunk`, `NoChunk` and `Finish` are `runChunks()` and its
`pump`; `owing` is its counter `outstanding` as the set of the threads it counts.
`Compute` is one turn of a thread's loop; `ticks` and `reply` are the messages it
posted that the main thread has not read (`ReadPlane`, `ReadResult`), in the order of
a port. A sampled plane is a member of a set, the triangles of a slab are its number,
or `Torn` where one of its planes was not sampled. With one thread the serial mesher
does the same in one step.

`CheckLock`, `WritePayload`, `OpenExport`, `WriteExport`, `ReportResult` and `Exit` are
the rest of the child, `Acquire` to `Release` the producer. `Spawn` is `Popen`, `Attend`
the `try` of the reading loop, some fifty lines later. `ChildFails`, `Interrupt` (an
exception) and `Kill` (a signal) may come at any step under the lock. An exception kills
the child where the producer attends it, in its `finally`; between `Spawn` and `Attend`
it escapes and leaves the child alive, as a kill does at any point. The lock then goes
all the same, and the producer is `gone`. Abstracted: the lock is the holder that
`Coordination` shows (degraded locks are not repeated here); the pipe keeps its order
and the producer reads it as it is written, so backpressure and the grace timer at the
end are not there; the payload's temporary file is part of the rename.

### ComponentPackage

`descriptor`, `glbs` and `sidecar` are `assembly.json`, `components/<cid>.glb` and
`topology.glb`; `pc[p]` is the place of a process in `build_step_artifact`
(`wait -> generate -> loading -> hash -> import -> scan -> build -> unlink -> prune`) or in
`_assembly_topology_artifact` (`manifest -> bundle -> served`, or
`extract -> extracting -> extracted`), which builds first if there is no package.

A *content* is a state of the sources and stands for the hashes recorded of it; contents
share components, since a component's name is a hash of its geometry. What is made of the
sources has two of them, the `content` it records and the sources its geometry is `of`,
because they are read one after the other and an edit may fall between: a script
(`Generated`) is executed and then hashed, an imported STEP file is hashed and then
parsed. `scene` is the scene a process loaded or the bundle it read, and `built` the
package it builds. For an imported file they are not of the same read: `Hash` takes the
hash for the package and `Import` parses the file once more for its geometry.

`todo` is the set a build still has to write (`WriteComponent`, in any order, as the pool's
workers do), and later the list it still has to prune; `failed` holds the components whose
worker reported an error, of which `Retry` builds those with an unreadable payload and any
other ends the build (`Raise`). `Unlink` removes the sidecar and lists what is to be pruned.

`Kill` may end any process at any step. The lock goes with it, but the workers of a pool
are processes of their own: the components they were at are `orphans`, written at any
time later (`OrphanWrites`). `WriteSidecar` is the query's cache write, which may fail
and, for an imported STEP, meets builds and other queries. A query opens the sidecar
twice; one that is at `bundle` when another query puts a new sidecar there is `swapped`,
and what it reads then it serves `unchecked`.

`Builders` are the processes that may be asked to build; all may query, and a query that
finds no package builds as well. Abstracted: the lock is its one holder; temporary files
are part of their rename; a process reads the descriptor once, and whether a package exists
with it; the cache of scenes, which keeps a scene under the hash taken before it was parsed
and so hands on, but does not make, those that `Whole` excludes.

### ViewerAssets

A *version* stands for what one build wrote, for its hash and for the `?v=` token of its
url. `source`, `disk` and `kept` are the files; `Build` replaces the descriptor after
its components were written, and `Prune` removes the components of older ones in a later
step. `catalog`, `refresh` and `answer` are the listing shown and the two that may be
under way: a refresh that was scanned (`RefreshScans`) and arrives later, and the
listing that comes with the answer to a build. `artifact` is what `UseArtifact` shows in
detail: `asking` or `ready`, `generating`, and `error`, which every status check and
every build may end in (`ArtifactFails`) and which stays until the key of the effect
changes. `mesh`, `refs`, their statuses, loads and the caches are the state of
`useCadAssets.js` and `renderAssetClient.js`. A load is where its last request is: for a
package the descriptor (`descriptor`, `index` when answered) and then a component, for a
plain file the file itself (`whole`, `mesh`). What is served is what is on disk when the
request reaches the server, whatever its token says, and is cached under the url.
`Effects` runs the mesh effect and the reference effect if what they depend on (`Deps`)
has changed since they last ran (`seen`); every published catalog makes the entries new
objects, so it is one of these. References are requested for nodes of the model's tree,
which exists while the current mesh is shown (`RefsRequested`). `Effects` comes before
every other step, which is React's order for the page; and no step of the disk or the
server reads or writes what the effects change, so putting them first loses no
behaviour.

`TornScans` lets a build replace a descriptor between the two reads of it by a scan. The
passing run says `FALSE`; `torn_listing` shows what happens otherwise.

### MotionPlanner

An event and the promise continuations it settles are one step. A pose is the default
one, one set by hand, or the result of a request; frames before an animation's last are
left out. `req` is what the closure of a request captured (its file, its end effector)
and whether it is settled; `via`, `current` and `state` are the sockets, `unsent`,
`wire` and `replies` what waits on them. `Closed` is the close event of any socket, also
of one that was replaced, and rejects all that is pending, as the code does. A
connection ends because the server stops (`Stop`) or because it is dropped, with the
server up (`Drop`); what the client sends until it notices is lost. `Select` saves the
pose of the file that is left and restores the stored one of the other.

## 3. The runs

| Run | Question | Instance |
|---|---|---|
| `coordination` | Do lock, sentinel, record and polls agree at every step? | three builds (one bounded, one killed anywhere, one that cannot lock), an export, a poll |
| `coordination_builds` | Is each version built once, is it `SerialBuilds` (so that the package only moves forward), which records stay open, does every waiter return? | three builds of three producers, two edits, one run that may be killed and may lose its writes |
| `use_artifact` | Is a loading state always watched and does it end, is what is shown as ready current, is a POST served although a peer builds for ever (unless an export of the viewer is parked)? | a drawing or a solid; a tab with two effects, two requests in flight, a terminal build, an export of the viewer and one of the terminal, an edit, failures: three of these events in any order |
| `cad_worker` | Own results, one write, no lost process, does every request return? | two requests for one artifact, recycling after each, silences, three faults anywhere, failed spawns among them |
| `implicit_builder` | Is the mesh the serial one, the progress exact, the descriptor that of the payload, the child gone before the lock, does each build end? | two builds, with exceptions anywhere under the lock, one with an export and mortal: it may be killed, or raise before it attends its child; five planes, two threads with two chunks each |
| `viewer_assets` | Is nothing stale shown, do loads and indicators go together, does what is on disk get shown? | one package and one plain file, an edit, two failures of status checks, builds, fetches or refreshes |
| `component_package` | Does the descriptor always find its components, are the right selectors served, is garbage removed? | two processes that query again and again, one of which also builds, an imported file with two contents, one of which has a component more than the other, any number of edits, exceptions, kills and orphans |
| `motion_planner` | Has each indicator a request and each request somebody to answer or reject it, does each request settle without its timer? | two robots, two requests, two sockets, one stop of the server or dropped connection |

Why these bounds. What the properties of `Coordination` quantify over is two runs of one
lane, or a run and a reader; a third build is there where a *sequence* of builds or a
run without the lock beside two with it matters. Two requests are the least with which
an answer can reach the wrong one and a retry can meet a peer; `MaxProcs` 8 lets every
retry and both fallbacks start. Two requests in flight are a POST and a poll, or those
of two effects; to a tab, a second tab is one more peer, except that its builds queue
for the same worker, as those of a second POST do. Three events let an export park
behind another one with an edit, a failure or a build besides. The three faults of
`cad_worker` are a hang of the first attempt, one of the second and a cold process that
does not start. Every counter that could grow has a bound in a guard. Five planes on two
threads make three chunks in the first pass, so that one thread gets a second chunk and
the other none, and the last chunk is shorter; two builds are the orphan of one and the
successor. The files of `ComponentPackage` are a finite set of contents, so nothing
there needs a bound: builds, queries, edits and kills go on for ever. Two processes are
a build or query and the one it meets or is followed by: the one that is not asked to
build still does, when its query finds no package. Two contents with one component in
common and one that only the first has are what reuse, pruning and a stale sidecar need.
The run takes one mesh: the mesh decides only whether a build is skipped (see below for
two). With `Generated = TRUE`, the model of a script, all properties hold as well (1.2
million states), but such queries take the lock too and meet fewer builds, so the
regular run has an imported file. One edit lets a refresh, a build's answer, a load and
a cache each be of the old version while the others are of the new one. Two faults are
two requests that fail one after the other. Two sockets are one that is going away and
its replacement. `CHECK_DEADLOCK FALSE` is set where every run or build may have
returned and nothing is left to poll.

Each property has a mutant beside the definition it changes (`\* Mutant:`), a
plausible bug in that code with which the property fails.

### Where the code and its comments disagree

These runs are expected to be violated; `PROJECT.json` ("findings") quotes the
lines.

| Run | What the trace shows |
|---|---|
| `edit_during_build` | a source edited while it is being executed is recorded as built |
| `export_of_another_model` | a build asked for an export returns a half-written one, or one of an older mesh |
| `export_parks_worker` | an export of the viewer waits in the worker for a terminal's build (a drawing's) or export (a STEP model's), and a POST waits behind it |
| `torn_listing` | a scan that reads a descriptor's `stat` and its contents around a build makes the tab keep the previous geometry for ever |

### Observations

The models and the code beside them show relatives of these that have no run of their
own, and hazards that no property covers. Where a property makes an exception for one of
them, it is named here with the exception.

* coordination: a poll between a new holder's acquire and its stamp shows a killed run's
  progress as the new run's. A drawing build that is skipped reports a phase after its
  record was closed and leaves it open (`FinalizeSkipped`; the exception
  `OpenRecordsExplained` makes for skipped runs). A STEP build that is skipped but no
  longer finds its artifact on the second look (`BuildAfterSkip`) builds without closing
  its record. A bounded acquire reports a peer when its last poll only met a probe
  (`GiveUp`, `lock.py:423`). `snapshot()` probes its two lanes one after the other, so a
  writer may start in between (`__init__.py:179`). On Windows every probe takes the lock
  for a moment, so two readers may each take the other for a holder (`lock.py:259`); the
  runs have shared probes, and one reader. A run that commits may still raise, and is
  then recorded as failed with its package in place (`Fail` at `finishing`;
  `dxf_artifact.py:166-173` copies the export after the commit). The thread's set of held
  paths contains a path also while its run is degraded (`lock.py:344`).
* hook: a poll in flight when the POST returns goes on polling after the outcome is on
  screen (`KeepPolling`), and two chains of polls can both POST
  (`useArtifact.js:121-127` and `:169`, against `:30-32`); `loose` counts them. A status
  request that fails once is an error until the key changes (`useArtifact.js:150-153`),
  although `:20-22` reserves that state for fatal build and source failures. The file is
  then not shown, which `SelectedIsShown` excepts, and no reference is asked for. The
  listing attached to a failed build's answer (`server.py:371-373`) never reaches the
  page, since the client throws on the status first.
* exports: a viewer's export waits in the one worker, without a deadline, for the generator
  lock of a terminal's export (`backend.py:541-545`, `generation_runner.py:575-579`) or, of
  a drawing, for the write lock; POSTs queue behind it. `PostsAreServed` excepts this state
  (`Parked`), which `export_parks_worker` shows. An edit while a build executes its
  sources leaves a package that records the edit and does not have it
  (`generation_runner.py:399-419`); `ReadyIsNotStale` excepts it (`EditedDuringBuild`), and
  `edit_during_build` shows it.
* worker: the worker of a second silent attempt is kept, still building; the cold
  process of the request can then be turned away by it (`Contend`). `_reap()` closes
  stderr under the mutex (`worker_client.py:158-163`), while the drain thread has the
  buffer's lock in a blocked `readline` (`:118-140`). Pool processes of a worker that
  dies inherit the descriptor, so `close()` returns only when they are gone, and if they
  hang every request waits for the mutex, those that would fall back to a cold process
  too, although `run_cadgen()` documents a path that is always available.
  `EveryRequestReturns` excepts this (`Stuck`).
* implicit builds: a producer that is killed (the server does so,
  `worker_client.py:151-155`) never reaches the `finally` that kills its child
  (`node_runtime.py:407`). The child checked its run id at its start only, takes the
  closed pipe for a parent that has its result (`progressStream.js:47`), and replaces
  the payload of a package whose lock is gone, or somebody else's (`WritePayload` of a
  build whose producer is `gone`), which `node_runtime.py:23` names the failure mode the
  design avoids. An exception between `Popen` (`:324`) and the `try` of the reading loop
  (`:377`) does the same without a kill, although the docstring says that the child is
  reaped "in every path" (`:302-306`). `NoBuilderOutlivesTheLock` and
  `DescriptorMatchesPayload` except both (a producer that is `gone`).
  `model.glb.tmp-<pid>` of a killed child stays in the package. The digest of the
  closure is taken after the mesh (`WriteDescriptor`), so an edit during a build is
  recorded as built here as well. A second worker thread that fails after the first
  one's error has no listener.
* component packages: a query opens the sidecar twice (`step_artifacts.py:318`, `:320`);
  if another query replaces it in between, selectors of other sources are served.
  `ServedSelectorsMatch` excepts such a query (`swapped`, `unchecked`). It also excepts
  what was made of a file that was edited between two reads of it (`Whole`): an imported
  STEP is hashed and parsed again (`generation.py:449-455`, `:564-576`), and
  `step_scene_cache.py:336-346` keeps the scene under the hash taken before the parse,
  for as long as the cache does. No comparison of hashes tells such files from others. A
  query never asks whether the package is current when there is one (`:136-144`),
  although the sidecar's check relies on that ("its closure gate already ran", `:391`):
  after an edit it serves the selectors from before. On-demand extraction takes the
  *write* lock (`step_artifacts.py:467` passes no `lock_intent`), where
  `generation_runner.py:317-320` and `:557-563` name it among the runs that must take
  the other one, so that a current model is reported as generating for its length. A
  component's name does not depend on the mesh tolerances, so an unforced build with
  others reuses the file and records the new tolerances (`component_package.py:679`,
  against `generation.py:278-279`). A killed builder's pool writes components without
  the lock (`OrphanWrites`), and its `*.glb.tmp` files match no pruning.
* motion planning: a pose that an animation reaches after its file was left is kept in
  memory only and overwritten by the stored one when the file is selected again
  (`CadWorkspace.js:4048`, `:4104`, `:4215`). The close event of a replaced socket
  rejects the requests of the new one (`Closed`). A probe opens a socket that nothing
  closes when it times out (`moveit2ServerClient.js:175`), and fails while the server
  plans. What is sent between the end of a connection and its close event is lost
  (`SendWhenOpen`).
* sessions: `FILE_SESSION_SLICE_SCHEMA` of `fileSessionState.js` names no `implicit` slice,
  which `CadWorkspace.js:4087-4100` would restore: parameters of implicit models
  are never stored. `docs/storage.md:103` lists a `dxf` slice that the schema lacks.
* assets: a component whose bundle fails is left out of the references, which then count
  as complete (`useCadAssets.js:612`). The load of a file that was left goes on behind a
  cached mesh, and its late error stays on the file shown (`CadWorkspace.js:4702`). A
  rebuild takes the tree away until its mesh is shown, and one of the effects then
  forgets which nodes were expanded. A mesh load that fails is started again at once,
  without an end (`CadWorkspace.js:4712`).

### Fairness

* `Coordination`: a run that was started goes on (weak fairness of its steps); a
  waiter for which the lock is free again and again gets it (strong fairness of
  `Acquire`), which is the kernel's queue for a blocking `flock` and, for polls every
  20 ms, the assumption that not all of them meet a probe. Starting a run, an
  edit, an exception and a kill are not fair.
* `UseArtifact`: requests are served, continuations run, timers fire. Selecting and
  editing are not fair, and neither are builds and exports in a terminal:
  `PostsAreServed` holds although they may go on for ever (but for what
  `export_parks_worker` shows). That they execute their sources and end is the premise
  of `LoadingEnds` (`PeerFairness`). A writer of the viewer executes its sources, its export
  ends (`CadWorker`), and one for which its lock is free again and again gets it (strong
  fairness of `LockExport`, the kernel's queue).
* `CadWorker`: processes that can run do, a signalled one dies, the idle watchdog
  of a wait that is silent fires; the mutex does not starve a thread, of which
  each sends one request. Nothing is assumed of the pool of a dead worker: either each
  request returns, or one waits for such a pool for ever.
* `ImplicitBuilder`: a producer and a child that can take a step do, as processes that
  are scheduled; threads need no fairness of their own, because their counters leave
  no infinite run without them. Failing, killing and editing are not fair.
* `ComponentPackage`: none. `GarbageIsCollected` has its premise in the formula: builds
  finish again and again, whatever is edited, killed or raised besides.
* `ViewerAssets`: the build of the selected package ends and prunes, the catalog
  is polled, requests are answered or fail, and the page gets to each kind of event in
  spite of later ones. Nothing is assumed of the user, or of builds nobody asked for.
* `MotionPlanner`: events are delivered and a running server answers. Neither the
  60-second timer of a request nor the user, nor the restart of a stopped server.

## 4. The proofs

Every safety property of the passing runs, invariant, action property or refinement, is
stated by a theorem. TLC finds each strengthening below to hold on the run's instance.

`CoordinationProofs` proves, for all sets of runs and readers, all producers and all
assignments of faults:

| Theorem | Property |
|---|---|
| `TypeCorrect` | `TypeOK` |
| `Exclusion` | `MutualExclusion` |
| `SentinelNamesHolder` | `StampNamesHolder` |
| `LiveRecordIsTheHolders` | `HolderOwnsRecord` |
| `OpenRecords` | `OpenRecordsExplained` |
| `BuildsAreDistinct` | `NoDuplicateBuild` |
| `PackageMovesForward` | `PackageNeverRegresses`, which no run checks: where every acquire works `BuildsAreSerial` contains it |
| `ProgressIsNotAPeers` | `BarIsNeverALivePeers` |
| `ImplementsSerialBuilds` | `BuildsAreSerial`, where every acquire works |

The assumptions are those of the module: runs of the two lanes are distinct and
are no marker values, the switches are subsets of the runs.

None of the properties is inductive. The strengthening has layers, each proved
with the ones below it:

1. `LockInv`: a run at work that is not degraded owns its lane, and only such a run
   owns one. Exclusion follows at once.
2. `StampInv`: a sentinel names only runs of its lane that got past their stamp
   with the lock. Needed because the id of an earlier run stays in the file.
3. `HolderOwnsRecord` and `OpenInv`: a record is in its writer's lane, its writer is
   past its stamp, and an open record's writer that leaves without closing it was
   skipped or lost a write.
4. `BuildInv`: of runs that were never degraded, the one at `generate`, `capture` or
   `commit` carries a version that is newer than the package's (not older, when
   forced), because the package can only be replaced by the lane's owner.
   `BuildForward` is the step; the refinement of `SerialBuilds` uses it too.
5. `ViewInv`: a reader between probe and end of its snapshot has in `holders` every
   run that owned the lane since its probe; a run id it read is of one of those or
   of a run that is over.

`WorkFrame`, `ReadFrame` and `NextCases` cut the case analysis: all steps a run makes
under its lock leave locks and stamps alone, readers change nothing a run sees.

`ImplicitBuilderProofs` proves, for every grid, number of threads and chunks, all
builds and every choice of those that export, are forced or may be killed:

| Theorem | Property |
|---|---|
| `TypesHold` | `TypeOK`: also that no plane outside the grid is touched |
| `BarrierAlwaysHolds` | `BarrierHolds` |
| `DescriptorAlwaysMatches` | `DescriptorMatchesPayload` |
| `ChildrenHaveTheLock` | `NoBuilderOutlivesTheLock` |

The assumptions are at least two cells, one thread and one chunk per thread. The barrier
rests on `PassInv`: a plane of a chunk that was handed out is sampled, or in the part
of its chunk that a thread has still to do (`Covered`); a thread with a chunk or an unread
result owes an answer; so, when the last answer finds no chunk left, every chunk
was handed out and none is in work. That chunks together are all planes
(`ChunkCount` times `ChunkSize` reaches the count) needs a lemma about division, stated
by its two inequalities. `TypesHold` also says that an output is a sequence of slabs of
the grid. `BuildInv` is the invariant of the producers: exactly the
producer inside its locked region holds the lock, a child runs only under a
producer between its spawn and its result (`Attending`) or one that is gone, and from
`opened` on there is no descriptor until the payload is the build's own, or that of the
child of a producer that is gone. Exceptions may come at every step of it;
`ChildrenHaveTheLock` says of each that the child is killed before the lock goes, except
where it escapes between the spawn and the loop.

`MesherProofs` continues it, for every order of the threads' messages and answers too:

| Theorem | Property |
|---|---|
| `ProgressStaysExact` | `ProgressIsExact` |
| `MeshStaysSerial` | `MeshIsSerial` |

Neither says anything before the end of a pass, so neither is inductive. `Tally` says
what holds at each message. `HandsInv`: a chunk is in the hands of one thread, from the
moment it is handed out until its answer is read, and the unread messages of that thread
are about planes of it. `BarInv`: the bar is the number of the planes `Counted`, those of
answered chunks and, in the others, those behind which no unread message lies. Reading a
message adds exactly one plane to them (so no message counts twice, or for the other
pass); behind the last answer they are all planes. `PartsInv`: the output of an answered
chunk, in its place, is its part of the serial mesh, and a thread has computed its part up
to where it is. What is left is about sequences only: `PartsJoin`, the parts joined by
`FlattenSeq` are the serial mesh. `FlattenSeq` is a recursive function; an induction over
its index cannot be written here, so `JoinedOnce` says that no two functions satisfy its
equation (they would differ at a least place, `LeastElement`), and the prefixes of the
serial mesh do satisfy it.

`UseArtifactProofs` proves, for all sets of tabs and peers, every number of effects,
requests in flight, edits and other events, for drawings and solids:

| Theorem | Property |
|---|---|
| `Types` | `TypeOK` |
| `LoadingStaysWatched` | `LoadingIsWatched` |
| `ReadyStaysFresh` | `ReadyIsNotStale` |

The assumptions are that a request's slot, a peer, the exporter and nobody are told
apart. `Effects` says that no request, timer or state is ahead of the effect of its tab;
without it the answer to an older effect could count for a new one. `ReadyIsNotStale`
compares what is on screen with the source at the start of the effect, several requests
earlier. It speaks of the version the package is made of, except while that
is not the one it records; the inductive part (`Recorded`) speaks of what is recorded.
`Builds` carries this over the steps between: a request of the current effect that has
built or found ready has left a package that records no older source than the effect's.
It lasts because the package never goes back
(`Versions`: nothing is made of a source that is still to come, no package of a newer
one than it records) and because who writes has the lock (`Writers`), which each of
a POST, a peer and a drawing's export takes in a step of its own.

`CadWorkerProofs` proves, for all sets of threads and artifacts and every number of
processes and faults:

| Theorem | Property |
|---|---|
| `Types` | `TypeOK` |
| `AnswersStayOwn` | `AnswersAreOwn` |
| `CommitsOnce` | `OneCommitPerRequest` |
| `NothingLeaks` | `NoLeakedWorkers` |

The assumptions are that each thread has an artifact and that `None` is no thread or
process. `Turns` says that whoever talks to the warm worker, or closes the pipes of one
it reaped, holds the mutex (`Holding`); hence a
worker that is replaced has been reaped by the one thread that knows it
(`NoLeakedWorkers`). `Ids` is the invariant of all pipes: a frame or a line, on the pipe
of whichever process, has an id that was given out, and if that is the id a thread
expects, it is that thread's own. It is preserved by a retry because `nextId` is
larger than all of them, which is what makes the check of the id in the reader enough
(`AnswersAreOwn`) although lines of abandoned attempts stay in the pipes and a stray
reader may take one. `Written` says that a request that has written left its artifact
fresh, so an attempt after it takes the fast path (`OneCommitPerRequest`).

`MotionPlannerProofs` proves, for all sets of robots and end effectors and every number of
requests, sockets, stops of the server and dropped connections:

| Theorem | Property |
|---|---|
| `Types` | `TypeOK` |
| `SolvingStaysInFlight` | `SolvingIsInFlight` |
| `NothingNeedsTheTimer` | every pending request has a path to its end, the safety part of `EveryRequestSettles` |

The only assumption on values is that `Nobody` is none of the others. `SolvingIsInFlight`
demands more of a request than that it is pending, so it needs `PendingInv`: each pending
request is on the current socket, and stands in the queue that belongs to the
state of this socket (`HasAPath`), or the socket is about to close, and its close event
rejects all that is pending. What can break it is a step that moves a
request between two queues or replaces the socket: there all that was pending is
rejected, which `RejectFacts` and `ClearedTypes` state once for all of them.

`ViewerAssetsProofs` proves, for all sets of files and every number of edits and faults:

| Theorem | Property |
|---|---|
| `TypesKept` | `TypeOK` |
| `LoadingAlwaysRuns` | `LoadingIsRunning` |
| `ReferencesAlwaysLoad` | `ReferencesAreLoading` |
| `NeverStale` | `NoStaleGeometry`, where scans are not torn |

`TypeInv` adds to the types that the disk does not run ahead of the sources (or its
versions would leave their set) and that an answered load has content.
`LoadingIsRunning` is inductive with the types; `ReferencesAreLoading` is not, since it
waits for the effects, but its part without them (`LoadBehindStatus`) is. `NeverStale`
needs the chain from disk to screen (`FreshInv`): listings, shown or under way, pair
the url and hash of one version that the disk has reached; so does a load; what the
disk serves is at least that version because the disk only moves forward; what the
cache has for a url was served for it. Each kind of step keeps the chain by a lemma of
its own. The theorem's premise is what `torn_listing` denies.

`ComponentPackageProofs` proves, for all sets of processes, contents and components and
whatever components contents share:

| Theorem | Property |
|---|---|
| `TypeCorrect` | `TypeOK`: also that exactly the process that builds holds the lock |
| `AlwaysComplete` | `DescriptorIsComplete` |
| `ServedMatch` | `ServedSelectorsMatch` |

The assumptions are that contents map to sets of components, that builders are processes and that the marker
`Nothing` is no value. The descriptor's completeness is not inductive: `Prepared` says
that a build at `build` has each component of the geometry it imported (`built[p].of`,
whatever hash it records) on disk, still to write or
failed, so that all are there when it writes the descriptor; this lasts because only
pruning removes a file and the lock keeps two builds from being at `build` and `prune`
together (the last conjunct of `TypeOK`), while orphans only add. `Disposable` says that
a build past its descriptor is the descriptor's, and prunes nothing of it. For the
selectors `Checked` says that between its two reads a query finds the sidecar it checked
or none, unless another query put one there, which marks it as `swapped`; what is served
then has the hash of the descriptor that was read. Where neither file is torn, the hash is
the geometry.

Only model-checked: all liveness (`EveryRunReturns`, `GarbageIsCollected`,
`LoadingEnds`, `PostsAreServed`, `EveryRequestReturns`, `EveryBuildEnds`,
`SelectedIsShown`, `ReferencesSettle`, `EveryRequestSettles`), which is out of the
prover's reach, and the four properties that are expected to fail.

## 5. Plan

1. Proofs: the safety halves of the liveness properties, as `NothingNeedsTheTimer` is one:
   that a queued POST always has somebody at work before it (`PostsAreServed`), that a
   build that has not ended can take a step (`EveryBuildEnds`).
2. Drawing packages beside `ComponentPackage`, and readers that load components while a
   build prunes; the re-entrant acquire and `require_write_lock`.
3. Progress: the ratio never falls within a run. The scene cache.
4. Compositions: `UseArtifact` and `CadWorker` over `Coordination`, and `ViewerAssets`
   over `UseArtifact`, instead of over what they now assume of them.

## 6. Not modelled

Most of the code is numerical or presentation, and no state machine of it would say
more than its unit tests: geometry kernels, signed-distance evaluation, drawings with
hidden lines, rendering and shaders; the React components of the workbench, picking,
settings, themes, sidebar; parsers of robot and drawing formats and of part
references. That is why the mapped lines are a small share of the repository, although
they are most of the code that coordinates processes, threads, requests or loads.
Start-up and build scripts are sequential.

Left out of components that are modelled: the progress position within a bar, error
texts and log output, everywhere; `ping` and the shutdown of the worker; the loaders of
robots, implicit models, drawings and display edges, which have the same shape as the
mesh loader (an abort controller and a request id); progressive loading of components;
several components of one package, so that a package partly pruned under a load cannot
be seen there; drawing packages; solver settings of motion planning.
The file system is assumed to rename atomically and the kernel to drop the lock of a
dead process.
