---------------------------- MODULE ImplicitBuilder ----------------------------
(* The implicit render package: a Python producer (implicit_artifact.py, implicit_package.py)
   that holds the package's write lock, and the Node child it spawns and reads
   (node_runtime.py), which meshes the model (ParallelMesher) and writes model.glb
   (implicit-artifact.mjs). Several builds of one model.

   The lock is abstract here: Coordination models how it is taken, waited for and lost. Its
   kernel lock goes with the process that holds it, so a producer that is killed lets it go at
   once, while its child lives on. The package holds a payload, model.glb, and a descriptor,
   each named by the build that wrote it; a sibling file is the export some builds are asked
   for. The pipe from the child keeps order and loses nothing, so the producer's view of it is
   the child's stage. *)
EXTENDS ParallelMesher

CONSTANTS
  Exporting,  \* builds run with --write-glb
  Forced,     \* builds run with --force
  Mortal,     \* producers that may leave their child behind: killed, or raising before its loop
  None, Half

ASSUME BuildsAssumption ==
  /\ Exporting \subseteq Builders
  /\ None \notin Builders /\ Half \notin Builders /\ None # Half

VARIABLES
  pc,          \* where each producer is; "gone": ended, its child left to itself
  lock,        \* the holder of the write lock
  sentinel,    \* the run id stamped into the sentinel
  descriptor,  \* implicit.json: the build that wrote it
  fresh,       \* its closure hash is that of the sources
  payload,     \* model.glb: the build that wrote it
  sibling      \* the export

producer == <<pc, lock, sentinel, descriptor, fresh, payload, sibling>>
vars == <<mesher, producer>>

Points == {"new", "locked", "opened", "spawned", "reading", "describing", "described",
           "unwinding", "escaping", "done", "skipped", "contended", "failed", "gone"}
Locked == {"locked", "opened", "spawned", "reading", "describing", "described",
           "unwinding", "escaping"}

TypeOK ==
  /\ stage \in [Builders -> Stages]
  /\ threads \in [Builders -> Workers]
  /\ next \in [Builders -> Nat]
  /\ owing \in [Builders -> SUBSET Workers]
  /\ job \in [Builders -> [Workers -> Nat]]
  /\ at \in [Builders -> [Workers -> Nat]]
  /\ ticks \in [Builders -> [Workers -> Nat]]
  /\ reply \in [Builders -> [Workers -> Nat]]
  /\ field \in [Builders -> SUBSET Planes]
  /\ part \in [Builders -> [Workers -> Seq(Slabs \cup {Torn})]]
  /\ outputs \in [Builders -> Seq(Seq(Slabs \cup {Torn}))]
  /\ bar \in [Builders -> [phase : Passes \cup {"none", "weld", "write"}, done : Nat]]
  /\ pc \in [Builders -> Points]
  /\ lock \in Builders \cup {None}
  /\ sentinel \in Builders \cup {None}
  /\ descriptor \in Builders \cup {None}
  /\ fresh \in BOOLEAN
  /\ payload \in Builders \cup {None}
  /\ sibling \in Builders \cup {None, Half}

Init ==
  /\ MesherInit
  /\ pc = [b \in Builders |-> "new"]
  /\ lock = None
  /\ sentinel = None
  /\ descriptor = None
  /\ fresh = FALSE
  /\ payload = None
  /\ sibling = None

Go(b, from, to) == pc[b] = from /\ pc' = [pc EXCEPT ![b] = to]
Becomes(b, from, to) == stage[b] = from /\ stage' = [stage EXCEPT ![b] = to]
-----------------------------------------------------------------------------
\* The child, outside its mesh: each step is one stretch of main() in implicit-artifact.mjs.
mesh == <<threads, next, owing, job, at, ticks, reply, field, part, outputs>>
package == <<descriptor, fresh, payload, sibling>>

\* assertWriteLock: started by the holder, or it throws before it writes a byte.
Verified(b) == sentinel = b

CheckLock(b) ==
  /\ Becomes(b, "started", IF Verified(b) THEN "loading" ELSE "died")
  /\ bar' = [bar EXCEPT ![b] = [phase |-> "sample", done |-> 0]]
  /\ UNCHANGED <<mesh, producer>>

\* Weld, encode, write the payload beside its place and rename it there.
WritePayload(b) ==
  /\ Becomes(b, "meshed", "written")
  /\ bar' = [bar EXCEPT ![b] = [phase |-> "write", done |-> 0]]
  /\ payload' = b
  /\ UNCHANGED <<mesh, pc, lock, sentinel, descriptor, fresh, sibling>>

\* The export is written in place; without one, this step goes straight to the result.
OpenExport(b) ==
  /\ IF b \in Exporting
       THEN Becomes(b, "written", "exporting") /\ sibling' = Half
       ELSE Becomes(b, "written", "exported") /\ UNCHANGED sibling
  /\ UNCHANGED <<mesh, bar, pc, lock, sentinel, descriptor, fresh, payload>>

WriteExport(b) ==
  /\ Becomes(b, "exporting", "exported")
  /\ sibling' = b
  /\ UNCHANGED <<mesh, bar, pc, lock, sentinel, descriptor, fresh, payload>>

ReportResult(b) ==
  /\ Becomes(b, "exported", "leaving")
  /\ UNCHANGED <<mesh, bar, producer>>

Exit(b) ==
  /\ Becomes(b, "leaving", "exited")
  /\ UNCHANGED <<mesh, bar, producer>>

\* A worker thread's error, an exception in main, a crash: a non-zero exit.
ChildFails(b) ==
  /\ stage[b] \in Running
  /\ stage' = [stage EXCEPT ![b] = "died"]
  /\ UNCHANGED <<mesh, bar, producer>>

ChildStep(b) ==
  \/ MeshStep(b) /\ UNCHANGED producer
  \/ CheckLock(b)
  \/ WritePayload(b)
  \/ OpenExport(b)
  \/ WriteExport(b)
  \/ ReportResult(b)
  \/ Exit(b)
-----------------------------------------------------------------------------
\* The producer.
Acquire(b) ==
  /\ lock = None
  /\ Go(b, "new", "locked")
  /\ lock' = b
  /\ sentinel' = b
  /\ UNCHANGED <<mesher, package>>

\* artifact_build with no time to wait.
Contended(b) ==
  /\ lock # None
  /\ Go(b, "new", "contended")
  /\ UNCHANGED <<mesher, lock, sentinel, package>>

\* _is_current, asked again under the lock.
IsCurrent(b) ==
  /\ b \in Exporting => sibling # None
  /\ descriptor # None /\ fresh

Skip(b) ==
  /\ IsCurrent(b) /\ b \notin Forced
  /\ Go(b, "locked", "skipped")
  /\ lock' = None
  /\ UNCHANGED <<mesher, sentinel, package>>

\* _open_package: the descriptor goes first. The other form leaves it until it is replaced.
KeepDescriptor == UNCHANGED <<descriptor, fresh>>
DropDescriptor == descriptor' = None /\ UNCHANGED fresh

OpenPackage(b) ==
  /\ ~ IsCurrent(b) \/ b \in Forced
  /\ Go(b, "locked", "opened")
  /\ DropDescriptor
  /\ UNCHANGED <<mesher, lock, sentinel, payload, sibling>>

\* run_node_builder: Popen, with the number of threads asked for or the machine's.
Spawn(b) ==
  /\ Go(b, "opened", "spawned")
  /\ Becomes(b, "off", "started")
  /\ \E k \in Workers : threads' = [threads EXCEPT ![b] = k]
  /\ UNCHANGED <<next, owing, job, at, ticks, reply, field, part, outputs, bar,
                 lock, sentinel, package>>

\* The `try` of the reading loop: from here on a `finally` ends the child.
Attend(b) ==
  /\ Go(b, "spawned", "reading")
  /\ UNCHANGED <<mesher, lock, sentinel, package>>

\* The result is read and the child is gone, by itself or killed after its grace.
TakeResult(b) ==
  /\ stage[b] \in {"leaving", "exited"}
  /\ Go(b, "reading", "describing")
  /\ stage' = [stage EXCEPT ![b] = "exited"]
  /\ UNCHANGED <<mesh, bar, lock, sentinel, package>>

\* The child left without a result or with an error: run_node_builder raises.
ChildFailed(b) ==
  /\ stage[b] = "died"
  /\ Go(b, "reading", "unwinding")
  /\ UNCHANGED <<mesher, lock, sentinel, package>>

\* The `finally` of run_node_builder, and the same without it.
LeaveChild(b) == UNCHANGED stage
KillChild(b) == stage' = [stage EXCEPT ![b] = IF @ \in Running THEN "died" ELSE @]

\* An exception in the producer under its lock (KeyboardInterrupt, an unreadable file, a full
\* disk). In the reading loop the child is killed before it goes on; between Popen and that
\* loop nothing ends the child; elsewhere none runs.
Interrupt(b) ==
  /\ \/ Go(b, "reading", "unwinding") /\ KillChild(b)
     \/ b \in Mortal /\ Go(b, "spawned", "escaping") /\ UNCHANGED stage
     \/ /\ \E point \in {"locked", "opened", "describing", "described"} : Go(b, point, "unwinding")
        /\ UNCHANGED stage
  /\ UNCHANGED <<mesh, bar, lock, sentinel, package>>

\* The digest of the closure is taken now, and the descriptor written last.
WriteDescriptor(b) ==
  /\ payload # None
  /\ Go(b, "describing", "described")
  /\ descriptor' = b
  /\ fresh' = TRUE
  /\ UNCHANGED <<mesher, lock, sentinel, payload, sibling>>

Release(b) ==
  /\ Go(b, "described", "done") \/ Go(b, "unwinding", "failed") \/ Go(b, "escaping", "gone")
  /\ lock' = None
  /\ UNCHANGED <<mesher, sentinel, package>>

\* SIGKILL, or SIGTERM, which Python does not turn into an exception: the watchdogs of
\* cadgen_bridge.py and worker_client.py. The kernel lock goes, the child stays.
Kill(b) ==
  /\ b \in Mortal
  /\ pc[b] \in Locked
  /\ pc' = [pc EXCEPT ![b] = "gone"]
  /\ lock' = None
  /\ UNCHANGED <<mesher, sentinel, package>>

\* Somebody edits the model.
Edit ==
  /\ fresh
  /\ fresh' = FALSE
  /\ UNCHANGED <<mesher, pc, lock, sentinel, descriptor, payload, sibling>>

ProducerStep(b) ==
  \/ Acquire(b)
  \/ Contended(b)
  \/ Skip(b)
  \/ OpenPackage(b)
  \/ Spawn(b)
  \/ Attend(b)
  \/ TakeResult(b)
  \/ ChildFailed(b)
  \/ WriteDescriptor(b)
  \/ Release(b)

Next ==
  \/ \E b \in Builders : ChildStep(b) \/ ProducerStep(b)
  \/ \E b \in Builders : ChildFails(b) \/ Interrupt(b) \/ Kill(b)
  \/ Edit

Spec == Init /\ [][Next]_vars

\* Processes that are scheduled take their steps; nobody has to fail, kill or edit.
Fairness ==
  \A b \in Builders : WF_vars(ChildStep(b)) /\ WF_vars(ProducerStep(b))

FairSpec == Spec /\ Fairness
-----------------------------------------------------------------------------
\* Polygonizing starts when every plane is sampled: the barrier between the passes holds for
\* every number of planes, threads and chunks and every order of their answers.
BarrierHolds == \A b \in Builders : stage[b] = "polygonize" => field[b] = Planes

\* What the threads made, joined, is what the serial mesher makes: every slab once, in order,
\* and none of it from planes that were not sampled.
MeshIsSerial ==
  \A b \in Builders :
    stage[b] \in {"meshed", "written", "exporting", "exported", "leaving", "exited"} =>
      Mesh(b) = SerialMesh

\* Progress is exact though the threads post it and both passes use the same message: each
\* pass has counted all of its planes, and no more, when the next stage begins.
ProgressIsExact ==
  \A b \in Builders :
    /\ stage[b] = "polygonize" /\ bar[b].phase = "sample" => bar[b].done = Cells + 1
    /\ stage[b] = "meshed" => bar[b] = [phase |-> "polygonize", done |-> Cells]

\* A descriptor stands only beside the payload of its own build: whatever failed or was
\* interrupted in between, unless the payload came from a child that was left behind.
DescriptorMatchesPayload ==
  descriptor # None => payload = descriptor \/ (payload # None /\ pc[payload] = "gone")

\* No child runs without its producer's lock, whatever the producer raises once it attends the
\* child. The docstring of run_node_builder says so of "every path"; the code leaves two out,
\* a producer that is killed and one that raises between Popen and its `try`.
NoBuilderOutlivesTheLock ==
  \A b \in Builders : stage[b] \in Running => lock = b \/ pc[b] = "gone"

\* A build that has the lock lets it go, and its child ends, whatever became of either.
EveryBuildEnds ==
  \A b \in Builders :
    pc[b] \in Locked \/ stage[b] \in Running ~> pc[b] \notin Locked /\ stage[b] \notin Running

\* A build that was asked for an export and says it succeeded leaves the one that belongs to
\* the package.
ExportIsOfThePackage ==
  [][\A b \in Exporting :
       pc[b] # pc'[b] /\ pc'[b] \in {"done", "skipped"} => sibling = payload]_vars
=============================================================================
