---------------------------- MODULE ParallelMesher ----------------------------
(* The Node child of an implicit build (packages/cadjs/bin/implicit-artifact.mjs) up to its
   mesh: the parallel mesher of implicitjs (meshWorkers.js, meshWorkerEntry.js, mesh.js).
   The field is sampled plane by plane into an array the worker threads share; then, behind a
   barrier, the slabs between neighbouring planes are polygonized. Each pass hands out chunks of
   planes, one at a time to each thread, and joins their outputs in chunk order.

   A sampled plane is a member of `field`; the triangles of a slab are its number, or Torn when
   one of its two planes was not sampled yet. A thread posts a "plane" message per plane and then
   its result, over a port that keeps their order: `ticks` counts the unread plane messages and
   `reply` is the chunk of the result behind them. The counter `outstanding` of runChunks is the
   set `owing` of the threads that owe an answer, at most one each. *)
EXTENDS Integers, Sequences, SequencesExt

CONSTANTS
  Builders,        \* the builds, each with a Node child of its own
  Cells,           \* grid.nz: the number of slabs, one less than the planes
  MaxThreads,
  ChunksPerWorker

ASSUME MesherAssumption ==
  /\ Cells \in Nat /\ Cells >= 2
  /\ MaxThreads \in Nat \ {0}
  /\ ChunksPerWorker \in Nat \ {0}

VARIABLES
  stage,    \* where the child is
  threads,  \* the number of its worker threads; 1 means the serial mesher
  next,     \* chunks handed out in this pass
  owing,    \* threads with a chunk unanswered
  job,      \* the chunk each thread works on, 0 for none
  at,       \* the plane it computes next
  ticks,    \* its plane messages nobody has read
  reply,    \* the chunk of its unread result, 0 for none
  field,    \* the planes sampled
  part,     \* the slabs of the thread's chunk in work or in its reply
  outputs,  \* for each chunk its slabs, as received
  bar       \* the progress reported: the phase and its count

mesher == <<stage, threads, next, owing, job, at, ticks, reply, field, part, outputs, bar>>

Stages == {"off", "started", "loading", "sample", "polygonize", "meshed", "written",
           "exporting", "exported", "leaving", "exited", "died"}
Running == Stages \ {"off", "exited", "died"}
Passes == {"sample", "polygonize"}
Workers == 1 .. MaxThreads
Planes == 0 .. Cells
Slabs == 0 .. Cells - 1
Torn == -1

-----------------------------------------------------------------------------
\* planeChunks: contiguous ascending ranges of planes, numbered from 1.
Count(pass) == IF pass = "sample" THEN Cells + 1 ELSE Cells

ChunkSize(count, k) == (count + k * ChunksPerWorker - 1) \div (k * ChunksPerWorker)
ChunkCountRoundedDown(count, k) == count \div ChunkSize(count, k)
ChunkCount(count, k) == (count + ChunkSize(count, k) - 1) \div ChunkSize(count, k)
From(count, k, i) == (i - 1) * ChunkSize(count, k)
ToOverTheEnd(count, k, i) == i * ChunkSize(count, k)
To(count, k, i) ==
  IF i * ChunkSize(count, k) < count THEN i * ChunkSize(count, k) ELSE count

Chunks(b) == ChunkCount(Count(stage[b]), threads[b])

\* polygonizeCellPlanes on one slab: it reads the planes on both sides.
Slab(b, p) == IF {p, p + 1} \subseteq field[b] THEN p ELSE Torn

\* The slabs of each chunk, in order.
Parts(k) ==
  [i \in 1 .. ChunkCount(Cells, k) |->
    [j \in 1 .. To(Cells, k, i) - From(Cells, k, i) |-> From(Cells, k, i) + j - 1]]

\* concatFloat32 over the outputs.
Mesh(b) == FlattenSeq(outputs[b])

\* The reference: the serial pass over all slabs.
SerialMesh == [j \in 1 .. Cells |-> j - 1]

-----------------------------------------------------------------------------
\* The start of runChunks: a chunk for each thread, as long as there are chunks.
HandOut(b, pass) ==
  LET n == ChunkCount(Count(pass), threads[b])
      busy == {w \in Workers : w <= threads[b] /\ w <= n}
  IN  /\ next' = [next EXCEPT ![b] = IF n < threads[b] THEN n ELSE threads[b]]
      /\ owing' = [owing EXCEPT ![b] = busy]
      /\ job' = [job EXCEPT ![b] = [w \in Workers |-> IF w \in busy THEN w ELSE 0]]
      /\ at' = [at EXCEPT ![b] =
           [w \in Workers |-> IF w \in busy THEN From(Count(pass), threads[b], w) ELSE 0]]

\* w's answer is the last one; in the forms before it, a pass would end too early or never.
NoneLeftToHandOut(b, w) == w \in owing[b]
NoneOwing(b, w) == owing[b] = {}
LastAnswer(b, w) == owing[b] = {w}

\* meshImplicitCadModelParallel: the workers are made and the sample pass starts; or, with one
\* thread, the serial mesher does both passes and the progress of both is reported afterwards.
StartMesh(b) ==
  /\ stage[b] = "loading"
  /\ IF threads[b] = 1
       THEN /\ stage' = [stage EXCEPT ![b] = "meshed"]
            /\ field' = [field EXCEPT ![b] = Planes]
            /\ outputs' = [outputs EXCEPT ![b] = Parts(1)]
            /\ bar' = [bar EXCEPT ![b] = [phase |-> "polygonize", done |-> Cells]]
            /\ UNCHANGED <<next, owing, job, at>>
       ELSE /\ stage' = [stage EXCEPT ![b] = "sample"]
            /\ HandOut(b, "sample")
            /\ outputs' = [outputs EXCEPT ![b] =
                 [i \in 1 .. ChunkCount(Cells, threads[b]) |-> << >>]]
            /\ UNCHANGED <<field, bar>>
  /\ UNCHANGED <<threads, ticks, reply, part>>

\* One plane of the worker's loop; behind the last one it posts its result.
Compute(b, w) ==
  LET p == at[b][w]
      last == p + 1 = To(Count(stage[b]), threads[b], job[b][w])
  IN  /\ stage[b] \in Passes
      /\ job[b][w] # 0
      /\ IF stage[b] = "sample"
           THEN /\ field' = [field EXCEPT ![b] = @ \cup {p}]
                /\ UNCHANGED part
           ELSE /\ part' = [part EXCEPT ![b][w] = Append(@, Slab(b, p))]
                /\ UNCHANGED field
      /\ at' = [at EXCEPT ![b][w] = p + 1]
      /\ ticks' = [ticks EXCEPT ![b][w] = @ + 1]
      /\ reply' = [reply EXCEPT ![b][w] = IF last THEN job[b][w] ELSE 0]
      /\ job' = [job EXCEPT ![b][w] = IF last THEN 0 ELSE @]
      /\ UNCHANGED <<stage, threads, next, owing, outputs, bar>>

\* One unit of progress; the first one of the second pass enters its phase
\* (onPolygonizePlane in implicit-artifact.mjs), in the first form it does not.
AdvancedInPhase(b) == [bar[b] EXCEPT !.done = @ + 1]
Advanced(b) ==
  IF bar[b].phase = stage[b] THEN [bar[b] EXCEPT !.done = @ + 1]
                             ELSE [phase |-> stage[b], done |-> 1]

\* onMessage with "plane".
ReadPlane(b, w) ==
  /\ stage[b] \in Passes
  /\ ticks[b][w] > 0
  /\ ticks' = [ticks EXCEPT ![b][w] = @ - 1]
  /\ bar' = [bar EXCEPT ![b] = Advanced(b)]
  /\ UNCHANGED <<stage, threads, next, owing, job, at, reply, field, part, outputs>>

\* onResult keeps an output at the place of its chunk. The other form takes the next free place.
ReceivedOnArrival(b, i, slabs) ==
  LET free == {c \in DOMAIN outputs[b] : outputs[b][c] = << >>}
  IN  [outputs[b] EXCEPT ![CHOOSE c \in free : \A d \in free : c <= d] = slabs]
Received(b, i, slabs) == [outputs[b] EXCEPT ![i] = slabs]

\* pump: the thread gets the next chunk.
NextChunk(b, w) ==
  /\ next[b] < Chunks(b)
  /\ next' = [next EXCEPT ![b] = @ + 1]
  /\ job' = [job EXCEPT ![b][w] = next[b] + 1]
  /\ at' = [at EXCEPT ![b][w] = From(Count(stage[b]), threads[b], next[b] + 1)]
  /\ UNCHANGED <<owing, stage>>

\* pump: no chunk is left, but other threads owe an answer.
NoChunk(b, w) ==
  /\ next[b] >= Chunks(b)
  /\ ~ LastAnswer(b, w)
  /\ owing' = [owing EXCEPT ![b] = @ \ {w}]
  /\ UNCHANGED <<next, job, at, stage>>

\* finish: the last answer ends the pass; the sample pass is followed by the other one, and the
\* threads are terminated behind that.
Finish(b, w) ==
  /\ next[b] >= Chunks(b)
  /\ LastAnswer(b, w)
  /\ IF stage[b] = "sample"
       THEN stage' = [stage EXCEPT ![b] = "polygonize"] /\ HandOut(b, "polygonize")
       ELSE /\ stage' = [stage EXCEPT ![b] = "meshed"]
            /\ owing' = [owing EXCEPT ![b] = {}]
            /\ UNCHANGED <<next, job, at>>

\* onMessage with "sampled" or "polygonized".
ReadResult(b, w) ==
  /\ stage[b] \in Passes
  /\ ticks[b][w] = 0
  /\ reply[b][w] # 0
  /\ reply' = [reply EXCEPT ![b][w] = 0]
  /\ part' = [part EXCEPT ![b][w] = << >>]
  /\ outputs' = IF stage[b] = "polygonize"
                  THEN [outputs EXCEPT ![b] = Received(b, reply[b][w], part[b][w])]
                  ELSE outputs
  /\ NextChunk(b, w) \/ NoChunk(b, w) \/ Finish(b, w)
  /\ UNCHANGED <<threads, ticks, field, bar>>

MeshStep(b) ==
  \/ StartMesh(b)
  \/ \E w \in Workers : Compute(b, w) \/ ReadPlane(b, w) \/ ReadResult(b, w)

MesherInit ==
  /\ stage = [b \in Builders |-> "off"]
  /\ threads = [b \in Builders |-> 1]
  /\ next = [b \in Builders |-> 0]
  /\ owing = [b \in Builders |-> {}]
  /\ job = [b \in Builders |-> [w \in Workers |-> 0]]
  /\ at = [b \in Builders |-> [w \in Workers |-> 0]]
  /\ ticks = [b \in Builders |-> [w \in Workers |-> 0]]
  /\ reply = [b \in Builders |-> [w \in Workers |-> 0]]
  /\ field = [b \in Builders |-> {}]
  /\ part = [b \in Builders |-> [w \in Workers |-> << >>]]
  /\ outputs = [b \in Builders |-> << >>]
  /\ bar = [b \in Builders |-> [phase |-> "none", done |-> 0]]
=============================================================================
