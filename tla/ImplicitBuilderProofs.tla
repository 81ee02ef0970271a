------------------------ MODULE ImplicitBuilderProofs ------------------------
(* What holds of ImplicitBuilder and its mesher for every set of builds, every grid, every
   number of threads and chunks. *)
EXTENDS ImplicitBuilder, TLAPS

\* The points of a producer at which its child may run.
Attending == {"spawned", "reading", "escaping"}

\* What the steps of a build keep of its lock, its package and its child.
BuildInv ==
  /\ \A b \in Builders : pc[b] \in Locked <=> lock = b
  /\ \A b \in Builders : stage[b] \in Running => pc[b] \in Attending \cup {"gone"}
  /\ \A b \in Builders : pc[b] \in {"new", "locked", "opened"} => stage[b] = "off"
  /\ \A b \in Builders : pc[b] \in Attending \cup {"opened", "describing"} => descriptor = None
  /\ \A b \in Builders :
       \/ pc[b] = "describing"
       \/ pc[b] \in Attending
          /\ stage[b] \in {"written", "exporting", "exported", "leaving", "exited"}
       => payload = b \/ (payload # None /\ pc[payload] = "gone")
  /\ DescriptorMatchesPayload

\* The plane is sampled, or the thread that has its chunk is still before it.
Covered(b, i, p) == p \in field[b] \/ \E w \in Workers : job[b][w] = i /\ at[b][w] <= p

\* The chunks of a pass: each is handed out once at most, in the hands of a thread that owes
\* an answer, or answered; and behind an answer its planes are sampled.
PassInv(b) ==
  LET n == ChunkCount(Count(stage[b]), threads[b]) IN
  /\ next[b] <= n
  /\ \A w \in Workers : job[b][w] # 0 \/ reply[b][w] # 0 => w \in owing[b]
  /\ \A w \in Workers : job[b][w] # 0 =>
       /\ reply[b][w] = 0
       /\ job[b][w] <= n
       /\ From(Count(stage[b]), threads[b], job[b][w]) <= at[b][w]
       /\ at[b][w] < To(Count(stage[b]), threads[b], job[b][w])
  /\ stage[b] = "sample" =>
       \A i \in 1 .. next[b], p \in Planes :
         From(Count("sample"), threads[b], i) <= p /\ p < To(Count("sample"), threads[b], i)
           => Covered(b, i, p)
  /\ stage[b] = "polygonize" => field[b] = Planes

MeshInv ==
  \A b \in Builders :
    /\ stage[b] \in Passes => PassInv(b)
    /\ stage[b] \in {"off", "started", "loading"} => \A w \in Workers : reply[b][w] = 0

IInv == TypeOK /\ BuildInv /\ MeshInv

-----------------------------------------------------------------------------
\* Chunks have planes, and there is at least one chunk.
LEMMA ChunkSizes ==
  ASSUME NEW count \in Nat \ {0}, NEW k \in Nat \ {0}
  PROVE  /\ ChunkSize(count, k) \in Nat \ {0}
         /\ ChunkCount(count, k) \in Nat \ {0}
<1> DEFINE m == k * ChunksPerWorker
           s == ChunkSize(count, k)
<1>1. m \in Nat \ {0}
  BY MesherAssumption
<1>2. s = (count + m - 1) \div m
  BY DEF ChunkSize
<1> HIDE DEF m, s
<1>3. s \in Nat \ {0}
  <2>1. count + m - 1 \in Nat /\ count + m - 1 >= m
    BY <1>1
  <2> QED
    BY <2>1, <1>1, <1>2
<1>4. count + s - 1 \in Nat /\ count + s - 1 >= s
  BY <1>3
<1>5. (count + s - 1) \div s \in Nat \ {0}
  BY <1>3, <1>4
<1> QED
  BY <1>3, <1>5 DEF s, ChunkCount

\* Every chunk is a non-empty range of the planes counted.
LEMMA ChunkRange ==
  ASSUME NEW count \in Nat \ {0}, NEW k \in Nat \ {0}, NEW i \in 1 .. ChunkCount(count, k)
  PROVE  /\ From(count, k, i) \in Nat
         /\ To(count, k, i) \in Nat
         /\ From(count, k, i) < To(count, k, i)
         /\ To(count, k, i) <= count
<1> DEFINE s == ChunkSize(count, k)
           n == ChunkCount(count, k)
<1>1. s \in Nat \ {0} /\ n \in Nat \ {0}
  BY ChunkSizes
<1>2. n = (count + s - 1) \div s
  BY DEF ChunkCount
<1>3. From(count, k, i) = (i - 1) * s
  BY DEF From
<1>4. To(count, k, i) = IF i * s < count THEN i * s ELSE count
  BY DEF To
<1>5. i \in 1 .. n
  OBVIOUS
<1> HIDE DEF s, n
<1>6. n * s <= count + s - 1
  BY <1>1, <1>2
<1>7. i * s <= n * s
  BY <1>1, <1>5
<1>8. (i - 1) * s = i * s - s /\ i * s \in Nat /\ i * s >= s
  BY <1>1, <1>5
<1>10. (i - 1) * s < count
  BY <1>1, <1>6, <1>7, <1>8
<1> QED
  BY <1>1, <1>3, <1>4, <1>8, <1>10

\* No plane is left out.
LEMMA ChunksCover ==
  ASSUME NEW count \in Nat \ {0}, NEW k \in Nat \ {0}, NEW p \in 0 .. count - 1
  PROVE  \E i \in 1 .. ChunkCount(count, k) : From(count, k, i) <= p /\ p < To(count, k, i)
<1> DEFINE s == ChunkSize(count, k)
           n == ChunkCount(count, k)
           q == p \div s
<1>1. s \in Nat \ {0} /\ n \in Nat \ {0}
  BY ChunkSizes
<1>2. n = (count + s - 1) \div s
  BY DEF ChunkCount
<1> HIDE DEF s, n
<1>3. q \in Nat /\ q * s <= p /\ p < q * s + s
  BY <1>1
<1> HIDE DEF q
<1>4. count < n * s + s /\ count <= n * s
  BY <1>1, <1>2
<1>5. q < n
  <2>1. q * s < n * s
    BY <1>1, <1>3, <1>4
  <2> QED
    BY <2>1, <1>1, <1>3
<1>6. q + 1 \in 1 .. n
  BY <1>1, <1>3, <1>5
<1>7. From(count, k, q + 1) = q * s
  BY <1>3 DEF From, s
<1>8. To(count, k, q + 1) = IF (q + 1) * s < count THEN (q + 1) * s ELSE count
  BY DEF To, s
<1>9. (q + 1) * s = q * s + s
  BY <1>1, <1>3
<1>10. From(count, k, q + 1) <= p /\ p < To(count, k, q + 1)
  BY <1>3, <1>7, <1>8, <1>9
<1> QED
  BY <1>6, <1>10 DEF n

-----------------------------------------------------------------------------
LEMMA CountFacts ==
  /\ Count("sample") = Cells + 1 /\ Count("polygonize") = Cells
  /\ \A pass \in Passes : Count(pass) \in Nat \ {0}
  /\ \A k \in Workers : k \in Nat \ {0}
BY MesherAssumption DEF Count, Passes, Workers

\* The first chunks of a pass: none is answered, and all of their planes are still to come.
LEMMA HandOutPasses ==
  ASSUME TypeOK, NEW b \in Builders, NEW pass \in Passes, HandOut(b, pass),
         threads' = threads, stage' = [stage EXCEPT ![b] = pass],
         \A w \in Workers : reply'[b][w] = 0,
         pass = "polygonize" => field'[b] = Planes
  PROVE  PassInv(b)'
<1> DEFINE k == threads[b]
           n == ChunkCount(Count(pass), k)
           busy == {w \in Workers : w <= k /\ w <= n}
<1>1. k \in Nat \ {0} /\ k \in Workers /\ n \in Nat \ {0} /\ Count(pass) \in Nat \ {0}
  BY CountFacts, ChunkSizes DEF TypeOK
<1>2. /\ stage'[b] = pass /\ threads'[b] = k
      /\ next'[b] = IF n < k THEN n ELSE k
      /\ owing'[b] = busy
      /\ job'[b] = [w \in Workers |-> IF w \in busy THEN w ELSE 0]
      /\ at'[b] = [w \in Workers |-> IF w \in busy THEN From(Count(pass), k, w) ELSE 0]
  BY DEF HandOut, TypeOK
<1>3. \A w \in busy : w \in 1 .. n /\ w \in Workers
  BY <1>1 DEF Workers
<1>4. \A w \in busy : /\ From(Count(pass), k, w) \in Nat
                      /\ From(Count(pass), k, w) < To(Count(pass), k, w)
  BY <1>1, <1>3, ChunkRange
<1> HIDE DEF n, busy
<1>5. \A w \in Workers :
        /\ job'[b][w] # 0 => w \in busy /\ job'[b][w] = w /\ at'[b][w] = From(Count(pass), k, w)
        /\ w \in busy => job'[b][w] = w /\ at'[b][w] = From(Count(pass), k, w)
  BY <1>2, <1>3, MesherAssumption DEF Workers
<1>6. next'[b] <= n
  BY <1>1, <1>2
<1>7. \A w \in Workers : job'[b][w] # 0 \/ reply'[b][w] # 0 => w \in owing'[b]
  BY <1>2, <1>5
<1>8. \A w \in Workers : job'[b][w] # 0 =>
        /\ reply'[b][w] = 0
        /\ job'[b][w] <= n
        /\ From(Count(pass), k, job'[b][w]) <= at'[b][w]
        /\ at'[b][w] < To(Count(pass), k, job'[b][w])
  BY <1>1, <1>3, <1>4, <1>5
<1>9. ASSUME NEW i \in 1 .. next'[b], NEW p \in Planes, From(Count(pass), k, i) <= p
      PROVE  Covered(b, i, p)'
  <2>1. i \in busy /\ i \in Workers
    <3>1. i \in Nat /\ 1 <= i /\ i <= n /\ i <= k
      BY <1>1, <1>2
    <3> QED
      BY <3>1, <1>1, MesherAssumption DEF busy, Workers
  <2> QED
    BY <2>1, <1>5, <1>9 DEF Covered
<1> QED
  BY <1>2, <1>6, <1>7, <1>8, <1>9 DEF PassInv, n

-----------------------------------------------------------------------------
\* Where a thread with a chunk is.
LEMMA AtPlane ==
  ASSUME TypeOK, NEW b \in Builders, stage[b] \in Passes, PassInv(b),
         NEW w \in Workers, job[b][w] # 0
  PROVE  /\ at[b][w] \in 0 .. Count(stage[b]) - 1
         /\ job[b][w] \in 1 .. Chunks(b)
         /\ at[b][w] + 1 <= To(Count(stage[b]), threads[b], job[b][w])
<1> DEFINE c == Count(stage[b])
           k == threads[b]
           i == job[b][w]
<1>1. c \in Nat \ {0} /\ k \in Nat \ {0} /\ i \in Nat /\ at[b][w] \in Nat
  BY CountFacts DEF TypeOK
<1>2. i \in 1 .. ChunkCount(c, k) /\ at[b][w] < To(c, k, i)
  BY <1>1, ChunkSizes DEF PassInv
<1>3. To(c, k, i) \in Nat /\ To(c, k, i) <= c
  BY <1>1, <1>2, ChunkRange
<1> QED
  BY <1>1, <1>2, <1>3 DEF Chunks

\* A change of one thread's entry.
LEMMA EntryType ==
  ASSUME NEW S, NEW f \in [Builders -> [Workers -> S]], NEW b \in Builders, NEW w \in Workers,
         NEW v \in S
  PROVE  [f EXCEPT ![b][w] = v] \in [Builders -> [Workers -> S]]
OBVIOUS

LEMMA HandOutTypes ==
  ASSUME TypeOK, NEW b \in Builders, NEW pass \in Passes, HandOut(b, pass)
  PROVE  /\ next' \in [Builders -> Nat]
         /\ owing' \in [Builders -> SUBSET Workers]
         /\ job' \in [Builders -> [Workers -> Nat]]
         /\ at' \in [Builders -> [Workers -> Nat]]
<1> DEFINE k == threads[b]
           n == ChunkCount(Count(pass), k)
           busy == {w \in Workers : w <= k /\ w <= n}
<1>1. k \in Nat \ {0} /\ n \in Nat \ {0} /\ Count(pass) \in Nat \ {0}
  BY CountFacts, ChunkSizes DEF TypeOK
<1>2. busy \subseteq Workers /\ \A w \in busy : w \in 1 .. n /\ w \in Nat
  BY <1>1 DEF Workers
<1>3. \A w \in busy : From(Count(pass), k, w) \in Nat
  BY <1>1, <1>2, ChunkRange
<1>4. /\ next' = [next EXCEPT ![b] = IF n < k THEN n ELSE k]
      /\ owing' = [owing EXCEPT ![b] = busy]
      /\ job' = [job EXCEPT ![b] = [w \in Workers |-> IF w \in busy THEN w ELSE 0]]
      /\ at' = [at EXCEPT ![b] = [w \in Workers |-> IF w \in busy THEN From(Count(pass), k, w) ELSE 0]]
  BY DEF HandOut
<1> HIDE DEF n, busy
<1>5. [w \in Workers |-> IF w \in busy THEN w ELSE 0] \in [Workers -> Nat]
  BY <1>2
<1>6. [w \in Workers |-> IF w \in busy THEN From(Count(pass), k, w) ELSE 0] \in [Workers -> Nat]
  BY <1>3
<1> QED
  BY <1>1, <1>2, <1>4, <1>5, <1>6 DEF TypeOK

\* A sequence keeps its length when one place gets another element.
LEMMA ReplaceType ==
  ASSUME NEW S, NEW f \in Seq(S), NEW i, NEW v \in S
  PROVE  [f EXCEPT ![i] = v] \in Seq(S) /\ Len([f EXCEPT ![i] = v]) = Len(f)
<1> DEFINE n == Len(f)
           h == [j \in 1 .. n |-> IF j = i THEN v ELSE f[j]]
<1>1. n \in Nat /\ DOMAIN f = 1 .. n /\ \A j \in 1 .. n : f[j] \in S
  OBVIOUS
<1>2. [f EXCEPT ![i] = v] = h
  BY <1>1
<1> HIDE DEF n
<1>3. h \in Seq(S) /\ Len(h) = n
  BY <1>1
<1> QED
  BY <1>2, <1>3 DEF n

Made == Seq(Seq(Slabs \cup {Torn}))

\* The slabs of a chunk are slabs of the grid.
LEMMA PartsType ==
  ASSUME NEW k \in Nat \ {0}
  PROVE  /\ Parts(k) \in Made
         /\ Len(Parts(k)) = ChunkCount(Cells, k)
<1> DEFINE n == ChunkCount(Cells, k)
           f(i) == From(Cells, k, i)
           m(i) == To(Cells, k, i) - f(i)
           e(i) == [j \in 1 .. m(i) |-> f(i) + j - 1]
<1>1. Cells \in Nat \ {0} /\ n \in Nat \ {0}
  BY MesherAssumption, ChunkSizes
<1>2. ASSUME NEW i \in 1 .. n
      PROVE  e(i) \in Seq(Slabs \cup {Torn})
  <2>1. f(i) \in Nat /\ m(i) \in Nat /\ f(i) + m(i) <= Cells
    BY <1>1, ChunkRange
  <2> HIDE DEF f, m
  <2>2. \A j \in 1 .. m(i) : f(i) + j - 1 \in Slabs
    BY <1>1, <2>1 DEF Slabs
  <2> QED
    BY <2>1, <2>2
<1>3. Parts(k) = [i \in 1 .. n |-> e(i)]
  BY DEF Parts
<1> HIDE DEF n, f, m, e
<1>4. Parts(k) \in Seq(Seq(Slabs \cup {Torn})) /\ Len(Parts(k)) = n
  BY <1>1, <1>2, <1>3
<1> QED
  BY <1>4 DEF Made, n

LEMMA StartMeshTypes ==
  ASSUME TypeOK, NEW b \in Builders, StartMesh(b), UNCHANGED producer
  PROVE  TypeOK'
<1>1. CASE threads[b] = 1
  <2>1. /\ stage' = [stage EXCEPT ![b] = "meshed"] /\ field' = [field EXCEPT ![b] = Planes]
        /\ bar' = [bar EXCEPT ![b] = [phase |-> "polygonize", done |-> Cells]]
        /\ outputs' = [outputs EXCEPT ![b] = Parts(1)]
        /\ UNCHANGED <<threads, next, owing, job, at, ticks, reply, part>>
    BY <1>1 DEF StartMesh
  <2>2. [phase |-> "polygonize", done |-> Cells]
          \in [phase : Passes \cup {"none", "weld", "write"}, done : Nat]
    BY MesherAssumption DEF Passes
  <2>3. stage' \in [Builders -> Stages] /\ field' \in [Builders -> SUBSET Planes]
    BY <2>1 DEF TypeOK, Stages
  <2>4. bar' \in [Builders -> [phase : Passes \cup {"none", "weld", "write"}, done : Nat]]
    BY <2>1, <2>2 DEF TypeOK
  <2>5. outputs' \in [Builders -> Made]
    <3>1. Parts(1) \in Made
      BY PartsType
    <3> QED
      BY <2>1, <3>1 DEF TypeOK, Made
  <2> QED
    BY <2>1, <2>3, <2>4, <2>5 DEF TypeOK, producer, Made
<1>2. CASE threads[b] # 1
  <2>1. HandOut(b, "sample") /\ stage' = [stage EXCEPT ![b] = "sample"] /\ field' = field /\ bar' = bar
    BY <1>2 DEF StartMesh
  <2>2. /\ next' \in [Builders -> Nat]
        /\ owing' \in [Builders -> SUBSET Workers]
        /\ job' \in [Builders -> [Workers -> Nat]]
        /\ at' \in [Builders -> [Workers -> Nat]]
    BY <2>1, HandOutTypes DEF Passes
  <2>3. outputs' \in [Builders -> Made]
    <3> DEFINE n == ChunkCount(Cells, threads[b])
    <3>1. n \in Nat
      <4>1. threads[b] \in Nat \ {0} /\ Cells \in Nat \ {0}
        BY CountFacts, MesherAssumption DEF TypeOK
      <4> QED
        BY <4>1, ChunkSizes
    <3> HIDE DEF n
    <3>2. [i \in 1 .. n |-> << >>] \in Made
      BY <3>1 DEF Made
    <3>3. outputs' = [outputs EXCEPT ![b] = [i \in 1 .. n |-> << >>]]
      BY <1>2 DEF StartMesh, n
    <3> QED
      BY <3>2, <3>3 DEF TypeOK, Made
  <2> QED
    BY <1>2, <2>1, <2>2, <2>3 DEF StartMesh, TypeOK, producer, Stages, Made
<1> QED
  BY <1>1, <1>2

LEMMA ComputeTypes ==
  ASSUME TypeOK, MeshInv, NEW b \in Builders, NEW w \in Workers, Compute(b, w),
         UNCHANGED producer
  PROVE  TypeOK'
<1> DEFINE p == at[b][w]
<1>1. stage[b] \in Passes /\ job[b][w] # 0 /\ PassInv(b)
  BY DEF Compute, MeshInv
<1>2. p \in 0 .. Count(stage[b]) - 1
  BY <1>1, AtPlane
<1>3. stage[b] = "sample" => p \in Planes
  BY <1>2, CountFacts, MesherAssumption DEF Planes
<1>4. stage[b] = "polygonize" => p \in Slabs
  BY <1>2, CountFacts, MesherAssumption DEF Slabs
<1>5. field' \in [Builders -> SUBSET Planes]
  <2>1. field \in [Builders -> SUBSET Planes]
    BY DEF TypeOK
  <2>2. stage[b] = "sample" => field[b] \cup {p} \in SUBSET Planes
    BY <1>3, <2>1
  <2>3. IF stage[b] = "sample" THEN field' = [field EXCEPT ![b] = field[b] \cup {p}]
                              ELSE field' = field
    BY DEF Compute
  <2> QED
    BY <2>1, <2>2, <2>3
<1>6. part' \in [Builders -> [Workers -> Seq(Slabs \cup {Torn})]]
  <2>1. CASE stage[b] = "sample"
    BY <2>1 DEF Compute, TypeOK
  <2>2. CASE stage[b] = "polygonize"
    <3>1. Slab(b, p) \in Slabs \cup {Torn}
      BY <1>4, <2>2 DEF Slab
    <3>2. part[b][w] \in Seq(Slabs \cup {Torn})
      BY DEF TypeOK
    <3>3. Append(part[b][w], Slab(b, p)) \in Seq(Slabs \cup {Torn})
      BY <3>1, <3>2
    <3>4. part' = [part EXCEPT ![b][w] = Append(@, Slab(b, p))]
      BY <2>2 DEF Compute
    <3> QED
      BY <3>3, <3>4, EntryType DEF TypeOK
  <2> QED
    BY <1>1, <2>1, <2>2 DEF Passes
<1>7. /\ at' \in [Builders -> [Workers -> Nat]] /\ ticks' \in [Builders -> [Workers -> Nat]]
      /\ reply' \in [Builders -> [Workers -> Nat]] /\ job' \in [Builders -> [Workers -> Nat]]
  <2>1. /\ at \in [Builders -> [Workers -> Nat]] /\ ticks \in [Builders -> [Workers -> Nat]]
        /\ reply \in [Builders -> [Workers -> Nat]] /\ job \in [Builders -> [Workers -> Nat]]
    BY DEF TypeOK
  <2>2. p + 1 \in Nat /\ ticks[b][w] + 1 \in Nat /\ job[b][w] \in Nat
    BY <2>1
  <2>3. PICK last \in BOOLEAN :
          /\ at' = [at EXCEPT ![b][w] = p + 1]
          /\ ticks' = [ticks EXCEPT ![b][w] = ticks[b][w] + 1]
          /\ reply' = [reply EXCEPT ![b][w] = IF last THEN job[b][w] ELSE 0]
          /\ job' = [job EXCEPT ![b][w] = IF last THEN 0 ELSE job[b][w]]
    BY DEF Compute
  <2>4. (IF last THEN job[b][w] ELSE 0) \in Nat /\ (IF last THEN 0 ELSE job[b][w]) \in Nat
    BY <2>2
  <2>5. at' \in [Builders -> [Workers -> Nat]] /\ ticks' \in [Builders -> [Workers -> Nat]]
    BY <2>1, <2>2, <2>3, EntryType
  <2>6. reply' \in [Builders -> [Workers -> Nat]] /\ job' \in [Builders -> [Workers -> Nat]]
    BY <2>1, <2>3, <2>4, EntryType
  <2> QED
    BY <2>5, <2>6
<1> QED
  BY <1>5, <1>6, <1>7 DEF Compute, TypeOK, producer

LEMMA ReadPlaneTypes ==
  ASSUME TypeOK, NEW b \in Builders, NEW w \in Workers, ReadPlane(b, w), UNCHANGED producer
  PROVE  TypeOK'
<1>1. bar' \in [Builders -> [phase : Passes \cup {"none", "weld", "write"}, done : Nat]]
  <2> DEFINE Bars == [phase : Passes \cup {"none", "weld", "write"}, done : Nat]
  <2>1. bar \in [Builders -> Bars] /\ bar[b] \in Bars /\ stage[b] \in Passes
    BY DEF ReadPlane, TypeOK
  <2>2. Advanced(b) \in Bars
    BY <2>1 DEF Advanced
  <2> QED
    BY <2>1, <2>2 DEF ReadPlane
<1>2. ticks' \in [Builders -> [Workers -> Nat]]
  <2>1. ticks \in [Builders -> [Workers -> Nat]] /\ ticks[b][w] \in Nat /\ ticks[b][w] > 0
    BY DEF ReadPlane, TypeOK
  <2>2. ticks[b][w] - 1 \in Nat
    BY <2>1
  <2>3. ticks' = [ticks EXCEPT ![b][w] = ticks[b][w] - 1]
    BY DEF ReadPlane
  <2> QED
    BY <2>1, <2>2, <2>3, EntryType
<1> QED
  BY <1>1, <1>2 DEF ReadPlane, TypeOK, producer

LEMMA ReadResultTypes ==
  ASSUME TypeOK, NEW b \in Builders, NEW w \in Workers, ReadResult(b, w), UNCHANGED producer
  PROVE  TypeOK'
<1>1. /\ reply' \in [Builders -> [Workers -> Nat]]
      /\ part' \in [Builders -> [Workers -> Seq(Slabs \cup {Torn})]]
  <2>1. /\ reply \in [Builders -> [Workers -> Nat]]
        /\ part \in [Builders -> [Workers -> Seq(Slabs \cup {Torn})]]
    BY DEF TypeOK
  <2>2. reply' = [reply EXCEPT ![b][w] = 0] /\ part' = [part EXCEPT ![b][w] = << >>]
    BY DEF ReadResult
  <2>3. << >> \in Seq(Slabs \cup {Torn}) /\ 0 \in Nat
    OBVIOUS
  <2> QED
    BY <2>1, <2>2, <2>3, EntryType
<1>2. /\ next' \in [Builders -> Nat]
      /\ owing' \in [Builders -> SUBSET Workers]
      /\ job' \in [Builders -> [Workers -> Nat]]
      /\ at' \in [Builders -> [Workers -> Nat]]
      /\ stage' \in [Builders -> Stages]
  <2>1. CASE NextChunk(b, w)
    <3>1. Count(stage[b]) \in Nat \ {0} /\ threads[b] \in Nat \ {0} /\ stage[b] \in Passes
      BY CountFacts DEF ReadResult, TypeOK
    <3>2. next[b] + 1 \in 1 .. Chunks(b) /\ next[b] + 1 \in Nat
      <4>1. next[b] \in Nat /\ next[b] < Chunks(b)
        BY <2>1 DEF NextChunk, TypeOK
      <4>2. Chunks(b) \in Nat
        BY <3>1, ChunkSizes DEF Chunks
      <4> QED
        BY <4>1, <4>2
    <3>3. From(Count(stage[b]), threads[b], next[b] + 1) \in Nat
      BY <3>1, <3>2, ChunkRange DEF Chunks
    <3>4. job \in [Builders -> [Workers -> Nat]] /\ at \in [Builders -> [Workers -> Nat]]
      BY DEF TypeOK
    <3>5. job' \in [Builders -> [Workers -> Nat]] /\ at' \in [Builders -> [Workers -> Nat]]
      BY <2>1, <3>2, <3>3, <3>4, EntryType DEF NextChunk
    <3>6. next' = [next EXCEPT ![b] = next[b] + 1] /\ UNCHANGED <<owing, stage>>
      BY <2>1 DEF NextChunk
    <3> QED
      BY <3>2, <3>5, <3>6 DEF TypeOK
  <2>2. CASE NoChunk(b, w)
    BY <2>2 DEF NoChunk, TypeOK
  <2>3. CASE Finish(b, w)
    <3>1. CASE stage[b] = "sample"
      BY <2>3, <3>1, HandOutTypes DEF Finish, TypeOK, Passes, Stages
    <3>2. CASE stage[b] # "sample"
      BY <2>3, <3>2 DEF Finish, TypeOK, Stages
    <3> QED
      BY <3>1, <3>2
  <2> QED
    BY <2>1, <2>2, <2>3 DEF ReadResult
<1>3. outputs' \in [Builders -> Made]
  <2> DEFINE i == reply[b][w]
             o == outputs[b]
  <2>1. /\ outputs \in [Builders -> Made]
        /\ part \in [Builders -> [Workers -> Seq(Slabs \cup {Torn})]]
    BY DEF TypeOK, Made
  <2>2. outputs' = outputs \/ outputs' = [outputs EXCEPT ![b] = [o EXCEPT ![i] = part[b][w]]]
    BY DEF ReadResult, Received
  <2>4. o \in Made /\ part[b][w] \in Seq(Slabs \cup {Torn})
    BY <2>1
  <2> HIDE DEF o, i
  <2>3. [o EXCEPT ![i] = part[b][w]] \in Made
    BY <2>4, ReplaceType DEF Made
  <2> QED
    BY <2>1, <2>2, <2>3
<1> QED
  BY <1>1, <1>2, <1>3 DEF ReadResult, TypeOK, producer, Made

LEMMA MeshTypes ==
  ASSUME TypeOK, MeshInv, NEW b \in Builders, MeshStep(b), UNCHANGED producer
  PROVE  TypeOK'
BY StartMeshTypes, ComputeTypes, ReadPlaneTypes, ReadResultTypes DEF MeshStep

\* The steps outside the mesh.
LEMMA BuildTypes ==
  ASSUME TypeOK, NEW b \in Builders,
         \/ CheckLock(b) \/ WritePayload(b) \/ OpenExport(b) \/ WriteExport(b)
         \/ ReportResult(b) \/ Exit(b) \/ ChildFails(b)
         \/ ProducerStep(b) \/ Interrupt(b) \/ Kill(b) \/ Edit
  PROVE  TypeOK'
<1> USE DEF Becomes, Go, Stages, Points, producer, package, mesh, mesher
<1>1. CASE CheckLock(b)
  <2>1. bar' \in [Builders -> [phase : Passes \cup {"none", "weld", "write"}, done : Nat]]
    BY <1>1 DEF CheckLock, TypeOK, Passes
  <2> QED
    BY <1>1, <2>1 DEF CheckLock, TypeOK
<1>2. CASE WritePayload(b)
  <2>1. bar' \in [Builders -> [phase : Passes \cup {"none", "weld", "write"}, done : Nat]]
    BY <1>2 DEF WritePayload, TypeOK, Passes
  <2> QED
    BY <1>2, <2>1 DEF WritePayload, TypeOK
<1>3. CASE OpenExport(b)
  BY <1>3 DEF OpenExport, TypeOK
<1>4. CASE WriteExport(b)
  BY <1>4 DEF WriteExport, TypeOK
<1>5. CASE ReportResult(b) \/ Exit(b) \/ ChildFails(b)
  BY <1>5 DEF ReportResult, Exit, ChildFails, TypeOK
<1>6. CASE Acquire(b) \/ Contended(b)
  BY <1>6 DEF Acquire, Contended, TypeOK
<1>7. CASE Skip(b) \/ OpenPackage(b)
  BY <1>7 DEF Skip, OpenPackage, DropDescriptor, TypeOK
<1>8. CASE Spawn(b)
  <2>1. stage' \in [Builders -> Stages] /\ threads' \in [Builders -> Workers]
        /\ pc' \in [Builders -> Points]
    BY <1>8 DEF Spawn, TypeOK
  <2> QED
    BY <1>8, <2>1 DEF Spawn, TypeOK
<1>9. CASE Attend(b) \/ TakeResult(b) \/ ChildFailed(b)
  BY <1>9 DEF Attend, TakeResult, ChildFailed, TypeOK
<1>10. CASE WriteDescriptor(b) \/ Release(b)
  BY <1>10 DEF WriteDescriptor, Release, TypeOK
<1>11. CASE Interrupt(b) \/ Kill(b) \/ Edit
  BY <1>11 DEF Interrupt, KillChild, Kill, Edit, TypeOK
<1> QED
  BY <1>1, <1>2, <1>3, <1>4, <1>5, <1>6, <1>7, <1>8, <1>9, <1>10, <1>11 DEF ProducerStep

-----------------------------------------------------------------------------
\* Sampling a plane, or taking a slab further, keeps the pass.
LEMMA ComputePasses ==
  ASSUME TypeOK, NEW b \in Builders, stage[b] \in Passes, PassInv(b), NEW w \in Workers,
         Compute(b, w)
  PROVE  PassInv(b)'
<1> DEFINE c == Count(stage[b])
           k == threads[b]
           n == ChunkCount(c, k)
           p == at[b][w]
           last == p + 1 = To(c, k, job[b][w])
<1>1. /\ UNCHANGED <<stage, threads, next, owing>>
      /\ job[b][w] # 0 /\ reply[b][w] = 0 /\ w \in owing[b]
  BY DEF Compute, PassInv
<1>2. /\ p \in 0 .. c - 1 /\ p + 1 <= To(c, k, job[b][w])
      /\ job[b][w] \in 1 .. Chunks(b)
  BY <1>1, AtPlane
<1>3. /\ From(c, k, job[b][w]) \in Nat /\ To(c, k, job[b][w]) \in Nat
      /\ c \in Nat \ {0} /\ k \in Nat \ {0}
  BY <1>2, ChunkRange, CountFacts DEF Chunks, TypeOK
<1>4. \A v \in Workers :
        /\ at'[b][v] = IF v = w THEN p + 1 ELSE at[b][v]
        /\ reply'[b][v] = IF v = w THEN (IF last THEN job[b][w] ELSE 0) ELSE reply[b][v]
        /\ job'[b][v] = IF v = w THEN (IF last THEN 0 ELSE job[b][w]) ELSE job[b][v]
  BY DEF Compute, TypeOK
<1>5. \A v \in Workers : job'[b][v] # 0 \/ reply'[b][v] # 0 => v \in owing[b]
  BY <1>1, <1>4 DEF PassInv
<1>6. ASSUME NEW v \in Workers, job'[b][v] # 0
      PROVE  /\ reply'[b][v] = 0 /\ job'[b][v] <= n
             /\ From(c, k, job'[b][v]) <= at'[b][v] /\ at'[b][v] < To(c, k, job'[b][v])
  <2>1. CASE v # w
    BY <1>4, <1>6, <2>1 DEF PassInv
  <2>2. CASE v = w
    <3>1. ~ last /\ job'[b][v] = job[b][w] /\ at'[b][v] = p + 1 /\ reply'[b][v] = 0
      BY <1>4, <1>6, <2>2
    <3>2. From(c, k, job[b][w]) <= p /\ job[b][w] <= n
      BY <1>1 DEF PassInv
    <3> QED
      BY <3>1, <3>2, <1>2, <1>3
  <2> QED
    BY <2>1, <2>2
<1>7. ASSUME stage[b] = "sample", NEW i \in 1 .. next[b], NEW q \in Planes,
             From(c, k, i) <= q, q < To(c, k, i)
      PROVE  Covered(b, i, q)'
  <2>1. Covered(b, i, q)
    BY <1>7 DEF PassInv
  <2>2. field'[b] = field[b] \cup {p}
    BY <1>7 DEF Compute, TypeOK
  <2>3. CASE q \in field[b] \/ q = p
    BY <2>2, <2>3 DEF Covered
  <2>4. CASE q # p /\ \E v \in Workers : job[b][v] = i /\ at[b][v] <= q
    <3>1. PICK v \in Workers : job[b][v] = i /\ at[b][v] <= q
      BY <2>4
    <3>2. CASE v # w
      BY <3>1, <3>2, <1>4 DEF Covered
    <3>3. CASE v = w
      <4>1. p + 1 <= q /\ q \in Nat
        BY <3>1, <3>3, <2>4, <1>2, MesherAssumption DEF Planes
      <4>2. ~ last
        BY <4>1, <3>1, <3>3, <1>2, <1>3, <1>7
      <4> QED
        BY <4>1, <4>2, <3>1, <3>3, <1>4 DEF Covered
    <3> QED
      BY <3>2, <3>3
  <2> QED
    BY <2>1, <2>3, <2>4 DEF Covered
<1>8. stage[b] = "polygonize" => field'[b] = Planes
  BY DEF Compute, PassInv
<1>9. next[b] <= n
  BY DEF PassInv
<1> QED
  BY <1>1, <1>5, <1>6, <1>7, <1>8, <1>9 DEF PassInv

\* The last answer of the sample pass: every plane is sampled.
LEMMA AllSampled ==
  ASSUME TypeOK, NEW b \in Builders, stage[b] = "sample", PassInv(b),
         next[b] >= Chunks(b), \A w \in Workers : job[b][w] = 0
  PROVE  field[b] = Planes
<1> DEFINE k == threads[b]
<1>1. k \in Nat \ {0} /\ Count("sample") = Cells + 1 /\ Cells + 1 \in Nat \ {0}
  BY CountFacts, MesherAssumption DEF TypeOK
<1>2. next[b] = ChunkCount(Cells + 1, k)
  <2>1. Chunks(b) = ChunkCount(Cells + 1, k)
    BY <1>1 DEF Chunks
  <2>2. next[b] <= Chunks(b)
    BY DEF PassInv, Chunks
  <2>3. next[b] \in Nat /\ Chunks(b) \in Nat
    BY <1>1, <2>1, ChunkSizes DEF TypeOK
  <2> QED
    BY <2>1, <2>2, <2>3
<1>3. ASSUME NEW p \in Planes PROVE p \in field[b]
  <2>1. p \in 0 .. (Cells + 1) - 1
    BY MesherAssumption DEF Planes
  <2>2. PICK i \in 1 .. ChunkCount(Cells + 1, k) : From(Cells + 1, k, i) <= p /\ p < To(Cells + 1, k, i)
    BY <1>1, <2>1, ChunksCover
  <2>3. Covered(b, i, p) /\ i # 0
    BY <1>1, <1>2, <2>2 DEF PassInv
  <2> QED
    BY <2>3 DEF Covered
<1> QED
  BY <1>3 DEF TypeOK

\* An answer is read: the thread gets the next chunk, or the pass goes on without it, or ends.
LEMMA ReadResultPasses ==
  ASSUME TypeOK, NEW b \in Builders, stage[b] \in Passes, PassInv(b), NEW w \in Workers,
         ReadResult(b, w)
  PROVE  stage'[b] \in Passes => PassInv(b)'
<1> DEFINE c == Count(stage[b])
           k == threads[b]
           n == ChunkCount(c, k)
<1>1. /\ reply[b][w] # 0 /\ job[b][w] = 0 /\ w \in owing[b]
      /\ UNCHANGED <<threads, field>>
  BY DEF ReadResult, PassInv
<1>2. \A v \in Workers : reply'[b][v] = IF v = w THEN 0 ELSE reply[b][v]
  BY DEF ReadResult, TypeOK
<1>3. c \in Nat \ {0} /\ k \in Nat \ {0} /\ n \in Nat \ {0} /\ next[b] \in Nat
  BY CountFacts, ChunkSizes DEF TypeOK
<1>4. CASE NextChunk(b, w)
  <2> DEFINE i == next[b] + 1
  <2>1. i \in 1 .. n /\ next'[b] = i /\ UNCHANGED <<owing, stage>>
    <3>1. next[b] < n /\ next' = [next EXCEPT ![b] = next[b] + 1] /\ UNCHANGED <<owing, stage>>
      BY <1>4 DEF NextChunk, Chunks
    <3>2. next'[b] = i
      BY <3>1 DEF TypeOK
    <3> QED
      BY <1>3, <3>1, <3>2
  <2>2. \A v \in Workers :
          /\ job'[b][v] = IF v = w THEN i ELSE job[b][v]
          /\ at'[b][v] = IF v = w THEN From(c, k, i) ELSE at[b][v]
    BY <1>4 DEF NextChunk, TypeOK
  <2>3. From(c, k, i) \in Nat /\ From(c, k, i) < To(c, k, i)
    BY <1>3, <2>1, ChunkRange
  <2>4. \A v \in Workers : job'[b][v] # 0 \/ reply'[b][v] # 0 => v \in owing[b]
    BY <1>1, <1>2, <2>2 DEF PassInv
  <2>5. \A v \in Workers : job'[b][v] # 0 =>
          /\ reply'[b][v] = 0 /\ job'[b][v] <= n
          /\ From(c, k, job'[b][v]) <= at'[b][v] /\ at'[b][v] < To(c, k, job'[b][v])
    BY <1>2, <1>3, <2>1, <2>2, <2>3 DEF PassInv
  <2>6. ASSUME stage[b] = "sample", NEW j \in 1 .. i, NEW p \in Planes,
               From(c, k, j) <= p, p < To(c, k, j)
        PROVE  Covered(b, j, p)'
    <3>1. CASE j = i
      BY <2>2, <2>6, <3>1 DEF Covered
    <3>2. CASE j # i
      <4>1. j \in 1 .. next[b]
        BY <1>3, <2>6, <3>2
      <4>2. Covered(b, j, p)
        BY <2>6, <4>1 DEF PassInv
      <4>3. p \in field[b] \/ \E v \in Workers \ {w} : job[b][v] = j /\ at[b][v] <= p
        BY <4>1, <4>2, <1>1 DEF Covered
      <4> QED
        BY <4>3, <2>2, <1>1 DEF Covered
    <3> QED
      BY <3>1, <3>2
  <2> QED
    BY <1>1, <1>3, <2>1, <2>4, <2>5, <2>6 DEF PassInv
<1>5. CASE NoChunk(b, w)
  <2>1. /\ UNCHANGED <<next, job, at, stage>>
        /\ owing'[b] = owing[b] \ {w}
    BY <1>5 DEF NoChunk, TypeOK
  <2>2. \A v \in Workers : job'[b][v] # 0 \/ reply'[b][v] # 0 => v \in owing'[b]
    BY <1>1, <1>2, <2>1 DEF PassInv
  <2>3. \A i, p : Covered(b, i, p) <=> Covered(b, i, p)'
    BY <1>1, <2>1 DEF Covered
  <2>4. \A v \in Workers : job[b][v] # 0 => reply'[b][v] = 0
    BY <1>2 DEF PassInv
  <2> QED
    BY <1>1, <2>1, <2>2, <2>3, <2>4 DEF PassInv
<1>6. CASE Finish(b, w)
  <2>1. \A v \in Workers : job[b][v] = 0 /\ reply'[b][v] = 0
    BY <1>1, <1>2, <1>6 DEF Finish, LastAnswer, PassInv
  <2>2. CASE stage[b] = "sample"
    <3>1. field[b] = Planes
      BY <1>6, <2>1, <2>2, AllSampled DEF Finish
    <3>2. HandOut(b, "polygonize") /\ stage' = [stage EXCEPT ![b] = "polygonize"]
      BY <1>6, <2>2 DEF Finish
    <3> QED
      BY <1>1, <2>1, <3>1, <3>2, HandOutPasses DEF Passes
  <2>3. CASE stage[b] # "sample"
    BY <1>6, <2>3 DEF Finish, TypeOK, Passes
  <2> QED
    BY <2>2, <2>3
<1> QED
  BY <1>4, <1>5, <1>6 DEF ReadResult

LEMMA HandOutKeeps ==
  ASSUME TypeOK, NEW b \in Builders, NEW pass, HandOut(b, pass), NEW d \in Builders, d # b
  PROVE  /\ next'[d] = next[d] /\ owing'[d] = owing[d]
         /\ job'[d] = job[d] /\ at'[d] = at[d]
BY DEF HandOut, TypeOK

LEMMA MeshSteps ==
  ASSUME TypeOK, MeshInv, NEW b \in Builders, MeshStep(b)
  PROVE  MeshInv'
<1>1. ASSUME NEW d \in Builders, d # b
      PROVE  /\ stage'[d] = stage[d] /\ threads'[d] = threads[d] /\ next'[d] = next[d]
             /\ owing'[d] = owing[d] /\ job'[d] = job[d] /\ at'[d] = at[d]
             /\ reply'[d] = reply[d] /\ field'[d] = field[d]
  <2>1. CASE StartMesh(b)
    <3>1. threads' = threads /\ reply' = reply
      BY <2>1 DEF StartMesh
    <3>2. stage'[d] = stage[d] /\ field'[d] = field[d]
      BY <1>1, <2>1 DEF StartMesh, TypeOK
    <3>3. HandOut(b, "sample") \/ UNCHANGED <<next, owing, job, at>>
      BY <2>1 DEF StartMesh
    <3> QED
      BY <1>1, <3>1, <3>2, <3>3, HandOutKeeps
  <2>2. CASE \E w \in Workers : Compute(b, w) \/ ReadPlane(b, w)
    <3>1. ASSUME NEW w \in Workers, Compute(b, w)
          PROVE  /\ field'[d] = field[d] /\ at'[d] = at[d] /\ reply'[d] = reply[d]
                 /\ job'[d] = job[d] /\ UNCHANGED <<stage, threads, next, owing>>
      <4>1. \E last \in BOOLEAN :
              /\ at' = [at EXCEPT ![b][w] = @ + 1]
              /\ reply' = [reply EXCEPT ![b][w] = IF last THEN job[b][w] ELSE 0]
              /\ job' = [job EXCEPT ![b][w] = IF last THEN 0 ELSE job[b][w]]
              /\ field' = field \/ field' = [field EXCEPT ![b] = @ \cup {at[b][w]}]
              /\ UNCHANGED <<stage, threads, next, owing>>
        BY <3>1 DEF Compute
      <4> QED
        BY <1>1, <4>1 DEF TypeOK
    <3>2. CASE \E w \in Workers : ReadPlane(b, w)
      BY <3>2 DEF ReadPlane
    <3> QED
      BY <2>2, <3>1, <3>2
  <2>3. CASE \E w \in Workers : ReadResult(b, w)
    <3>1. PICK w \in Workers : ReadResult(b, w)
      BY <2>3
    <3>2. UNCHANGED <<threads, field>> /\ reply'[d] = reply[d]
      BY <1>1, <3>1 DEF ReadResult, TypeOK
    <3>3. CASE NextChunk(b, w) \/ NoChunk(b, w)
      BY <1>1, <3>2, <3>3 DEF NextChunk, NoChunk, TypeOK
    <3>4. CASE Finish(b, w)
      <4>1. stage'[d] = stage[d]
        BY <1>1, <3>4 DEF Finish, TypeOK
      <4>2. HandOut(b, "polygonize") \/ (UNCHANGED <<next, job, at>> /\ owing'[d] = owing[d])
        BY <1>1, <3>4 DEF Finish, TypeOK
      <4> QED
        BY <1>1, <3>2, <4>1, <4>2, HandOutKeeps
    <3> QED
      BY <3>1, <3>3, <3>4 DEF ReadResult
  <2> QED
    BY <2>1, <2>2, <2>3 DEF MeshStep
<1>2. ASSUME NEW d \in Builders, d # b, stage'[d] \in Passes
      PROVE  PassInv(d)'
  <2>1. PassInv(d)
    BY <1>1, <1>2 DEF MeshInv
  <2> QED
    BY <1>1, <1>2, <2>1 DEF PassInv, Covered
<1>3. stage'[b] \in Passes => PassInv(b)'
  <2>1. CASE StartMesh(b)
    <3>1. \A w \in Workers : reply'[b][w] = 0
      BY <2>1 DEF StartMesh, MeshInv
    <3>2. CASE threads[b] = 1
      BY <2>1, <3>2 DEF StartMesh, TypeOK, Passes
    <3>3. CASE threads[b] # 1
      BY <2>1, <3>1, <3>3, HandOutPasses DEF StartMesh, Passes
    <3> QED
      BY <3>2, <3>3
  <2>2. CASE \E w \in Workers : Compute(b, w)
    BY <2>2, ComputePasses DEF Compute, MeshInv
  <2>3. CASE \E w \in Workers : ReadPlane(b, w)
    BY <2>3 DEF ReadPlane, MeshInv, PassInv, Covered
  <2>4. CASE \E w \in Workers : ReadResult(b, w)
    BY <2>4, ReadResultPasses DEF ReadResult, MeshInv
  <2> QED
    BY <2>1, <2>2, <2>3, <2>4 DEF MeshStep
<1>4. stage'[b] \notin {"off", "started", "loading"}
  <2>1. CASE StartMesh(b)
    BY <2>1 DEF StartMesh, TypeOK
  <2>2. CASE \E w \in Workers : Compute(b, w) \/ ReadPlane(b, w) \/ ReadResult(b, w)
    BY <2>2 DEF Compute, ReadPlane, ReadResult, NextChunk, NoChunk, Finish, TypeOK, Passes
  <2> QED
    BY <2>1, <2>2 DEF MeshStep
<1> QED
  BY <1>1, <1>2, <1>3, <1>4 DEF MeshInv

\* Outside its mesh, a child enters no pass and a pass in work is left alone or ended.
LEMMA MeshKept ==
  ASSUME TypeOK, MeshInv, NEW b \in Builders,
         UNCHANGED <<next, owing, job, at, reply, field>>,
         stage' = [stage EXCEPT ![b] = stage'[b]],
         stage'[b] # stage[b] => stage'[b] \notin Passes,
         stage'[b] \in {"off", "started", "loading"} => stage[b] \in {"off", "started", "loading"},
         \A d \in Builders : stage'[d] \in Passes => threads'[d] = threads[d]
  PROVE  MeshInv'
<1> SUFFICES ASSUME NEW d \in Builders
             PROVE  /\ stage'[d] \in Passes => PassInv(d)'
                    /\ stage'[d] \in {"off", "started", "loading"} =>
                         \A w \in Workers : reply'[d][w] = 0
  BY DEF MeshInv
<1>1. d # b => stage'[d] = stage[d]
  BY DEF TypeOK
<1>2. CASE stage'[d] \in Passes
  <2>1. stage'[d] = stage[d] /\ threads'[d] = threads[d] /\ PassInv(d)
    BY <1>1, <1>2 DEF MeshInv
  <2> QED
    BY <1>2, <2>1 DEF PassInv, Covered, Passes
<1>3. CASE stage'[d] \notin Passes
  BY <1>1, <1>3 DEF MeshInv
<1> QED
  BY <1>2, <1>3

LEMMA OtherMeshes ==
  ASSUME TypeOK, BuildInv, MeshInv, NEW b \in Builders,
         \/ CheckLock(b) \/ WritePayload(b) \/ OpenExport(b) \/ WriteExport(b)
         \/ ReportResult(b) \/ Exit(b) \/ ChildFails(b)
         \/ ProducerStep(b) \/ Interrupt(b) \/ Kill(b) \/ Edit
  PROVE  MeshInv'
<1> USE DEF Becomes, Go, mesher, mesh
<1>1. CASE \/ CheckLock(b) \/ WritePayload(b) \/ OpenExport(b) \/ WriteExport(b)
           \/ ReportResult(b) \/ Exit(b) \/ ChildFails(b)
  <2>1. /\ UNCHANGED <<threads, next, owing, job, at, reply, field>>
        /\ stage' = [stage EXCEPT ![b] = stage'[b]]
        /\ stage'[b] \notin Passes
        /\ stage'[b] \in {"off", "started", "loading"} => stage[b] = "started"
    BY <1>1 DEF CheckLock, WritePayload, OpenExport, WriteExport, ReportResult, Exit, ChildFails,
                TypeOK, Passes
  <2> QED
    BY <2>1, MeshKept
<1>2. CASE Spawn(b)
  <2>1. /\ UNCHANGED <<next, owing, job, at, reply, field>>
        /\ stage' = [stage EXCEPT ![b] = stage'[b]]
        /\ stage[b] = "off" /\ stage'[b] = "started"
        /\ \A d \in Builders : d # b => threads'[d] = threads[d]
    BY <1>2 DEF Spawn, TypeOK
  <2> QED
    BY <2>1, MeshKept DEF Passes
<1>3. CASE TakeResult(b) \/ Interrupt(b)
  <2>1. /\ UNCHANGED <<threads, next, owing, job, at, reply, field>>
        /\ stage' = [stage EXCEPT ![b] = stage'[b]]
        /\ stage'[b] # stage[b] => stage'[b] \in {"exited", "died"}
    BY <1>3 DEF TakeResult, Interrupt, KillChild, TypeOK
  <2> QED
    BY <2>1, MeshKept DEF Passes
<1>4. CASE UNCHANGED mesher
  BY <1>4 DEF MeshInv, PassInv, Covered
<1>5. CASE \/ Acquire(b) \/ Contended(b) \/ Skip(b) \/ OpenPackage(b) \/ Attend(b)
           \/ ChildFailed(b) \/ WriteDescriptor(b) \/ Release(b) \/ Kill(b) \/ Edit
  BY <1>4, <1>5 DEF Acquire, Contended, Skip, OpenPackage, Attend, ChildFailed, WriteDescriptor,
                    Release, Kill, Edit
<1> QED
  BY <1>1, <1>2, <1>3, <1>5 DEF ProducerStep

-----------------------------------------------------------------------------
\* The mesh is made while its build reads and nothing of the package changes.
LEMMA MeshKeepsBuilds ==
  ASSUME TypeOK, BuildInv, NEW b \in Builders, MeshStep(b), UNCHANGED producer
  PROVE  BuildInv'
<1>1. stage[b] \in {"loading", "sample", "polygonize"}
  BY DEF MeshStep, StartMesh, Compute, ReadPlane, ReadResult, Passes
<1>2. /\ stage'[b] \in {"sample", "polygonize", "meshed"}
      /\ \A d \in Builders : d # b => stage'[d] = stage[d]
  <2>1. CASE StartMesh(b)
    BY <2>1 DEF StartMesh, TypeOK
  <2>2. CASE \E w \in Workers : Compute(b, w) \/ ReadPlane(b, w)
    BY <1>1, <2>2 DEF Compute, ReadPlane, Passes
  <2>3. CASE \E w \in Workers : ReadResult(b, w)
    <3>1. PICK w \in Workers : ReadResult(b, w)
      BY <2>3
    <3>2. stage' = stage \/ \E to \in {"polygonize", "meshed"} : stage' = [stage EXCEPT ![b] = to]
      BY <3>1 DEF ReadResult, NextChunk, NoChunk, Finish
    <3> QED
      BY <3>1, <3>2 DEF ReadResult, Passes, TypeOK
  <2> QED
    BY <2>1, <2>2, <2>3 DEF MeshStep
<1>3. stage[b] \in Running /\ pc[b] \in Attending \cup {"gone"}
  BY <1>1 DEF Running, Stages, BuildInv
<1> QED
  BY <1>1, <1>2, <1>3 DEF BuildInv, DescriptorMatchesPayload, producer, Attending

\* A step of the child that leaves the package alone and does not bring it closer to a result
\* than its payload is.
LEMMA ChildOnly ==
  ASSUME TypeOK, BuildInv, NEW b \in Builders, NEW s \in Stages, UNCHANGED <<pc, lock, descriptor, payload>>,
         stage' = [stage EXCEPT ![b] = s], stage[b] \in Running,
         s \in {"written", "exporting", "exported", "leaving", "exited"} =>
           stage[b] \in {"written", "exporting", "exported", "leaving", "exited"}
  PROVE  BuildInv'
<1>1. \A d \in Builders : stage'[d] = IF d = b THEN s ELSE stage[d]
  BY DEF TypeOK
<1>2. pc[b] \in Attending \cup {"gone"}
  BY DEF BuildInv
<1> QED
  BY <1>1, <1>2 DEF BuildInv, DescriptorMatchesPayload, Attending

\* A step of the producer that ends its part, and may let its lock go.
LEMMA PcOnly ==
  ASSUME TypeOK, BuildInv, NEW b \in Builders, NEW q \in {"unwinding", "done", "skipped", "contended", "failed", "gone"},
         pc' = [pc EXCEPT ![b] = q], pc[b] # "gone", UNCHANGED <<stage, payload, descriptor>>,
         q \in Locked <=> lock' = b, lock' = lock \/ (lock = b /\ lock' = None),
         stage[b] \in Running => q = "gone"
  PROVE  BuildInv'
<1>1. \A d \in Builders : pc'[d] = IF d = b THEN q ELSE pc[d]
  BY DEF TypeOK
<1>2. \A d \in Builders : pc'[d] \in Locked <=> lock' = d
  BY <1>1, BuildsAssumption DEF BuildInv
<1>3. /\ \A d \in Builders : stage'[d] \in Running => pc'[d] \in Attending \cup {"gone"}
      /\ \A d \in Builders : pc'[d] \in {"new", "locked", "opened"} => stage'[d] = "off"
      /\ \A d \in Builders :
           pc'[d] \in Attending \cup {"opened", "describing"} => descriptor' = None
  BY <1>1 DEF BuildInv, Attending
<1>4. payload # None /\ pc[payload] = "gone" => payload' # None /\ pc'[payload'] = "gone"
  BY <1>1 DEF TypeOK
<1>5. DescriptorMatchesPayload'
  BY <1>4 DEF BuildInv, DescriptorMatchesPayload
<1>6. \A d \in Builders :
        pc'[d] \in Attending \cup {"describing"} => pc'[d] = pc[d]
  BY <1>1 DEF Attending
<1> QED
  BY <1>2, <1>3, <1>4, <1>5, <1>6 DEF BuildInv

LEMMA OtherBuilds ==
  ASSUME TypeOK, BuildInv, NEW b \in Builders,
         \/ CheckLock(b) \/ WritePayload(b) \/ OpenExport(b) \/ WriteExport(b)
         \/ ReportResult(b) \/ Exit(b) \/ ChildFails(b)
         \/ ProducerStep(b) \/ Interrupt(b) \/ Kill(b) \/ Edit
  PROVE  BuildInv'
<1> USE BuildsAssumption DEF Becomes, Go, Running, Stages, Locked, Attending, package, mesh, mesher,
                             producer
<1>1. CASE CheckLock(b) \/ ChildFails(b)
  BY <1>1, ChildOnly DEF CheckLock, ChildFails
<1>2. CASE OpenExport(b) \/ WriteExport(b) \/ ReportResult(b) \/ Exit(b)
  BY <1>2, ChildOnly DEF OpenExport, WriteExport, ReportResult, Exit
<1>3. CASE WritePayload(b)
  <2>1. /\ stage[b] = "meshed" /\ pc[b] \in Attending \cup {"gone"} /\ UNCHANGED <<pc, lock, descriptor>>
        /\ payload' = b /\ stage' = [stage EXCEPT ![b] = "written"] /\ b # None
    BY <1>3 DEF WritePayload, BuildInv
  <2>2. CASE pc[b] = "gone"
    BY <2>1, <2>2 DEF BuildInv, DescriptorMatchesPayload, TypeOK
  <2>3. CASE pc[b] \in Attending
    <3>1. lock = b /\ descriptor = None
      BY <2>3 DEF BuildInv
    <3>2. \A d \in Builders : d # b => pc[d] \notin Locked
      BY <3>1 DEF BuildInv
    <3> QED
      BY <2>1, <2>3, <3>1, <3>2 DEF BuildInv, DescriptorMatchesPayload, TypeOK
  <2> QED
    BY <2>1, <2>2, <2>3
<1>4. CASE Acquire(b)
  <2>1. \A d \in Builders : pc[d] \notin Locked
    BY <1>4 DEF Acquire, BuildInv
  <2> QED
    BY <1>4, <2>1 DEF Acquire, BuildInv, DescriptorMatchesPayload, TypeOK
<1>5. CASE Contended(b) \/ ChildFailed(b)
  <2>1. CASE Contended(b)
    <3>1. stage[b] = "off" /\ lock # b
      BY <2>1 DEF Contended, BuildInv
    <3> QED
      BY <2>1, <3>1, PcOnly DEF Contended
  <2>2. CASE ChildFailed(b)
    <3>1. lock = b
      BY <2>2 DEF ChildFailed, BuildInv
    <3> QED
      BY <2>2, <3>1, PcOnly DEF ChildFailed
  <2> QED
    BY <1>5, <2>1, <2>2
<1>6. CASE Skip(b) \/ Release(b)
  <2>1. lock = b /\ (pc[b] # "escaping" => stage[b] \notin Running)
    BY <1>6 DEF Skip, Release, BuildInv
  <2>2. PICK q \in {"skipped", "done", "failed", "gone"} :
          pc' = [pc EXCEPT ![b] = q] /\ (pc[b] = "escaping" => q = "gone")
    BY <1>6 DEF Skip, Release
  <2>3. pc[b] # "gone" /\ lock' = None /\ UNCHANGED <<stage, payload, descriptor>>
    BY <1>6 DEF Skip, Release
  <2> QED
    BY <2>1, <2>2, <2>3, PcOnly
<1>7. CASE OpenPackage(b)
  BY <1>7 DEF OpenPackage, DropDescriptor, BuildInv, DescriptorMatchesPayload, TypeOK
<1>8. CASE Spawn(b)
  BY <1>8 DEF Spawn, BuildInv, DescriptorMatchesPayload, TypeOK
<1>14. CASE Attend(b)
  BY <1>14 DEF Attend, BuildInv, DescriptorMatchesPayload, TypeOK
<1>9. CASE TakeResult(b)
  BY <1>9 DEF TakeResult, BuildInv, DescriptorMatchesPayload, TypeOK
<1>10. CASE WriteDescriptor(b)
  <2>1. pc[b] = "describing" /\ lock = b /\ \A d \in Builders : d # b => pc[d] \notin Locked
    BY <1>10 DEF WriteDescriptor, BuildInv
  <2>2. payload = b \/ (payload # None /\ pc[payload] = "gone")
    BY <2>1 DEF BuildInv
  <2>3. payload \in Builders
    BY <2>2 DEF TypeOK
  <2>4. /\ pc' = [pc EXCEPT ![b] = "described"] /\ descriptor' = b
        /\ UNCHANGED <<stage, lock, payload>>
    BY <1>10 DEF WriteDescriptor
  <2>5. DescriptorMatchesPayload'
    BY <2>1, <2>2, <2>3, <2>4 DEF DescriptorMatchesPayload, TypeOK
  <2> QED
    BY <2>1, <2>3, <2>4, <2>5 DEF BuildInv, TypeOK
<1>11. CASE Interrupt(b)
  <2>1. UNCHANGED <<lock, descriptor, payload>>
    BY <1>11 DEF Interrupt
  <2>2. CASE Go(b, "reading", "unwinding") /\ KillChild(b)
    BY <2>1, <2>2 DEF KillChild, BuildInv, DescriptorMatchesPayload, TypeOK
  <2>3. CASE Go(b, "spawned", "escaping") /\ UNCHANGED stage
    BY <2>1, <2>3 DEF BuildInv, DescriptorMatchesPayload, TypeOK
  <2>4. CASE /\ \E point \in {"locked", "opened", "describing", "described"} :
                  Go(b, point, "unwinding")
             /\ UNCHANGED stage
    <3>1. lock = b /\ stage[b] \notin Running /\ pc' = [pc EXCEPT ![b] = "unwinding"]
          /\ pc[b] # "gone"
      BY <2>4 DEF BuildInv
    <3> QED
      BY <2>1, <2>4, <3>1, PcOnly
  <2> QED
    BY <1>11, <2>2, <2>3, <2>4 DEF Interrupt
<1>12. CASE Kill(b)
  <2>1. lock = b /\ pc[b] # "gone"
    BY <1>12 DEF Kill, BuildInv
  <2>2. pc' = [pc EXCEPT ![b] = "gone"] /\ lock' = None /\ UNCHANGED <<stage, descriptor, payload>>
    BY <1>12 DEF Kill
  <2> QED
    BY <2>1, <2>2, PcOnly
<1>13. CASE Edit
  BY <1>13 DEF Edit, BuildInv, DescriptorMatchesPayload
<1> QED
  BY <1>1, <1>2, <1>3, <1>4, <1>5, <1>6, <1>7, <1>8, <1>9, <1>10, <1>11, <1>12, <1>13, <1>14
     DEF ProducerStep

-----------------------------------------------------------------------------
LEMMA InitInv == Init => IInv
<1> SUFFICES ASSUME Init PROVE IInv
  OBVIOUS
<1> USE BuildsAssumption, MesherAssumption DEF Init, MesherInit
<1>1. part \in [Builders -> [Workers -> Seq(Slabs \cup {Torn})]]
  OBVIOUS
<1>2. /\ stage \in [Builders -> Stages] /\ pc \in [Builders -> Points]
      /\ threads \in [Builders -> Workers]
  BY DEF Stages, Points, Workers
<1>5. bar \in [Builders -> [phase : Passes \cup {"none", "weld", "write"}, done : Nat]]
  OBVIOUS
<1>7. outputs \in [Builders -> Seq(Seq(Slabs \cup {Torn}))]
  OBVIOUS
<1>6. TypeOK
  BY <1>1, <1>2, <1>5, <1>7 DEF TypeOK
<1>3. BuildInv
  BY DEF BuildInv, DescriptorMatchesPayload, Locked, Running, Stages, Attending
<1>4. MeshInv
  BY DEF MeshInv, Passes
<1> QED
  BY <1>3, <1>4, <1>6 DEF IInv

LEMMA StepInv == IInv /\ [Next]_vars => IInv'
<1> SUFFICES ASSUME IInv, [Next]_vars PROVE IInv'
  OBVIOUS
<1>1. CASE \E b \in Builders : MeshStep(b) /\ UNCHANGED producer
  BY <1>1, MeshTypes, MeshSteps, MeshKeepsBuilds DEF IInv
<1>2. ASSUME NEW b \in Builders,
             \/ CheckLock(b) \/ WritePayload(b) \/ OpenExport(b) \/ WriteExport(b)
             \/ ReportResult(b) \/ Exit(b) \/ ChildFails(b)
             \/ ProducerStep(b) \/ Interrupt(b) \/ Kill(b) \/ Edit
      PROVE  IInv'
  BY <1>2, BuildTypes, OtherMeshes, OtherBuilds DEF IInv
<1>3. CASE Edit /\ Builders = {}
  BY <1>3 DEF Edit, mesher, IInv, TypeOK, BuildInv, MeshInv, DescriptorMatchesPayload
<1>4. CASE UNCHANGED vars
  <2>1. TypeOK' /\ BuildInv'
    BY <1>4 DEF vars, mesher, producer, IInv, TypeOK, BuildInv, DescriptorMatchesPayload
  <2>2. MeshInv'
    BY <1>4 DEF vars, mesher, producer, IInv, MeshInv, PassInv, Covered
  <2> QED
    BY <2>1, <2>2 DEF IInv
<1> QED
  BY <1>1, <1>2, <1>3, <1>4 DEF Next, ChildStep

THEOREM Invariance == Spec => []IInv
BY InitInv, StepInv, PTL DEF Spec

\* The variables keep their types: no plane outside the grid is sampled or polygonized.
THEOREM TypesHold == Spec => []TypeOK
<1>1. IInv => TypeOK
  BY DEF IInv
<1> QED
  BY <1>1, Invariance, PTL

\* The barrier between the passes of the mesher, for every grid and every number of threads.
THEOREM BarrierAlwaysHolds == Spec => []BarrierHolds
<1>1. IInv => BarrierHolds
  BY DEF IInv, MeshInv, PassInv, BarrierHolds, Passes
<1> QED
  BY <1>1, Invariance, PTL

\* A descriptor names the payload of its own build, unless a child that was left behind wrote it.
THEOREM DescriptorAlwaysMatches == Spec => []DescriptorMatchesPayload
<1>1. IInv => DescriptorMatchesPayload
  BY DEF IInv, BuildInv
<1> QED
  BY <1>1, Invariance, PTL

\* The child ends before its producer's lock goes, on every path but two: the producer is killed,
\* or raises between Popen and the `try` of its reading loop.
THEOREM ChildrenHaveTheLock == Spec => []NoBuilderOutlivesTheLock
<1>1. IInv => NoBuilderOutlivesTheLock
  BY DEF IInv, BuildInv, NoBuilderOutlivesTheLock, Locked, Attending
<1> QED
  BY <1>1, Invariance, PTL
=============================================================================
