------------------------------ MODULE MesherProofs ------------------------------
(* The progress and the mesh of ImplicitBuilder, for every grid, every number of threads and of
   chunks, and every order of the threads' planes and answers.

   Both count what the messages of the threads have brought: a pass keeps, over all chunks handed
   out, the planes whose message was read (Counted) and the outputs of the chunks answered
   (Parts). The invariants of ImplicitBuilderProofs are used in every step. *)
EXTENDS ImplicitBuilderProofs, WellFoundedInduction, FiniteSetTheorems

Before == {"off", "started", "loading"}
Behind == {"meshed", "written", "exporting", "exported", "leaving", "exited"}

\* The chunk a thread works on, or whose answer is unread.
Hand(b, w) == IF job[b][w] # 0 THEN job[b][w] ELSE reply[b][w]

InChunk(count, k, i, p) == From(count, k, i) <= p /\ p < To(count, k, i)

\* The planes of this pass whose message was read: those of the chunks answered, and in the
\* chunks in work those behind which no unread message lies.
Counted(b) ==
  {p \in 0 .. Count(stage[b]) - 1 :
     \E i \in 1 .. next[b] :
       /\ InChunk(Count(stage[b]), threads[b], i, p)
       /\ \A w \in Workers : Hand(b, w) = i => p < at[b][w] - ticks[b][w]}

\* A chunk is in one thread's hands at most, and its unread messages are of its planes.
Hands(b) ==
  /\ \A w \in Workers : Hand(b, w) # 0 =>
       /\ Hand(b, w) <= next[b]
       /\ From(Count(stage[b]), threads[b], Hand(b, w)) <= at[b][w] - ticks[b][w]
  /\ \A w \in Workers : reply[b][w] # 0 =>
       at[b][w] = To(Count(stage[b]), threads[b], reply[b][w])
  /\ \A w \in Workers : Hand(b, w) = 0 => ticks[b][w] = 0
  /\ \A w, v \in Workers : Hand(b, w) # 0 /\ Hand(b, w) = Hand(b, v) => w = v

HandsInv(b) ==
  /\ stage[b] \in Passes => Hands(b)
  /\ stage[b] \in Before => \A w \in Workers : ticks[b][w] = 0

Bar(phase, done) == [phase |-> phase, done |-> done]

\* The bar shows what was counted; the first plane read of the second pass enters its phase.
BarInv(b) ==
  /\ stage[b] = "loading" => bar[b] = Bar("sample", 0)
  /\ stage[b] = "sample" => bar[b] = Bar("sample", Cardinality(Counted(b)))
  /\ stage[b] = "polygonize" =>
       \/ bar[b] = Bar("sample", Cells + 1) /\ Counted(b) = {}
       \/ bar[b] = Bar("polygonize", Cardinality(Counted(b)))
  /\ stage[b] = "meshed" => bar[b] = Bar("polygonize", Cells)

\* The first m slabs of a chunk.
Slice(f, m) == [j \in 1 .. m |-> f + j - 1]

\* The outputs of the chunks answered are their slabs, and a thread has those of its chunk up
\* to where it is.
PartsInv(b) ==
  /\ stage[b] \in Before \cup {"sample"} => \A w \in Workers : part[b][w] = << >>
  /\ stage[b] \in Passes => Len(outputs[b]) = ChunkCount(Cells, threads[b])
  /\ stage[b] = "polygonize" =>
       /\ \A i \in 1 .. next[b] :
            (\A w \in Workers : Hand(b, w) # i) => outputs[b][i] = Parts(threads[b])[i]
       /\ \A w \in Workers :
            IF Hand(b, w) = 0
              THEN part[b][w] = << >>
              ELSE LET f == From(Cells, threads[b], Hand(b, w))
                   IN  part[b][w] = Slice(f, at[b][w] - f)
  /\ stage[b] \in Behind => outputs[b] = Parts(threads[b])

Tally == \A b \in Builders : HandsInv(b) /\ BarInv(b) /\ PartsInv(b)

-----------------------------------------------------------------------------
LEMMA LeastElement ==
  ASSUME NEW T, T \subseteq Nat, T # {}
  PROVE  \E i \in T : \A j \in T : ~ (j < i)
<1>1. \E i \in T : \A j \in T : <<j, i>> \notin OpToRel(<, Nat)
  BY WFMin, NatLessThanWellFounded, Zenon
<1>2. PICK i \in T : \A j \in T : <<j, i>> \notin OpToRel(<, Nat)
  BY <1>1
<1>3. \A j \in T : ~ (j < i)
  BY <1>2, Zenon DEF OpToRel
<1> QED
  BY <1>3

\* The prefixes of seqs, joined: what FlattenSeq computes by recursion.
Joined(seqs, g) ==
  g = [i \in 1 .. Len(seqs) |-> IF i = 1 THEN seqs[i] ELSE g[i - 1] \o seqs[i]]

\* Only one function joins the prefixes: two of them would differ at a first place.
LEMMA JoinedOnce ==
  ASSUME NEW seqs, NEW f, NEW g, Len(seqs) \in Nat, Joined(seqs, f), Joined(seqs, g)
  PROVE  f = g
<1> DEFINE n == Len(seqs)
           T == {i \in 1 .. n : f[i] # g[i]}
<1>1. CASE T # {}
  <2>1. T \subseteq Nat
    OBVIOUS
  <2>2. \E i \in T : \A j \in T : ~ (j < i)
    <3> HIDE DEF T
    <3> QED
      BY <1>1, <2>1, LeastElement
  <2>3. PICK i \in T : \A j \in T : ~ (j < i)
    BY <2>2
  <2>4. /\ f[i] = IF i = 1 THEN seqs[i] ELSE f[i - 1] \o seqs[i]
        /\ g[i] = IF i = 1 THEN seqs[i] ELSE g[i - 1] \o seqs[i]
    BY DEF Joined
  <2>5. i # 1 => i - 1 \in 1 .. n /\ i - 1 < i
    OBVIOUS
  <2> QED
    BY <2>3, <2>4, <2>5
<1>2. CASE T = {}
  <2>1. \A i \in 1 .. n : f[i] = g[i]
    BY <1>2
  <2>2. /\ DOMAIN f = 1 .. n /\ f = [i \in DOMAIN f |-> f[i]]
        /\ DOMAIN g = 1 .. n /\ g = [i \in DOMAIN g |-> g[i]]
    BY DEF Joined
  <2> QED
    BY <2>1, <2>2
<1> QED
  BY <1>1, <1>2

LEMMA FlattenIsJoined ==
  ASSUME NEW seqs, NEW g, Len(seqs) \in Nat \ {0}, Joined(seqs, g)
  PROVE  FlattenSeq(seqs) = g[Len(seqs)]
<1> DEFINE f == CHOOSE h : h = [i \in 1 .. Len(seqs) |->
                                  IF i = 1 THEN seqs[i] ELSE h[i - 1] \o seqs[i]]
<1>1. Joined(seqs, f)
  BY DEF Joined
<1>2. FlattenSeq(seqs) = f[Len(seqs)]
  BY DEF FlattenSeq
<1> HIDE DEF f
<1> QED
  BY <1>1, <1>2, JoinedOnce

-----------------------------------------------------------------------------
LEMMA SameElements ==
  ASSUME NEW S, NEW s \in Seq(S), NEW t \in Seq(S), Len(s) = Len(t),
         \A j \in 1 .. Len(s) : s[j] = t[j]
  PROVE  s = t
OBVIOUS

\* Two neighbouring slices make one.
LEMMA SlicesJoin ==
  ASSUME NEW a \in Nat, NEW c \in Nat, a <= c
  PROVE  Slice(0, a) \o Slice(a, c - a) = Slice(0, c)
<1>1. Slice(0, a) \in Seq(Int) /\ Len(Slice(0, a)) = a
  BY DEF Slice
<1>2. Slice(a, c - a) \in Seq(Int) /\ Len(Slice(a, c - a)) = c - a
  BY DEF Slice
<1>3. Slice(0, c) \in Seq(Int) /\ Len(Slice(0, c)) = c
  BY DEF Slice
<1>4. \A j \in 1 .. c : (Slice(0, a) \o Slice(a, c - a))[j] = Slice(0, c)[j]
  <2> TAKE j \in 1 .. c
  <2>1. CASE j <= a
    BY <1>1, <1>2, <2>1 DEF Slice
  <2>2. CASE j > a
    <3>1. (Slice(0, a) \o Slice(a, c - a))[j] = Slice(a, c - a)[j - a]
      BY <1>1, <1>2, <2>2
    <3> QED
      BY <3>1, <2>2 DEF Slice
  <2>3. j <= a \/ j > a
    OBVIOUS
  <2> QED
    BY <2>1, <2>2, <2>3, Zenon
<1>5. /\ Slice(0, a) \o Slice(a, c - a) \in Seq(Int)
      /\ Len(Slice(0, a) \o Slice(a, c - a)) = c
  BY <1>1, <1>2
<1> QED
  BY <1>3, <1>4, <1>5, SameElements

\* The slice behind a slice, one slab further.
LEMMA SliceGrows ==
  ASSUME NEW f \in Nat, NEW m \in Nat
  PROVE  Append(Slice(f, m), f + m) = Slice(f, m + 1)
<1>1. /\ Slice(f, m) \in Seq(Int) /\ Len(Slice(f, m)) = m
      /\ Slice(f, m + 1) \in Seq(Int) /\ Len(Slice(f, m + 1)) = m + 1
  BY DEF Slice
<1>2. \A j \in 1 .. m + 1 : Append(Slice(f, m), f + m)[j] = Slice(f, m + 1)[j]
  BY <1>1 DEF Slice
<1>3. /\ Append(Slice(f, m), f + m) \in Seq(Int)
      /\ Len(Append(Slice(f, m), f + m)) = m + 1
  BY <1>1
<1> QED
  BY <1>1, <1>2, <1>3

LEMMA EmptySlice == \A f \in Nat : Slice(f, 0) = << >>
<1> TAKE f \in Nat
<1>1. Slice(f, 0) \in Seq(Int) /\ Len(Slice(f, 0)) = 0
  BY DEF Slice
<1> QED
  BY <1>1

\* A plane is in one chunk only.
LEMMA ChunksApart ==
  ASSUME NEW count \in Nat \ {0}, NEW k \in Nat \ {0}, NEW i \in Nat, NEW j \in Nat,
         NEW p \in Int, InChunk(count, k, i, p), InChunk(count, k, j, p)
  PROVE  i = j
<1> DEFINE s == ChunkSize(count, k)
<1>1. s \in Nat \ {0}
  BY ChunkSizes
<1>2. /\ (i - 1) * s <= p /\ p < i * s
      /\ (j - 1) * s <= p /\ p < j * s
  BY <1>1 DEF InChunk, From, To
<1> HIDE DEF s
<1>3. CASE i < j
  <2>1. i * s <= (j - 1) * s
    BY <1>1, <1>3
  <2> QED
    BY <1>1, <1>2, <2>1
<1>4. CASE j < i
  <2>1. j * s <= (i - 1) * s
    BY <1>1, <1>4
  <2> QED
    BY <1>1, <1>2, <2>1
<1> QED
  BY <1>3, <1>4

\* Chunks follow each other without a gap, from the first plane to the last.
LEMMA ChunksFollow ==
  ASSUME NEW count \in Nat \ {0}, NEW k \in Nat \ {0}
  PROVE  /\ From(count, k, 1) = 0
         /\ To(count, k, ChunkCount(count, k)) = count
         /\ \A i \in 2 .. ChunkCount(count, k) : From(count, k, i) = To(count, k, i - 1)
<1> DEFINE s == ChunkSize(count, k)
           n == ChunkCount(count, k)
<1>1. s \in Nat \ {0} /\ n \in Nat \ {0}
  BY ChunkSizes
<1>2. n = (count + s - 1) \div s
  BY DEF ChunkCount
<1>3. \A i \in 1 .. n : From(count, k, i) < count
  <2> TAKE i \in 1 .. n
  <2>1. From(count, k, i) < To(count, k, i) /\ To(count, k, i) <= count
    BY ChunkRange
  <2>2. From(count, k, i) \in Nat /\ To(count, k, i) \in Nat
    BY ChunkRange
  <2> QED
    BY <2>1, <2>2
<1>4. \A i \in Nat : /\ From(count, k, i) = (i - 1) * s
                     /\ To(count, k, i) = IF i * s < count THEN i * s ELSE count
  BY DEF From, To
<1> HIDE DEF s, n
<1>5. n * s >= count
  BY <1>1, <1>2
<1>6. \A i \in 2 .. n : From(count, k, i) = To(count, k, i - 1)
  <2> TAKE i \in 2 .. n
  <2>1. i \in 1 .. n /\ i \in Nat /\ i - 1 \in Nat
    BY <1>1
  <2>2. (i - 1) * s < count
    BY <1>3, <1>4, <2>1
  <2> QED
    BY <2>1, <2>2, <1>4
<1>7. (1 - 1) * s = 0
  BY <1>1
<1> QED
  BY <1>1, <1>4, <1>5, <1>6, <1>7 DEF n

\* The chunks' slabs, joined, are those of the serial pass.
LEMMA PartsJoin ==
  ASSUME NEW k \in Nat \ {0}
  PROVE  FlattenSeq(Parts(k)) = SerialMesh
<1> DEFINE n == ChunkCount(Cells, k)
           from(i) == From(Cells, k, i)
           to(i) == To(Cells, k, i)
           g == [i \in 1 .. n |-> Slice(0, to(i))]
<1>1. Cells \in Nat \ {0} /\ n \in Nat \ {0}
  BY MesherAssumption, ChunkSizes
<1>2. \A i \in 1 .. n : from(i) \in Nat /\ to(i) \in Nat /\ from(i) < to(i)
  BY <1>1, ChunkRange
<1>3. Len(Parts(k)) = n
  BY PartsType
<1>4. \A i \in 1 .. n : Parts(k)[i] = Slice(from(i), to(i) - from(i))
  BY DEF Parts, Slice
<1>5. from(1) = 0 /\ to(n) = Cells /\ \A i \in 2 .. n : from(i) = to(i - 1)
  BY <1>1, ChunksFollow
<1> HIDE DEF n, from, to
<1>6. ASSUME NEW i \in 1 .. n
      PROVE  g[i] = IF i = 1 THEN Parts(k)[i] ELSE g[i - 1] \o Parts(k)[i]
  <2>1. CASE i = 1
    <3>1. to(i) - from(i) = to(i)
      BY <1>2, <1>5, <2>1
    <3> QED
      BY <1>4, <1>5, <2>1, <3>1
  <2>2. CASE i # 1
    <3>1. i \in 2 .. n /\ i - 1 \in 1 .. n
      BY <1>1, <2>2
    <3>2. g[i - 1] \o Parts(k)[i] = Slice(0, from(i)) \o Slice(from(i), to(i) - from(i))
      BY <1>4, <1>5, <3>1
    <3>3. Slice(0, from(i)) \o Slice(from(i), to(i) - from(i)) = Slice(0, to(i))
      <4>1. from(i) \in Nat /\ to(i) \in Nat /\ from(i) <= to(i)
        BY <1>2
      <4> QED
        BY <4>1, SlicesJoin
    <3> QED
      BY <2>2, <3>2, <3>3
  <2> QED
    BY <2>1, <2>2
<1>7. Joined(Parts(k), g)
  BY <1>3, <1>6 DEF Joined
<1>8. FlattenSeq(Parts(k)) = g[n]
  <2> HIDE DEF g
  <2> QED
    BY <1>1, <1>3, <1>7, FlattenIsJoined
<1>9. Slice(0, Cells) = SerialMesh
  BY <1>1 DEF Slice, SerialMesh
<1> QED
  BY <1>1, <1>5, <1>8, <1>9
-----------------------------------------------------------------------------
\* The state of a build's mesh, apart from the types.
Same(d) ==
  /\ stage'[d] = stage[d] /\ threads'[d] = threads[d] /\ next'[d] = next[d]
  /\ job'[d] = job[d] /\ at'[d] = at[d] /\ ticks'[d] = ticks[d] /\ reply'[d] = reply[d]
  /\ part'[d] = part[d] /\ outputs'[d] = outputs[d] /\ bar'[d] = bar[d]

LEMMA SameKeeps ==
  ASSUME NEW d \in Builders, Same(d), HandsInv(d), BarInv(d), PartsInv(d)
  PROVE  HandsInv(d)' /\ BarInv(d)' /\ PartsInv(d)'
<1>1. \A w \in Workers : Hand(d, w)' = Hand(d, w)
  BY DEF Same, Hand
<1>2. Counted(d)' = Counted(d)
  BY <1>1 DEF Same, Counted
<1>3. HandsInv(d)'
  BY <1>1 DEF Same, HandsInv, Hands
<1>4. BarInv(d)'
  BY <1>2 DEF Same, BarInv
<1>5. PartsInv(d)'
  BY <1>1 DEF Same, PartsInv
<1> QED
  BY <1>3, <1>4, <1>5

\* A step of one build's mesh leaves the others alone.
LEMMA MeshFrame ==
  ASSUME TypeOK, NEW b \in Builders, MeshStep(b), NEW d \in Builders, d # b
  PROVE  Same(d)
<1> USE DEF Same
<1>1. CASE StartMesh(b)
  <2>1. UNCHANGED <<threads, ticks, reply, part>>
    BY <1>1 DEF StartMesh
  <2>2. stage'[d] = stage[d] /\ outputs'[d] = outputs[d] /\ bar'[d] = bar[d]
    BY <1>1 DEF StartMesh, TypeOK
  <2>3. HandOut(b, "sample") \/ UNCHANGED <<next, owing, job, at>>
    BY <1>1 DEF StartMesh
  <2> QED
    BY <2>1, <2>2, <2>3, HandOutKeeps
<1>2. ASSUME NEW w \in Workers, Compute(b, w)
      PROVE  Same(d)
  <2>1. UNCHANGED <<stage, threads, next, outputs, bar>>
    BY <1>2 DEF Compute
  <2>2. /\ at'[d] = at[d] /\ ticks'[d] = ticks[d]
        /\ reply'[d] = reply[d] /\ job'[d] = job[d]
    <3>1. \E last \in BOOLEAN :
            /\ at' = [at EXCEPT ![b][w] = at[b][w] + 1]
            /\ ticks' = [ticks EXCEPT ![b][w] = ticks[b][w] + 1]
            /\ reply' = [reply EXCEPT ![b][w] = IF last THEN job[b][w] ELSE 0]
            /\ job' = [job EXCEPT ![b][w] = IF last THEN 0 ELSE job[b][w]]
      BY <1>2 DEF Compute
    <3> QED
      BY <3>1 DEF TypeOK
  <2>3. part'[d] = part[d]
    <3>1. part' = part \/ part' = [part EXCEPT ![b][w] = Append(@, Slab(b, at[b][w]))]
      BY <1>2 DEF Compute
    <3> QED
      BY <3>1 DEF TypeOK
  <2> QED
    BY <2>1, <2>2, <2>3
<1>3. CASE \E w \in Workers : ReadPlane(b, w)
  BY <1>3 DEF ReadPlane, TypeOK
<1>4. ASSUME NEW w \in Workers, ReadResult(b, w)
      PROVE  Same(d)
  <2>1. UNCHANGED <<threads, ticks, bar>>
    BY <1>4 DEF ReadResult
  <2>2. reply'[d] = reply[d] /\ part'[d] = part[d]
    BY <1>4 DEF ReadResult, TypeOK
  <2>3. outputs'[d] = outputs[d]
    BY <1>4 DEF ReadResult, TypeOK
  <2>4. stage'[d] = stage[d] /\ next'[d] = next[d] /\ job'[d] = job[d] /\ at'[d] = at[d]
    <3>1. CASE NextChunk(b, w)
      BY <3>1 DEF NextChunk, TypeOK
    <3>2. CASE NoChunk(b, w)
      BY <3>2 DEF NoChunk
    <3>3. CASE Finish(b, w)
      <4>1. stage'[d] = stage[d]
        BY <3>3 DEF Finish, TypeOK
      <4>2. HandOut(b, "polygonize") \/ UNCHANGED <<next, job, at>>
        BY <3>3 DEF Finish
      <4> QED
        BY <4>1, <4>2, HandOutKeeps
    <3> QED
      BY <1>4, <3>1, <3>2, <3>3 DEF ReadResult
  <2> QED
    BY <2>1, <2>2, <2>3, <2>4
<1> QED
  BY <1>1, <1>2, <1>3, <1>4 DEF MeshStep
-----------------------------------------------------------------------------
\* At the start of a pass, the chunks handed out are in the hands of one thread each, and it is
\* at their first plane.
LEMMA FreshPass ==
  ASSUME TypeOK, NEW b \in Builders, NEW pass \in Passes, HandOut(b, pass),
         stage'[b] = pass, threads'[b] = threads[b],
         \A w \in Workers : reply'[b][w] = 0 /\ ticks'[b][w] = 0
  PROVE  /\ Hands(b)' /\ Counted(b)' = {}
         /\ \A i \in 1 .. next'[b] : \E w \in Workers : Hand(b, w)' = i
         /\ \A w \in Workers : Hand(b, w)' # 0 =>
              at'[b][w] = From(Count(pass), threads[b], Hand(b, w)')
<1> DEFINE k == threads[b]
           c == Count(pass)
           n == ChunkCount(c, k)
           busy == {w \in Workers : w <= k /\ w <= n}
<1>1. k \in Nat \ {0} /\ k \in Workers /\ n \in Nat \ {0} /\ c \in Nat \ {0}
  BY CountFacts, ChunkSizes DEF TypeOK
<1>2. /\ next'[b] = IF n < k THEN n ELSE k
      /\ job'[b] = [w \in Workers |-> IF w \in busy THEN w ELSE 0]
      /\ at'[b] = [w \in Workers |-> IF w \in busy THEN From(c, k, w) ELSE 0]
  BY DEF HandOut, TypeOK
<1>3. \A w \in busy : w \in 1 .. n /\ w \in Workers /\ w <= next'[b]
  BY <1>1, <1>2 DEF Workers
<1>4. \A w \in Workers : From(c, k, w) \in Int
  <2>1. ChunkSize(c, k) \in Nat
    BY <1>1, ChunkSizes
  <2> QED
    BY <2>1, MesherAssumption DEF From, Workers
<1>5. \A i \in 1 .. next'[b] : i \in busy
  <2> TAKE i \in 1 .. next'[b]
  <2>1. i \in Nat /\ 1 <= i /\ i <= n /\ i <= k
    BY <1>1, <1>2
  <2> QED
    BY <2>1, <1>1, MesherAssumption DEF busy, Workers
<1> HIDE DEF n, busy
<1>6. \A w \in Workers : Hand(b, w)' = IF w \in busy THEN w ELSE 0
  BY <1>2, <1>3, MesherAssumption DEF Hand, Workers
<1>7. \A w \in Workers : Hand(b, w)' # 0 =>
        Hand(b, w)' <= next'[b] /\ at'[b][w] = From(c, k, Hand(b, w)')
  BY <1>2, <1>3, <1>6
<1>8. \A i \in 1 .. next'[b] : \E w \in Workers : Hand(b, w)' = i
  BY <1>3, <1>5, <1>6
<1>9. Hands(b)'
  <2>1. ASSUME NEW w \in Workers, Hand(b, w)' # 0
        PROVE  From(c, k, Hand(b, w)') <= at'[b][w] - ticks'[b][w]
    <3>1. Hand(b, w)' = w
      BY <1>6, <2>1
    <3> QED
      BY <1>4, <1>7, <2>1, <3>1
  <2> QED
    BY <1>6, <1>7, <2>1 DEF Hands
<1>10. ASSUME NEW p \in Int, NEW i \in 1 .. next'[b], From(c, k, i) <= p,
              \A w \in Workers : Hand(b, w)' = i => p < at'[b][w] - ticks'[b][w]
       PROVE  FALSE
  <2>1. PICK w \in Workers : Hand(b, w)' = i
    BY <1>8
  <2>2. i = w
    BY <1>6, <2>1
  <2>3. at'[b][w] - ticks'[b][w] = From(c, k, i) /\ From(c, k, i) \in Int
    BY <1>4, <1>7, <2>1, <2>2
  <2> QED
    BY <1>10, <2>1, <2>3
<1>11. Counted(b)' = {}
  BY <1>10 DEF Counted, InChunk
<1> QED
  BY <1>7, <1>8, <1>9, <1>11

\* Where a thread with a chunk in its hands is: behind its unread planes, not behind its chunk.
LEMMA HandFacts ==
  ASSUME TypeOK, NEW b \in Builders, stage[b] \in Passes, PassInv(b), Hands(b),
         NEW w \in Workers, Hand(b, w) # 0
  PROVE  /\ Hand(b, w) \in 1 .. next[b] /\ next[b] \in Nat
         /\ next[b] <= ChunkCount(Count(stage[b]), threads[b])
         /\ w \in owing[b]
         /\ From(Count(stage[b]), threads[b], Hand(b, w)) \in Nat
         /\ To(Count(stage[b]), threads[b], Hand(b, w)) \in Nat
         /\ To(Count(stage[b]), threads[b], Hand(b, w)) <= Count(stage[b])
         /\ at[b][w] <= To(Count(stage[b]), threads[b], Hand(b, w))
         /\ at[b][w] \in Nat /\ ticks[b][w] \in Nat
<1> DEFINE c == Count(stage[b])
           k == threads[b]
           i == Hand(b, w)
<1>1. c \in Nat \ {0} /\ k \in Nat \ {0} /\ next[b] \in Nat /\ at[b][w] \in Nat
      /\ ticks[b][w] \in Nat /\ i \in Nat
  BY CountFacts DEF TypeOK, Hand
<1>2. i \in 1 .. next[b] /\ next[b] <= ChunkCount(c, k) /\ w \in owing[b]
  BY <1>1 DEF Hands, PassInv, Hand
<1>3. i \in 1 .. ChunkCount(c, k)
  <2>1. ChunkCount(c, k) \in Nat
    BY <1>1, ChunkSizes
  <2> QED
    BY <1>1, <1>2, <2>1
<1>4. From(c, k, i) \in Nat /\ To(c, k, i) \in Nat /\ To(c, k, i) <= c
  BY <1>1, <1>3, ChunkRange
<1>5. at[b][w] <= To(c, k, i)
  BY <1>1, <1>4 DEF Hands, PassInv, Hand
<1> QED
  BY <1>1, <1>2, <1>4, <1>5

-----------------------------------------------------------------------------
\* A plane is computed: the thread moves and so does its unread message.
LEMMA ComputeMoves ==
  ASSUME TypeOK, NEW b \in Builders, stage[b] \in Passes, PassInv(b), NEW w \in Workers,
         Compute(b, w)
  PROVE  /\ UNCHANGED <<stage, threads, next, outputs, bar>>
         /\ \A v \in Workers :
              /\ Hand(b, v)' = Hand(b, v)
              /\ at'[b][v] = IF v = w THEN at[b][v] + 1 ELSE at[b][v]
              /\ ticks'[b][v] = IF v = w THEN ticks[b][v] + 1 ELSE ticks[b][v]
              /\ at'[b][v] - ticks'[b][v] = at[b][v] - ticks[b][v]
              /\ reply'[b][v] # 0 =>
                   \/ reply'[b][v] = reply[b][v] /\ v # w
                   \/ v = w /\ at'[b][v] = To(Count(stage[b]), threads[b], reply'[b][v])
<1>1. job[b][w] # 0 /\ reply[b][w] = 0
  BY DEF Compute, PassInv
<1>2. PICK last \in BOOLEAN :
        /\ last = (at[b][w] + 1 = To(Count(stage[b]), threads[b], job[b][w]))
        /\ at' = [at EXCEPT ![b][w] = at[b][w] + 1]
        /\ ticks' = [ticks EXCEPT ![b][w] = ticks[b][w] + 1]
        /\ reply' = [reply EXCEPT ![b][w] = IF last THEN job[b][w] ELSE 0]
        /\ job' = [job EXCEPT ![b][w] = IF last THEN 0 ELSE job[b][w]]
  BY DEF Compute
<1>3. \A v \in Workers :
        /\ at'[b][v] = IF v = w THEN at[b][v] + 1 ELSE at[b][v]
        /\ ticks'[b][v] = IF v = w THEN ticks[b][v] + 1 ELSE ticks[b][v]
  BY <1>2 DEF TypeOK
<1>4. \A v \in Workers :
        /\ reply'[b][v] = IF v = w THEN (IF last THEN job[b][w] ELSE 0) ELSE reply[b][v]
        /\ job'[b][v] = IF v = w THEN (IF last THEN 0 ELSE job[b][w]) ELSE job[b][v]
  BY <1>2 DEF TypeOK
<1>5. \A v \in Workers : at[b][v] \in Nat /\ ticks[b][v] \in Nat
  BY DEF TypeOK
<1>6. \A v \in Workers : at'[b][v] - ticks'[b][v] = at[b][v] - ticks[b][v]
  BY <1>3, <1>5
<1>7. \A v \in Workers : Hand(b, v)' = Hand(b, v)
  BY <1>1, <1>4 DEF Hand
<1>8. \A v \in Workers : reply'[b][v] # 0 =>
        \/ reply'[b][v] = reply[b][v] /\ v # w
        \/ v = w /\ at'[b][v] = To(Count(stage[b]), threads[b], reply'[b][v])
  BY <1>2, <1>3, <1>4
<1> QED
  BY <1>3, <1>6, <1>7, <1>8 DEF Compute

LEMMA ComputeHands ==
  ASSUME TypeOK, NEW b \in Builders, stage[b] \in Passes, PassInv(b), Hands(b),
         NEW w \in Workers, Compute(b, w)
  PROVE  Hands(b)' /\ Counted(b)' = Counted(b)
<1>1. job[b][w] # 0 /\ Hand(b, w) # 0
  BY DEF Compute, Hand
<1>2. Hands(b)'
  <2>1. \A v \in Workers : Hand(b, v)' = 0 => ticks'[b][v] = 0
    BY <1>1, ComputeMoves DEF Hands
  <2>2. \A v \in Workers : reply'[b][v] # 0 =>
          at'[b][v] = To(Count(stage'[b]), threads'[b], reply'[b][v])
    BY ComputeMoves DEF Hands
  <2> QED
    BY <2>1, <2>2, ComputeMoves DEF Hands
<1>3. Counted(b)' = Counted(b)
  BY ComputeMoves DEF Counted
<1> QED
  BY <1>2, <1>3

-----------------------------------------------------------------------------
LEMMA CountedFinite ==
  ASSUME TypeOK, NEW b \in Builders, stage[b] \in Passes
  PROVE  /\ IsFiniteSet(Counted(b))
         /\ IsFiniteSet(0 .. Count(stage[b]) - 1)
         /\ Cardinality(0 .. Count(stage[b]) - 1) = Count(stage[b])
<1>1. Count(stage[b]) \in Nat \ {0}
  BY CountFacts
<1>2. /\ IsFiniteSet(0 .. Count(stage[b]) - 1)
      /\ Cardinality(0 .. Count(stage[b]) - 1) = Count(stage[b])
  BY <1>1, FS_Interval
<1>3. Counted(b) \subseteq 0 .. Count(stage[b]) - 1
  BY DEF Counted
<1> QED
  BY <1>2, <1>3, FS_Subset

\* A plane message is read: one plane more is counted.
LEMMA ReadPlaneHands ==
  ASSUME TypeOK, NEW b \in Builders, stage[b] \in Passes, PassInv(b), Hands(b),
         NEW w \in Workers, ReadPlane(b, w)
  PROVE  /\ Hands(b)'
         /\ Cardinality(Counted(b)') = Cardinality(Counted(b)) + 1
         /\ Cardinality(Counted(b)) \in Nat
<1> DEFINE c == Count(stage[b])
           k == threads[b]
           i == Hand(b, w)
           q == at[b][w] - ticks[b][w]
<1>1. /\ UNCHANGED <<stage, threads, next, job, at, reply>>
      /\ \A v \in Workers : /\ Hand(b, v)' = Hand(b, v)
                            /\ ticks'[b][v] = IF v = w THEN ticks[b][v] - 1 ELSE ticks[b][v]
                            /\ at[b][v] \in Nat /\ ticks[b][v] \in Nat
      /\ ticks[b][w] > 0
  <2>1. /\ UNCHANGED <<stage, threads, next, job, at, reply>> /\ ticks[b][w] > 0
        /\ ticks' = [ticks EXCEPT ![b][w] = ticks[b][w] - 1]
    BY DEF ReadPlane
  <2>2. \A v \in Workers : /\ at[b][v] \in Nat /\ ticks[b][v] \in Nat
                           /\ ticks'[b][v] = IF v = w THEN ticks[b][v] - 1 ELSE ticks[b][v]
    BY <2>1 DEF TypeOK
  <2> QED
    BY <2>1, <2>2 DEF Hand
<1>2. i # 0
  BY <1>1 DEF Hands
<1>3. /\ i \in 1 .. next[b] /\ From(c, k, i) \in Nat /\ To(c, k, i) \in Nat /\ To(c, k, i) <= c
      /\ at[b][w] <= To(c, k, i) /\ c \in Nat
  BY <1>2, HandFacts, CountFacts
<1>4. From(c, k, i) <= q
  BY <1>2 DEF Hands
<1>5. q \in 0 .. c - 1 /\ InChunk(c, k, i, q)
  BY <1>1, <1>3, <1>4 DEF InChunk
<1>6. \A v \in Workers : v # w => Hand(b, v) # i
  BY <1>2 DEF Hands
<1>7. \A v \in Workers :
        at'[b][v] - ticks'[b][v] = IF v = w THEN q + 1 ELSE at[b][v] - ticks[b][v]
  BY <1>1
<1>8. Hands(b)'
  <2>1. \A v \in Workers : Hand(b, v)' # 0 =>
          From(c, k, Hand(b, v)') <= at'[b][v] - ticks'[b][v]
    <3>1. From(c, k, i) <= q + 1
      BY <1>3, <1>4, <1>5
    <3> QED
      BY <3>1, <1>1, <1>7 DEF Hands
  <2>2. \A v \in Workers : Hand(b, v)' = 0 => ticks'[b][v] = 0
    BY <1>1, <1>2 DEF Hands
  <2> QED
    BY <1>1, <2>1, <2>2 DEF Hands
<1>9. q \notin Counted(b)
  <2> SUFFICES ASSUME NEW j \in 1 .. next[b], InChunk(c, k, j, q),
                      \A v \in Workers : Hand(b, v) = j => q < at[b][v] - ticks[b][v]
               PROVE  FALSE
    BY DEF Counted
  <2>1. i = j
    <3>1. c \in Nat \ {0} /\ k \in Nat \ {0} /\ i \in Nat /\ j \in Nat /\ q \in Int
      BY <1>3, <1>5, CountFacts DEF TypeOK
    <3> QED
      BY <3>1, <1>5, ChunksApart
  <2> QED
    BY <2>1, <1>1
<1>10. Counted(b)' = Counted(b) \cup {q}
  <2>1. ASSUME NEW p \in 0 .. c - 1, NEW j \in 1 .. next[b],
               \A v \in Workers : Hand(b, v) = j => p < at[b][v] - ticks[b][v]
        PROVE  \A v \in Workers : Hand(b, v)' = j => p < at'[b][v] - ticks'[b][v]
    <3> TAKE v \in Workers
    <3>1. CASE v # w
      BY <2>1, <3>1, <1>1, <1>7
    <3>2. CASE v = w
      BY <2>1, <3>2, <1>1, <1>5, <1>7
    <3> QED
      BY <3>1, <3>2
  <2>2. Counted(b) \subseteq Counted(b)'
    BY <1>1, <2>1 DEF Counted
  <2>3. q \in Counted(b)'
    <3>1. \A v \in Workers : Hand(b, v)' = i => q < at'[b][v] - ticks'[b][v]
      BY <1>1, <1>5, <1>6, <1>7
    <3> QED
      BY <3>1, <1>1, <1>3, <1>5 DEF Counted
  <2>4. ASSUME NEW p \in 0 .. c - 1, p # q, NEW j \in 1 .. next[b], InChunk(c, k, j, p),
               \A v \in Workers : Hand(b, v)' = j => p < at'[b][v] - ticks'[b][v]
        PROVE  \A v \in Workers : Hand(b, v) = j => p < at[b][v] - ticks[b][v]
    <3> TAKE v \in Workers
    <3>1. CASE v # w
      BY <2>4, <3>1, <1>1, <1>7
    <3>2. CASE v = w
      BY <2>4, <3>2, <1>1, <1>5, <1>7
    <3> QED
      BY <3>1, <3>2
  <2>5. Counted(b)' \subseteq Counted(b) \cup {q}
    BY <1>1, <2>4 DEF Counted
  <2> QED
    BY <2>2, <2>3, <2>5
<1>11. IsFiniteSet(Counted(b))
  BY CountedFinite
<1> QED
  BY <1>8, <1>9, <1>10, <1>11, FS_AddElement, FS_CardinalityType

-----------------------------------------------------------------------------
\* Behind the last answer of a pass every plane is counted.
LEMMA AllCounted ==
  ASSUME TypeOK, NEW b \in Builders, stage[b] \in Passes, PassInv(b), Hands(b),
         NEW w \in Workers, next[b] >= Chunks(b), owing[b] = {w}, reply[b][w] # 0,
         job[b][w] = 0, ticks[b][w] = 0
  PROVE  Counted(b) = 0 .. Count(stage[b]) - 1
<1> DEFINE c == Count(stage[b])
           k == threads[b]
<1>1. c \in Nat \ {0} /\ k \in Nat \ {0} /\ next[b] \in Nat
  BY CountFacts DEF TypeOK
<1>2. \A v \in Workers : v # w => Hand(b, v) = 0
  BY HandFacts
<1>3. Hand(b, w) = reply[b][w] /\ at[b][w] = To(c, k, Hand(b, w))
  BY DEF Hand, Hands
<1>4. ASSUME NEW p \in 0 .. c - 1
      PROVE  p \in Counted(b)
  <2>1. PICK i \in 1 .. ChunkCount(c, k) : From(c, k, i) <= p /\ p < To(c, k, i)
    BY <1>1, ChunksCover
  <2>2. i \in 1 .. next[b]
    <3>1. ChunkCount(c, k) \in Nat /\ ChunkCount(c, k) <= next[b]
      BY <1>1, ChunkSizes DEF Chunks
    <3> QED
      BY <1>1, <3>1
  <2>3. ASSUME NEW v \in Workers, Hand(b, v) = i
        PROVE  p < at[b][v] - ticks[b][v]
    <3>1. v = w
      BY <1>2, <2>2, <2>3
    <3>2. at[b][v] = To(c, k, i) /\ at[b][v] \in Nat /\ ticks[b][v] = 0
      BY <1>3, <2>3, <3>1 DEF TypeOK
    <3> QED
      BY <2>1, <3>2
  <2> QED
    BY <2>1, <2>2, <2>3 DEF Counted, InChunk
<1> QED
  BY <1>4 DEF Counted

-----------------------------------------------------------------------------
\* An answer is read: what its thread held, and what of the rest stays.
LEMMA AnswerRead ==
  ASSUME TypeOK, NEW b \in Builders, stage[b] \in Passes, PassInv(b), Hands(b),
         NEW w \in Workers, ReadResult(b, w)
  PROVE  /\ UNCHANGED <<threads, ticks, bar>>
         /\ ticks[b][w] = 0 /\ job[b][w] = 0 /\ reply[b][w] # 0 /\ Hand(b, w) = reply[b][w]
         /\ at[b][w] = To(Count(stage[b]), threads[b], Hand(b, w))
         /\ \A v \in Workers : reply'[b][v] = IF v = w THEN 0 ELSE reply[b][v]
         /\ \A v \in Workers : part'[b][v] = IF v = w THEN << >> ELSE part[b][v]
<1>1. job[b][w] = 0 /\ reply[b][w] # 0
  BY DEF ReadResult, PassInv
<1>2. /\ \A v \in Workers : reply'[b][v] = IF v = w THEN 0 ELSE reply[b][v]
      /\ \A v \in Workers : part'[b][v] = IF v = w THEN << >> ELSE part[b][v]
  BY DEF ReadResult, TypeOK
<1> QED
  BY <1>1, <1>2 DEF ReadResult, Hand, Hands

\* With the next chunk or without one, the pass has counted what it had.
LEMMA NextChunkHands ==
  ASSUME TypeOK, NEW b \in Builders, stage[b] \in Passes, PassInv(b), Hands(b),
         NEW w \in Workers, ReadResult(b, w), NextChunk(b, w)
  PROVE  /\ stage' = stage /\ Hands(b)' /\ Counted(b)' = Counted(b)
         /\ next'[b] = next[b] + 1 /\ Hand(b, w)' = next[b] + 1
         /\ at'[b][w] = From(Count(stage[b]), threads[b], next[b] + 1)
         /\ \A v \in Workers : v # w => Hand(b, v)' = Hand(b, v) /\ at'[b][v] = at[b][v]
<1> DEFINE c == Count(stage[b])
           k == threads[b]
           i == next[b] + 1
<1>1. c \in Nat \ {0} /\ k \in Nat \ {0} /\ next[b] \in Nat
  BY CountFacts DEF TypeOK
<1>2. stage' = stage /\ next'[b] = i /\ i \in 1 .. ChunkCount(c, k)
  <2>1. next[b] < ChunkCount(c, k) /\ next' = [next EXCEPT ![b] = next[b] + 1] /\ stage' = stage
    BY DEF NextChunk, Chunks
  <2>2. ChunkCount(c, k) \in Nat
    BY <1>1, ChunkSizes
  <2> QED
    BY <1>1, <2>1, <2>2 DEF TypeOK
<1>3. \A v \in Workers : /\ job'[b][v] = IF v = w THEN i ELSE job[b][v]
                         /\ at'[b][v] = IF v = w THEN From(c, k, i) ELSE at[b][v]
  BY DEF NextChunk, TypeOK
<1>4. \A v \in Workers : Hand(b, v)' = IF v = w THEN i ELSE Hand(b, v)
  BY <1>1, <1>3, AnswerRead DEF Hand
<1>5. From(c, k, i) \in Nat
  BY <1>1, <1>2, ChunkRange
<1>6. \A v \in Workers : Hand(b, v) # 0 => Hand(b, v) \in 1 .. next[b]
  BY HandFacts
<1>7. /\ ticks'[b][w] = 0 /\ UNCHANGED <<threads, ticks>>
      /\ \A v \in Workers : at[b][v] \in Nat /\ ticks[b][v] \in Nat
  <2>1. \A v \in Workers : at[b][v] \in Nat /\ ticks[b][v] \in Nat
    BY DEF TypeOK
  <2> QED
    BY <2>1, AnswerRead
<1>8. Hands(b)'
  <2>1. \A v \in Workers : Hand(b, v)' # 0 =>
          /\ Hand(b, v)' <= next'[b]
          /\ From(c, k, Hand(b, v)') <= at'[b][v] - ticks'[b][v]
    BY <1>1, <1>2, <1>3, <1>4, <1>5, <1>6, <1>7 DEF Hands
  <2>2. \A v \in Workers : reply'[b][v] # 0 => at'[b][v] = To(c, k, reply'[b][v])
    BY <1>3, AnswerRead DEF Hands
  <2>3. \A v \in Workers : Hand(b, v)' = 0 => ticks'[b][v] = 0
    BY <1>1, <1>4, <1>7 DEF Hands
  <2>4. \A v, u \in Workers : Hand(b, v)' # 0 /\ Hand(b, v)' = Hand(b, u)' => v = u
    BY <1>1, <1>4, <1>6 DEF Hands
  <2> QED
    BY <1>2, <1>7, <2>1, <2>2, <2>3, <2>4 DEF Hands
<1>9. Counted(b)' = Counted(b)
  <2> DEFINE Seen(j, p) == \A v \in Workers : Hand(b, v) = j => p < at[b][v] - ticks[b][v]
  <2>1. ASSUME NEW p \in 0 .. c - 1, NEW j \in 1 .. next[b], InChunk(c, k, j, p)
        PROVE  Seen(j, p)' <=> Seen(j, p)
    <3>1. Hand(b, w) = j => p < at[b][w] - ticks[b][w]
      BY <2>1, <1>7, AnswerRead DEF InChunk
    <3>2. Hand(b, w)' # j
      BY <1>1, <1>4
    <3> QED
      BY <3>1, <3>2, <1>3, <1>4, <1>7
  <2>2. ASSUME NEW p \in 0 .. c - 1, NEW j \in 1 .. i, j = i, InChunk(c, k, j, p), Seen(j, p)'
        PROVE  FALSE
    <3>1. p < at'[b][w] - ticks'[b][w]
      BY <2>2, <1>4
    <3>2. at'[b][w] - ticks'[b][w] = From(c, k, i)
      BY <1>3, <1>5, <1>7
    <3> QED
      BY <2>2, <3>1, <3>2, <1>5 DEF InChunk
  <2> HIDE DEF Seen
  <2>3. Counted(b) = {p \in 0 .. c - 1 : \E j \in 1 .. next[b] : InChunk(c, k, j, p) /\ Seen(j, p)}
    BY DEF Counted, Seen
  <2>4. Counted(b)' = {p \in 0 .. c - 1 : \E j \in 1 .. i : InChunk(c, k, j, p) /\ Seen(j, p)'}
    BY <1>2, <1>7 DEF Counted, Seen
  <2>5. \A j \in 1 .. i : j \in 1 .. next[b] \/ j = i
    BY <1>1
  <2>6. \A j \in 1 .. next[b] : j \in 1 .. i
    BY <1>1
  <2>7. \A p \in 0 .. c - 1 :
          (\E j \in 1 .. i : InChunk(c, k, j, p) /\ Seen(j, p)') <=>
          (\E j \in 1 .. next[b] : InChunk(c, k, j, p) /\ Seen(j, p))
    <3> TAKE p \in 0 .. c - 1
    <3>1. ASSUME NEW j \in 1 .. i, InChunk(c, k, j, p), Seen(j, p)'
          PROVE  j \in 1 .. next[b] /\ Seen(j, p)
      BY <2>1, <2>2, <2>5, <3>1
    <3>2. ASSUME NEW j \in 1 .. next[b], InChunk(c, k, j, p), Seen(j, p)
          PROVE  j \in 1 .. i /\ Seen(j, p)'
      BY <2>1, <2>6, <3>2
    <3> QED
      BY <3>1, <3>2
  <2> QED
    BY <2>3, <2>4, <2>7
<1> QED
  BY <1>2, <1>3, <1>4, <1>8, <1>9

LEMMA NoChunkHands ==
  ASSUME TypeOK, NEW b \in Builders, stage[b] \in Passes, PassInv(b), Hands(b),
         NEW w \in Workers, ReadResult(b, w), NoChunk(b, w)
  PROVE  /\ Hands(b)' /\ Counted(b)' = Counted(b)
         /\ UNCHANGED <<stage, next, at>> /\ Hand(b, w)' = 0
         /\ \A v \in Workers : v # w => Hand(b, v)' = Hand(b, v)
<1> DEFINE c == Count(stage[b])
           k == threads[b]
<1>1. UNCHANGED <<stage, threads, next, job, at, ticks>>
  BY AnswerRead DEF NoChunk
<1>2. \A v \in Workers : Hand(b, v)' = IF v = w THEN 0 ELSE Hand(b, v)
  BY <1>1, AnswerRead DEF Hand
<1>3. ticks[b][w] = 0 /\ at[b][w] = To(c, k, Hand(b, w)) /\ at[b][w] \in Nat
  <2>1. at[b][w] \in Nat
    BY DEF TypeOK
  <2> QED
    BY <2>1, AnswerRead
<1>4. Hands(b)'
  <2>1. \A v \in Workers : reply'[b][v] # 0 => at'[b][v] = To(c, k, reply'[b][v])
    BY <1>1, AnswerRead DEF Hands
  <2> QED
    BY <1>1, <1>2, <1>3, <2>1 DEF Hands
<1>5. ASSUME NEW p \in 0 .. c - 1, NEW j \in 1 .. next[b], InChunk(c, k, j, p)
      PROVE  (\A v \in Workers : Hand(b, v)' = j => p < at[b][v] - ticks[b][v]) <=>
             (\A v \in Workers : Hand(b, v) = j => p < at[b][v] - ticks[b][v])
  <2>1. Hand(b, w) = j => p < at[b][w] - ticks[b][w]
    BY <1>3, <1>5 DEF InChunk
  <2> QED
    BY <1>2, <2>1
<1>6. Counted(b)' = Counted(b)
  BY <1>1, <1>5 DEF Counted
<1> QED
  BY <1>1, <1>2, <1>4, <1>6

-----------------------------------------------------------------------------
\* The last answer ends its pass with all planes counted; the other pass starts from none.
LEMMA FinishCounts ==
  ASSUME TypeOK, NEW b \in Builders, stage[b] \in Passes, PassInv(b), Hands(b),
         NEW w \in Workers, ReadResult(b, w), Finish(b, w)
  PROVE  /\ Cardinality(Counted(b)) = Count(stage[b])
         /\ \A v \in Workers : v # w => Hand(b, v) = 0
         /\ \A v \in Workers : reply'[b][v] = 0 /\ ticks'[b][v] = 0
<1>1. owing[b] = {w} /\ next[b] >= Chunks(b)
  BY DEF Finish, LastAnswer
<1>2. \A v \in Workers : v # w => Hand(b, v) = 0
  BY <1>1, HandFacts
<1>3. Counted(b) = 0 .. Count(stage[b]) - 1
  BY <1>1, AnswerRead, AllCounted
<1>4. Cardinality(Counted(b)) = Count(stage[b])
  BY <1>3, CountedFinite
<1>5. \A v \in Workers : reply'[b][v] = 0 /\ ticks'[b][v] = 0
  <2>1. \A v \in Workers : v # w => reply[b][v] = 0 /\ ticks[b][v] = 0
    <3>1. \A v \in Workers : reply[b][v] # 0 => job[b][v] = 0
      BY DEF PassInv
    <3> QED
      BY <1>2, <3>1 DEF Hand, Hands
  <2> QED
    BY <2>1, AnswerRead
<1> QED
  BY <1>2, <1>4, <1>5

LEMMA BarType ==
  ASSUME TypeOK, NEW b \in Builders
  PROVE  /\ bar[b].done \in Nat
         /\ bar' = [bar EXCEPT ![b] = Advanced(b)] =>
              bar'[b] = IF bar[b].phase = stage[b] THEN Bar(stage[b], bar[b].done + 1)
                                                   ELSE Bar(stage[b], 1)
<1>1. bar[b] \in [phase : Passes \cup {"none", "weld", "write"}, done : Nat]
  BY DEF TypeOK
<1>2. bar[b] = Bar(bar[b].phase, bar[b].done) /\ bar[b].done \in Nat
  BY <1>1 DEF Bar
<1>3. Advanced(b) = IF bar[b].phase = stage[b] THEN Bar(stage[b], bar[b].done + 1)
                                               ELSE Bar(stage[b], 1)
  BY <1>1, <1>2 DEF Advanced, Bar
<1> QED
  BY <1>2, <1>3 DEF TypeOK

\* The mesh steps of a build keep its hands and its bar.
LEMMA HandsAndBar ==
  ASSUME TypeOK, MeshInv, NEW b \in Builders, HandsInv(b), BarInv(b), MeshStep(b)
  PROVE  HandsInv(b)' /\ BarInv(b)'
<1>1. CASE StartMesh(b)
  <2>1. /\ stage[b] = "loading" /\ bar[b] = Bar("sample", 0)
        /\ \A w \in Workers : reply'[b][w] = 0 /\ ticks'[b][w] = 0
        /\ UNCHANGED <<threads, ticks, reply>>
    BY <1>1 DEF StartMesh, HandsInv, BarInv, MeshInv, Before
  <2>2. CASE threads[b] = 1
    <3>1. stage'[b] = "meshed" /\ bar'[b] = Bar("polygonize", Cells)
      BY <1>1, <2>2 DEF StartMesh, TypeOK, Bar
    <3> QED
      BY <3>1 DEF HandsInv, BarInv, Before, Passes
  <2>3. CASE threads[b] # 1
    <3>1. stage'[b] = "sample" /\ HandOut(b, "sample") /\ bar' = bar
      BY <1>1, <2>3 DEF StartMesh, TypeOK
    <3>2. Hands(b)' /\ Counted(b)' = {}
      BY <2>1, <3>1, FreshPass DEF Passes
    <3> QED
      BY <2>1, <3>1, <3>2, FS_EmptySet DEF HandsInv, BarInv, Before
  <2> QED
    BY <2>2, <2>3
<1>2. ASSUME stage[b] \in Passes
      PROVE  PassInv(b) /\ Hands(b)
  BY <1>2 DEF MeshInv, HandsInv
<1>3. ASSUME NEW w \in Workers, Compute(b, w)
      PROVE  HandsInv(b)' /\ BarInv(b)'
  <2>1. stage[b] \in Passes
    BY <1>3 DEF Compute
  <2>2. Hands(b)' /\ Counted(b)' = Counted(b) /\ UNCHANGED <<stage, bar>>
    BY <1>2, <1>3, <2>1, ComputeHands, ComputeMoves
  <2> QED
    BY <2>1, <2>2 DEF HandsInv, BarInv, Before, Passes
<1>4. ASSUME NEW w \in Workers, ReadPlane(b, w)
      PROVE  HandsInv(b)' /\ BarInv(b)'
  <2>1. stage[b] \in Passes /\ stage' = stage /\ bar' = [bar EXCEPT ![b] = Advanced(b)]
    BY <1>4 DEF ReadPlane
  <2>2. /\ Hands(b)' /\ Cardinality(Counted(b)') = Cardinality(Counted(b)) + 1
        /\ Cardinality(Counted(b)) \in Nat
    BY <1>2, <1>4, <2>1, ReadPlaneHands
  <2>3. bar'[b] = IF bar[b].phase = stage[b] THEN Bar(stage[b], bar[b].done + 1)
                                             ELSE Bar(stage[b], 1)
    BY <2>1, BarType
  <2>4. HandsInv(b)'
    BY <2>1, <2>2 DEF HandsInv, Before, Passes
  <2>5. CASE stage[b] = "sample"
    <3>1. bar[b].phase = "sample" /\ bar[b].done = Cardinality(Counted(b))
      BY <2>5 DEF BarInv, Bar
    <3> QED
      BY <2>1, <2>2, <2>3, <2>4, <2>5, <3>1 DEF BarInv
  <2>6. CASE stage[b] = "polygonize"
    <3>1. \/ bar[b].phase = "sample" /\ Cardinality(Counted(b)) = 0
          \/ bar[b].phase = "polygonize" /\ bar[b].done = Cardinality(Counted(b))
      BY <2>6, FS_EmptySet DEF BarInv, Bar
    <3>2. bar'[b] = Bar("polygonize", Cardinality(Counted(b)'))
      BY <2>2, <2>3, <2>6, <3>1
    <3> QED
      BY <2>1, <2>4, <2>6, <3>2 DEF BarInv
  <2> QED
    BY <2>1, <2>5, <2>6 DEF Passes
<1>5. ASSUME NEW w \in Workers, ReadResult(b, w)
      PROVE  HandsInv(b)' /\ BarInv(b)'
  <2>1. stage[b] \in Passes /\ bar' = bar /\ PassInv(b) /\ Hands(b)
    BY <1>2, <1>5 DEF ReadResult
  <2>2. CASE NextChunk(b, w) \/ NoChunk(b, w)
    <3>1. stage' = stage /\ Hands(b)' /\ Counted(b)' = Counted(b)
      BY <1>5, <2>1, <2>2, NextChunkHands, NoChunkHands
    <3> QED
      BY <2>1, <3>1 DEF HandsInv, BarInv, Before, Passes
  <2>3. CASE Finish(b, w)
    <3>1. Cardinality(Counted(b)) = Count(stage[b])
      BY <1>5, <2>1, <2>3, FinishCounts
    <3>2. CASE stage[b] = "sample"
      <4>1. /\ stage'[b] = "polygonize" /\ threads'[b] = threads[b]
            /\ HandOut(b, "polygonize")
        BY <1>5, <2>3, <3>2 DEF Finish, ReadResult, TypeOK
      <4>2. Hands(b)' /\ Counted(b)' = {}
        BY <1>5, <2>1, <2>3, <4>1, FinishCounts, FreshPass DEF Passes
      <4>3. bar[b] = Bar("sample", Cells + 1)
        BY <3>1, <3>2, CountFacts DEF BarInv
      <4> QED
        BY <2>1, <4>1, <4>2, <4>3 DEF HandsInv, BarInv, Before
    <3>3. CASE stage[b] = "polygonize"
      <4>1. stage'[b] = "meshed"
        BY <2>3, <3>3 DEF Finish, TypeOK
      <4>2. Counted(b) # {}
        BY <3>1, <3>3, CountFacts, FS_EmptySet, MesherAssumption
      <4>3. bar[b] = Bar("polygonize", Cells)
        BY <3>1, <3>3, <4>2, CountFacts DEF BarInv
      <4> QED
        BY <2>1, <4>1, <4>3 DEF HandsInv, BarInv, Before, Passes
    <3> QED
      BY <2>1, <3>2, <3>3 DEF Passes
  <2> QED
    BY <1>5, <2>2, <2>3 DEF ReadResult
<1> QED
  BY <1>1, <1>3, <1>4, <1>5 DEF MeshStep

-----------------------------------------------------------------------------
\* The slabs of a chunk, as one slice.
LEMMA PartIsSlice ==
  ASSUME NEW k \in Nat \ {0}, NEW i \in 1 .. ChunkCount(Cells, k)
  PROVE  Parts(k)[i] = Slice(From(Cells, k, i), To(Cells, k, i) - From(Cells, k, i))
BY DEF Parts, Slice

\* What a thread has made so far, in the second pass.
InWork(b, w) ==
  IF Hand(b, w) = 0
    THEN part[b][w] = << >>
    ELSE LET f == From(Cells, threads[b], Hand(b, w)) IN part[b][w] = Slice(f, at[b][w] - f)

Answered(b, i) == outputs[b][i] = Parts(threads[b])[i]

LEMMA PartsInvIs ==
  ASSUME NEW b \in Builders
  PROVE  PartsInv(b) <=>
           /\ stage[b] \in Before \cup {"sample"} => \A w \in Workers : part[b][w] = << >>
           /\ stage[b] \in Passes => Len(outputs[b]) = ChunkCount(Cells, threads[b])
           /\ stage[b] = "polygonize" =>
                /\ \A i \in 1 .. next[b] : (\A w \in Workers : Hand(b, w) # i) => Answered(b, i)
                /\ \A w \in Workers : InWork(b, w)
           /\ stage[b] \in Behind => outputs[b] = Parts(threads[b])
BY DEF PartsInv, InWork, Answered

\* A slab is made from sampled planes, and goes behind those its thread made before.
LEMMA ComputeParts ==
  ASSUME TypeOK, NEW b \in Builders, stage[b] \in Passes, PassInv(b), Hands(b), PartsInv(b),
         NEW w \in Workers, Compute(b, w)
  PROVE  PartsInv(b)'
<1>1. UNCHANGED <<stage, threads, next, outputs>> /\ \A v \in Workers : Hand(b, v)' = Hand(b, v)
  BY ComputeMoves
<1>2. CASE stage[b] = "sample"
  <2>1. part' = part
    BY <1>2 DEF Compute
  <2> QED
    BY <1>1, <1>2, <2>1, PartsInvIs DEF PartsInv, Before, Behind
<1>3. CASE stage[b] = "polygonize"
  <2> DEFINE f == From(Cells, threads[b], Hand(b, w))
             p == at[b][w]
  <2>1. Count(stage[b]) = Cells /\ Hand(b, w) # 0 /\ Hand(b, w) = job[b][w]
    BY <1>3, CountFacts DEF Compute, Hand
  <2>2. p \in Nat /\ f \in Nat /\ f <= p /\ p < Cells
    <3>1. p \in 0 .. Cells - 1
      BY <2>1, AtPlane DEF Compute
    <3>2. f <= at[b][w] - ticks[b][w] /\ f \in Nat /\ ticks[b][w] \in Nat
      BY <2>1, HandFacts DEF Hands
    <3> QED
      BY <3>1, <3>2, MesherAssumption
  <2>3. Slab(b, p) = p
    <3>1. field[b] = Planes
      BY <1>3 DEF PassInv
    <3> QED
      BY <2>2, <3>1, MesherAssumption DEF Slab, Planes
  <2>4. \A v \in Workers : part'[b][v] = IF v = w THEN Append(part[b][w], p) ELSE part[b][v]
    <3>1. part' = [part EXCEPT ![b][w] = Append(part[b][w], p)]
      BY <1>3, <2>3 DEF Compute
    <3> QED
      BY <3>1 DEF TypeOK
  <2>5. part[b][w] = Slice(f, p - f)
    BY <1>3, <2>1 DEF PartsInv
  <2>6. Append(Slice(f, p - f), p) = Slice(f, p + 1 - f)
    <3>1. p - f \in Nat /\ f + (p - f) = p /\ (p - f) + 1 = p + 1 - f
      BY <2>2
    <3> QED
      BY <3>1, <2>2, SliceGrows
  <2>7. \A v \in Workers : InWork(b, v)'
    <3> TAKE v \in Workers
    <3>1. InWork(b, v)
      BY <1>3 DEF PartsInv, InWork
    <3>2. CASE v # w
      BY <1>1, <2>4, <3>1, <3>2, ComputeMoves DEF InWork
    <3>3. CASE v = w
      <4>1. at'[b][v] = p + 1 /\ part'[b][v] = Slice(f, p + 1 - f)
        BY <2>4, <2>5, <2>6, <3>3, ComputeMoves
      <4>2. Hand(b, v)' = Hand(b, w) /\ Hand(b, w) # 0 /\ threads'[b] = threads[b]
        BY <1>1, <2>1, <3>3
      <4>3. f = From(Cells, threads'[b], Hand(b, v)')
        BY <4>2
      <4>4. at'[b][v] - f = p + 1 - f
        BY <2>2, <4>1
      <4>5. part'[b][v] = Slice(f, at'[b][v] - f)
        BY <4>1, <4>4
      <4> QED
        BY <4>2, <4>3, <4>5 DEF InWork
    <3> QED
      BY <3>2, <3>3
  <2> QED
    BY <1>1, <1>3, <2>7 DEF PartsInv, InWork, Before, Behind
<1> QED
  BY <1>2, <1>3 DEF Passes

\* In the second pass, an answer that is read takes the place of its chunk.
LEMMA AnswerTakesItsPlace ==
  ASSUME TypeOK, NEW b \in Builders, stage[b] = "polygonize", PassInv(b), Hands(b), PartsInv(b),
         NEW w \in Workers, ReadResult(b, w)
  PROVE  /\ Len(outputs'[b]) = ChunkCount(Cells, threads[b])
         /\ \A i \in 1 .. next[b] :
              (\A v \in Workers : v # w => Hand(b, v) # i) => Answered(b, i)'
<1> DEFINE k == threads[b]
           h == Hand(b, w)
           n == ChunkCount(Cells, k)
<1>1. /\ stage[b] \in Passes /\ Count(stage[b]) = Cells /\ k \in Nat \ {0}
      /\ Len(outputs[b]) = n
  BY CountFacts DEF Passes, PartsInv, TypeOK
<1>2. h = reply[b][w] /\ h # 0 /\ at[b][w] = To(Cells, k, h) /\ threads' = threads
  BY <1>1, AnswerRead
<1>3. h \in 1 .. next[b] /\ next[b] <= n /\ next[b] \in Nat
  BY <1>1, <1>2, HandFacts
<1>4. h \in 1 .. n
  <2>1. n \in Nat
    BY <1>1, ChunkSizes, MesherAssumption
  <2> QED
    BY <1>3, <2>1
<1>5. part[b][w] = Parts(k)[h]
  <2>1. part[b][w] = Slice(From(Cells, k, h), at[b][w] - From(Cells, k, h))
    BY <1>2 DEF PartsInv
  <2> QED
    BY <1>1, <1>2, <1>4, <2>1, PartIsSlice
<1>6. outputs'[b] = [outputs[b] EXCEPT ![h] = part[b][w]]
  BY <1>2 DEF ReadResult, Received, TypeOK
<1>7. outputs[b] \in Seq(Seq(Slabs \cup {Torn})) /\ part[b][w] \in Seq(Slabs \cup {Torn})
  <2>1. /\ outputs \in [Builders -> Seq(Seq(Slabs \cup {Torn}))]
        /\ part \in [Builders -> [Workers -> Seq(Slabs \cup {Torn})]]
    BY DEF TypeOK
  <2> QED
    BY <2>1
<1>8. Len(outputs'[b]) = n
  BY <1>1, <1>6, <1>7, ReplaceType
<1>9. ASSUME NEW i \in 1 .. next[b], \A v \in Workers : v # w => Hand(b, v) # i
      PROVE  Answered(b, i)'
  <2>1. CASE i = h
    <3>1. outputs'[b][i] = part[b][w]
      BY <1>1, <1>4, <1>6, <1>7, <2>1
    <3> QED
      BY <1>2, <1>5, <2>1, <3>1 DEF Answered
  <2>2. CASE i # h
    <3>1. outputs[b][i] = Parts(k)[i]
      BY <1>9, <2>2 DEF PartsInv
    <3>2. outputs'[b][i] = outputs[b][i]
      BY <1>6, <1>7, <2>2
    <3> QED
      BY <1>2, <3>1, <3>2 DEF Answered
  <2> QED
    BY <2>1, <2>2
<1> QED
  BY <1>8, <1>9

LEMMA AnswerParts ==
  ASSUME TypeOK, NEW b \in Builders, stage[b] \in Passes, PassInv(b), Hands(b), PartsInv(b),
         NEW w \in Workers, ReadResult(b, w), TypeOK'
  PROVE  PartsInv(b)'
<1> DEFINE k == threads[b]
<1>1. /\ k \in Nat \ {0} /\ next[b] \in Nat /\ Cells \in Nat \ {0}
      /\ Len(outputs[b]) = ChunkCount(Cells, k) /\ threads' = threads
  <2>1. k \in Nat \ {0} /\ next[b] \in Nat
    BY CountFacts DEF TypeOK
  <2>2. Len(outputs[b]) = ChunkCount(Cells, k) /\ threads' = threads
    BY AnswerRead DEF PartsInv
  <2> QED
    BY <2>1, <2>2, MesherAssumption
<1>2. CASE stage[b] = "sample"
  <2>1. outputs' = outputs /\ \A v \in Workers : part'[b][v] = << >>
    BY <1>2, AnswerRead DEF ReadResult, PartsInv
  <2>2. CASE stage'[b] = "sample"
    BY <1>1, <2>1, <2>2 DEF PartsInv, Before, Behind
  <2>3. CASE stage'[b] # "sample"
    <3>1. Finish(b, w)
      BY <1>2, <2>3 DEF ReadResult, NextChunk, NoChunk
    <3>2. stage'[b] = "polygonize" /\ HandOut(b, "polygonize")
      BY <1>2, <3>1 DEF Finish, TypeOK
    <3>3. /\ \A i \in 1 .. next'[b] : \E v \in Workers : Hand(b, v)' = i
          /\ Hands(b)'
          /\ \A v \in Workers : Hand(b, v)' # 0 => at'[b][v] = From(Cells, k, Hand(b, v)')
      BY <1>1, <3>1, <3>2, FinishCounts, FreshPass, CountFacts DEF Passes
    <3>4. \A v \in Workers : Hand(b, v)' # 0 =>
            LET f == From(Cells, k, Hand(b, v)') IN Slice(f, at'[b][v] - f) = << >>
      <4> TAKE v \in Workers
      <4> SUFFICES ASSUME Hand(b, v)' # 0
                   PROVE  Slice(at'[b][v], at'[b][v] - at'[b][v]) = << >>
        BY <3>3
      <4>1. at'[b][v] \in Nat
        BY DEF TypeOK
      <4>2. at'[b][v] - at'[b][v] = 0
        BY <4>1
      <4> QED
        BY <4>1, <4>2, EmptySlice
    <3>5. \A v \in Workers : InWork(b, v)'
      BY <1>1, <2>1, <3>4 DEF InWork
    <3> QED
      BY <1>1, <2>1, <3>2, <3>3, <3>5 DEF PartsInv, InWork, Before, Behind
  <2> QED
    BY <2>2, <2>3
<1>3. CASE stage[b] = "polygonize"
  <2>1. /\ Len(outputs'[b]) = ChunkCount(Cells, k)
        /\ \A i \in 1 .. next[b] :
             (\A v \in Workers : v # w => Hand(b, v) # i) => Answered(b, i)'
    BY <1>3, AnswerTakesItsPlace
  <2>2. \A v \in Workers : part'[b][v] = IF v = w THEN << >> ELSE part[b][v]
    BY AnswerRead
  <2>3. \A v \in Workers : InWork(b, v)
    BY <1>3 DEF PartsInv, InWork
  <2>4. CASE NextChunk(b, w)
    <3>1. /\ stage' = stage /\ next'[b] = next[b] + 1 /\ Hand(b, w)' = next[b] + 1
          /\ at'[b][w] = From(Cells, k, next[b] + 1)
          /\ \A v \in Workers : v # w => Hand(b, v)' = Hand(b, v) /\ at'[b][v] = at[b][v]
      BY <1>3, <2>4, NextChunkHands, CountFacts
    <3>2. ASSUME NEW i \in 1 .. next'[b], \A v \in Workers : Hand(b, v)' # i
          PROVE  Answered(b, i)'
      <4>1. i \in 1 .. next[b]
        BY <1>1, <3>1, <3>2
      <4> QED
        BY <2>1, <3>1, <3>2, <4>1
    <3>3. InWork(b, w)'
      <4>1. at'[b][w] \in Nat
        BY DEF TypeOK
      <4>2. Slice(at'[b][w], at'[b][w] - at'[b][w]) = << >>
        <5>1. at'[b][w] - at'[b][w] = 0
          BY <4>1
        <5> QED
          BY <4>1, <5>1, EmptySlice
      <4> QED
        BY <1>1, <2>2, <3>1, <4>2 DEF InWork
    <3>4. \A v \in Workers : v # w => InWork(b, v)'
      BY <1>1, <2>2, <2>3, <3>1 DEF InWork
    <3> QED
      BY <1>1, <1>3, <2>1, <3>1, <3>2, <3>3, <3>4 DEF PartsInv, InWork, Answered, Before, Behind
  <2>5. CASE NoChunk(b, w)
    <3>1. /\ UNCHANGED <<stage, next, at>> /\ Hand(b, w)' = 0
          /\ \A v \in Workers : v # w => Hand(b, v)' = Hand(b, v)
      BY <2>5, NoChunkHands
    <3>2. \A v \in Workers : InWork(b, v)'
      BY <1>1, <2>2, <2>3, <3>1 DEF InWork
    <3> QED
      BY <1>1, <1>3, <2>1, <3>1, <3>2 DEF PartsInv, InWork, Answered, Before, Behind
  <2>6. CASE Finish(b, w)
    <3>1. stage'[b] = "meshed"
      BY <1>3, <2>6 DEF Finish, TypeOK
    <3>2. ChunkCount(Cells, k) \in Nat /\ ChunkCount(Cells, k) <= next[b]
      BY <1>1, <1>3, <2>6, ChunkSizes, CountFacts DEF Finish, Chunks
    <3>3. \A i \in 1 .. ChunkCount(Cells, k) : Answered(b, i)'
      <4> TAKE i \in 1 .. ChunkCount(Cells, k)
      <4>1. i \in 1 .. next[b]
        BY <1>1, <3>2
      <4>2. \A v \in Workers : v # w => Hand(b, v) # i
        BY <2>6, FinishCounts
      <4> QED
        BY <2>1, <4>1, <4>2
    <3>4. outputs'[b] \in Made
      BY DEF Made, TypeOK
    <3>5. outputs'[b] = Parts(k)
      <4>1. Parts(k) \in Made /\ Len(Parts(k)) = ChunkCount(Cells, k)
        BY <1>1, PartsType
      <4>2. \A i \in 1 .. Len(outputs'[b]) : outputs'[b][i] = Parts(k)[i]
        BY <1>1, <2>1, <3>3 DEF Answered
      <4> QED
        BY <2>1, <3>4, <4>1, <4>2, SameElements DEF Made
    <3> QED
      BY <1>1, <3>1, <3>5 DEF PartsInv, Before, Passes
  <2> QED
    BY <2>4, <2>5, <2>6 DEF ReadResult
<1> QED
  BY <1>2, <1>3 DEF Passes

LEMMA MeshParts ==
  ASSUME TypeOK, MeshInv, NEW b \in Builders, HandsInv(b), PartsInv(b), MeshStep(b), TypeOK'
  PROVE  PartsInv(b)'
<1>1. ASSUME stage[b] \in Passes
      PROVE  PassInv(b) /\ Hands(b)
  BY <1>1 DEF MeshInv, HandsInv
<1>2. CASE StartMesh(b)
  <2>1. stage[b] = "loading" /\ UNCHANGED <<threads, part>>
    BY <1>2 DEF StartMesh
  <2>2. CASE threads[b] = 1
    <3>1. stage'[b] = "meshed" /\ outputs'[b] = Parts(1)
      BY <1>2, <2>2 DEF StartMesh, TypeOK
    <3> QED
      BY <2>1, <2>2, <3>1 DEF PartsInv, Before, Passes
  <2>3. CASE threads[b] # 1
    <3> DEFINE n == ChunkCount(Cells, threads[b])
    <3>1. stage'[b] = "sample" /\ outputs'[b] = [i \in 1 .. n |-> << >>]
      BY <1>2, <2>3 DEF StartMesh, TypeOK
    <3>2. n \in Nat
      <4>1. threads[b] \in Nat \ {0} /\ Cells \in Nat \ {0}
        BY CountFacts, MesherAssumption DEF TypeOK
      <4> QED
        BY <4>1, ChunkSizes
    <3> HIDE DEF n
    <3>3. Len(outputs'[b]) = n
      BY <3>1, <3>2
    <3> QED
      BY <2>1, <3>1, <3>3 DEF PartsInv, Before, Behind, n
  <2> QED
    BY <2>2, <2>3
<1>3. CASE \E w \in Workers : Compute(b, w)
  BY <1>1, <1>3, ComputeParts DEF Compute
<1>4. CASE \E w \in Workers : ReadPlane(b, w)
  <2>1. UNCHANGED <<stage, threads, next, job, at, reply, part, outputs>>
    BY <1>4 DEF ReadPlane
  <2> QED
    BY <2>1 DEF PartsInv, Hand
<1>5. CASE \E w \in Workers : ReadResult(b, w)
  BY <1>1, <1>5, AnswerParts DEF ReadResult
<1> QED
  BY <1>2, <1>3, <1>4, <1>5 DEF MeshStep

-----------------------------------------------------------------------------
\* The steps outside the mesh, for every build: it is left alone, its child is spawned, starts to
\* load, dies, or goes on behind its mesh.
LEMMA OutsideMesh ==
  ASSUME TypeOK, NEW b \in Builders,
         \/ CheckLock(b) \/ WritePayload(b) \/ OpenExport(b) \/ WriteExport(b)
         \/ ReportResult(b) \/ Exit(b) \/ ChildFails(b)
         \/ ProducerStep(b) \/ Interrupt(b) \/ Kill(b) \/ Edit,
         NEW d \in Builders
  PROVE  /\ UNCHANGED <<next, job, at, ticks, reply, part, outputs>>
         /\ \/ Same(d)
            \/ stage[d] = "off" /\ stage'[d] = "started"
            \/ /\ stage[d] = "started" /\ stage'[d] = "loading"
               /\ bar'[d] = Bar("sample", 0)
            \/ stage'[d] = "died"
            \/ /\ stage[d] \in Behind /\ stage'[d] \in Behind \ {"meshed"}
               /\ threads'[d] = threads[d]
<1> USE DEF Becomes, Go, mesh, mesher, Same
<1>1. CASE CheckLock(b)
  BY <1>1 DEF CheckLock, TypeOK, Bar
<1>2. CASE WritePayload(b) \/ OpenExport(b) \/ WriteExport(b) \/ ReportResult(b) \/ Exit(b)
  <2>1. /\ UNCHANGED mesh
        /\ stage[b] \in Behind
        /\ \E s \in Behind \ {"meshed"} : stage' = [stage EXCEPT ![b] = s]
        /\ bar' = bar \/ \E c : bar' = [bar EXCEPT ![b] = c]
    BY <1>2 DEF WritePayload, OpenExport, WriteExport, ReportResult, Exit, Behind
  <2> QED
    BY <2>1 DEF TypeOK
<1>3. CASE ChildFails(b)
  BY <1>3 DEF ChildFails, TypeOK
<1>4. CASE Spawn(b)
  BY <1>4 DEF Spawn, TypeOK
<1>5. CASE TakeResult(b)
  BY <1>5 DEF TakeResult, TypeOK, Behind
<1>6. CASE Interrupt(b)
  BY <1>6 DEF Interrupt, KillChild, TypeOK
<1>7. CASE \/ Acquire(b) \/ Contended(b) \/ Skip(b) \/ OpenPackage(b) \/ Attend(b)
           \/ ChildFailed(b) \/ WriteDescriptor(b) \/ Release(b) \/ Kill(b) \/ Edit
  BY <1>7 DEF Acquire, Contended, Skip, OpenPackage, Attend, ChildFailed, WriteDescriptor,
              Release, Kill, Edit
<1> QED
  BY <1>1, <1>2, <1>3, <1>4, <1>5, <1>6, <1>7 DEF ProducerStep

LEMMA OutsideKeeps ==
  ASSUME TypeOK, Tally, NEW b \in Builders,
         \/ CheckLock(b) \/ WritePayload(b) \/ OpenExport(b) \/ WriteExport(b)
         \/ ReportResult(b) \/ Exit(b) \/ ChildFails(b)
         \/ ProducerStep(b) \/ Interrupt(b) \/ Kill(b) \/ Edit
  PROVE  Tally'
<1> SUFFICES ASSUME NEW d \in Builders
             PROVE  HandsInv(d)' /\ BarInv(d)' /\ PartsInv(d)'
  BY DEF Tally
<1>1. HandsInv(d) /\ BarInv(d) /\ PartsInv(d)
  BY DEF Tally
<1>2. UNCHANGED <<next, job, at, ticks, reply, part, outputs>>
  BY OutsideMesh
<1>3. CASE Same(d)
  BY <1>1, <1>3, SameKeeps
<1>4. CASE \/ stage[d] = "off" /\ stage'[d] = "started"
           \/ /\ stage[d] = "started" /\ stage'[d] = "loading" /\ bar'[d] = Bar("sample", 0)
  BY <1>1, <1>2, <1>4 DEF HandsInv, BarInv, PartsInv, Before, Behind, Passes
<1>5. CASE stage'[d] = "died"
  BY <1>5 DEF HandsInv, BarInv, PartsInv, Before, Behind, Passes
<1>6. CASE /\ stage[d] \in Behind /\ stage'[d] \in Behind \ {"meshed"}
           /\ threads'[d] = threads[d]
  BY <1>1, <1>2, <1>6 DEF HandsInv, BarInv, PartsInv, Before, Behind, Passes
<1> QED
  BY <1>3, <1>4, <1>5, <1>6, OutsideMesh

-----------------------------------------------------------------------------
LEMMA TallyInit == Init => Tally
BY DEF Init, MesherInit, Tally, HandsInv, BarInv, PartsInv, Before, Behind, Passes

LEMMA TallyStep == IInv /\ IInv' /\ Tally /\ [Next]_vars => Tally'
<1> SUFFICES ASSUME IInv, IInv', Tally, [Next]_vars PROVE Tally'
  OBVIOUS
<1>1. TypeOK /\ TypeOK' /\ MeshInv
  BY DEF IInv
<1>2. ASSUME NEW b \in Builders, MeshStep(b)
      PROVE  Tally'
  <2> SUFFICES ASSUME NEW d \in Builders
               PROVE  HandsInv(d)' /\ BarInv(d)' /\ PartsInv(d)'
    BY DEF Tally
  <2>1. HandsInv(d) /\ BarInv(d) /\ PartsInv(d)
    BY DEF Tally
  <2>2. CASE d = b
    BY <1>1, <1>2, <2>1, <2>2, HandsAndBar, MeshParts
  <2>3. CASE d # b
    BY <1>1, <1>2, <2>1, <2>3, MeshFrame, SameKeeps
  <2> QED
    BY <2>2, <2>3
<1>3. ASSUME NEW b \in Builders,
             \/ CheckLock(b) \/ WritePayload(b) \/ OpenExport(b) \/ WriteExport(b)
             \/ ReportResult(b) \/ Exit(b) \/ ChildFails(b)
             \/ ProducerStep(b) \/ Interrupt(b) \/ Kill(b) \/ Edit
      PROVE  Tally'
  BY <1>1, <1>3, OutsideKeeps
<1>4. CASE Builders = {}
  BY <1>4 DEF Tally
<1>5. CASE UNCHANGED vars
  <2>1. \A d \in Builders : Same(d)
    BY <1>5 DEF vars, mesher, Same
  <2> QED
    BY <2>1, SameKeeps DEF Tally
<1> QED
  BY <1>2, <1>3, <1>4, <1>5 DEF Next, ChildStep

\* What the main thread has read of a pass: the bar is the number of planes counted, and the
\* outputs of the chunks answered are the slabs of those chunks.
THEOREM TallyHolds == Spec => []Tally
BY Invariance, TallyInit, TallyStep, PTL DEF Spec

\* Every pass counts each of its planes once, for every grid, every number of threads and of
\* chunks, and every order in which the planes' messages and the answers are read.
THEOREM ProgressStaysExact == Spec => []ProgressIsExact
<1>1. Tally => ProgressIsExact
  <2> SUFFICES ASSUME Tally, NEW b \in Builders
               PROVE  /\ stage[b] = "polygonize" /\ bar[b].phase = "sample" =>
                           bar[b].done = Cells + 1
                      /\ stage[b] = "meshed" => bar[b] = [phase |-> "polygonize", done |-> Cells]
    BY DEF ProgressIsExact
  <2>1. BarInv(b)
    BY DEF Tally
  <2>2. \A n : Bar("polygonize", n).phase # "sample"
    BY DEF Bar
  <2> QED
    BY <2>1, <2>2 DEF BarInv, Bar
<1> QED
  BY <1>1, TallyHolds, PTL

\* The mesh of the threads is the serial mesh, slab by slab, for every grid, every number of
\* threads and of chunks, and every order in which the chunks are answered.
THEOREM MeshStaysSerial == Spec => []MeshIsSerial
<1>1. IInv /\ Tally => MeshIsSerial
  <2> SUFFICES ASSUME IInv, Tally, NEW b \in Builders, stage[b] \in Behind
               PROVE  Mesh(b) = SerialMesh
    BY DEF MeshIsSerial, Behind
  <2>1. outputs[b] = Parts(threads[b])
    BY DEF Tally, PartsInv
  <2>2. threads[b] \in Nat \ {0}
    BY CountFacts DEF IInv, TypeOK
  <2> QED
    BY <2>1, <2>2, PartsJoin DEF Mesh
<1> QED
  BY <1>1, Invariance, TallyHolds, PTL

=============================================================================
