--------------------------- MODULE CadWorkerProofs ---------------------------
(* What holds of CadWorker for every number of threads, artifacts, processes and faults. *)
EXTENDS CadWorker, SequenceTheorems, TLAPS

\* The points of a thread that has CadWorker's lock.
Holding == Sending \cup Waiting \cup {"closing", "reclosing"}

\* Who talks to the warm worker or reaps it has CadWorker's lock, who waits has sent, and who
\* waits for a cold process has one.
Turns ==
  \A t \in Threads :
    /\ at[t] \in Holding => mutex = t
    /\ at[t] \in Waiting => proc \in Procs /\ expects[t] # 0
    /\ at[t] = "coldwait" => cold[t] \in Procs

\* A process at work has a job.
Jobs == \A p \in Procs : step[p] \in {"acquire", "locked", "committed"} => job[p] \in Frame

\* An id is given out once: a frame or a line under the id that a thread expects is its own,
\* on whatever pipe it is.
Mine(x) ==
  /\ x.id <= nextId
  /\ \A t \in Threads : x.id # 0 /\ x.id = expects[t] => x.owner = t

Ids ==
  /\ \A t \in Threads : expects[t] <= nextId
  /\ \A p \in Procs :
       /\ job[p] \in Frame => Mine(job[p])
       /\ \A i \in 1 .. Len(inbox[p]) : Mine(inbox[p][i])
       /\ \A i \in 1 .. Len(outbox[p]) : Mine(outbox[p][i])

\* What was written is there.
Written == \A t \in Threads : commits[t] > 0 => fresh[ArtifactOf[t]]

IInv ==
  /\ TypeOK /\ Turns /\ Jobs /\ Ids /\ Written
  /\ AnswersAreOwn /\ OneCommitPerRequest /\ NoLeakedWorkers

-----------------------------------------------------------------------------
Line == [id: Nat, owner: Threads, result: Results]

LEMMA NoFrameIsNoFrame == NoFrame \notin Frame
BY NoneAssumption DEF NoFrame, Frame

\* What the state of the processes may become when some of them stop or end their jobs.
Losing ==
  /\ life' \in [Procs -> {"unborn", "running", "doomed", "dead"}]
  /\ wedged' \subseteq Procs /\ heirs' \subseteq Procs
  /\ lock' \in [Artifacts -> Procs \cup {None}]
  /\ job' \in [Procs -> Frame \cup {NoFrame}] /\ step' \in [Procs -> Steps]
  /\ \A p \in Procs : life'[p] = "running" => life[p] = "running"
  /\ \A p \in Procs : \/ job'[p] = job[p] /\ step'[p] = step[p]
                      \/ job'[p] = NoFrame /\ step'[p] \in {"idle", "replied"}

LEMMA GoneFacts ==
  ASSUME TypeOK, NEW p \in Procs, Gone(p)
  PROVE  Losing /\ life'[p] = "dead"
<1>1. /\ life \in [Procs -> {"unborn", "running", "doomed", "dead"}] /\ wedged \subseteq Procs
      /\ lock \in [Artifacts -> Procs \cup {None}]
      /\ job \in [Procs -> Frame \cup {NoFrame}] /\ step \in [Procs -> Steps]
  BY DEF TypeOK
<1>2. lock' \in [Artifacts -> Procs \cup {None}]
  BY <1>1 DEF Gone, Unlocked
<1>3. /\ job' \in [Procs -> Frame \cup {NoFrame}] /\ step' \in [Procs -> Steps]
      /\ job'[p] = NoFrame /\ step'[p] = "idle"
      /\ \A q \in Procs : q # p => job'[q] = job[q] /\ step'[q] = step[q]
  BY <1>1 DEF Gone, Steps
<1>4. /\ life' \in [Procs -> {"unborn", "running", "doomed", "dead"}] /\ life'[p] = "dead"
      /\ \A q \in Procs : q # p => life'[q] = life[q]
      /\ wedged' \subseteq Procs
  BY <1>1 DEF Gone
<1>5. heirs' \subseteq Procs
  BY DEF Gone, Bequeaths, TypeOK
<1> QED
  BY <1>2, <1>3, <1>4, <1>5 DEF Losing

LEMMA KeptFacts ==
  ASSUME TypeOK, UNCHANGED procVars
  PROVE  Losing
BY DEF TypeOK, Losing, procVars

\* _reap() leaves no running process behind, and its thread closes pipes or goes on.
LEMMA ReapFacts ==
  ASSUME TypeOK, NEW t \in Threads, NEW to \in Sending, Reap(t, to)
  PROVE  /\ Losing /\ proc' = None /\ reaping' \in Procs \cup {None}
         /\ \E point \in Holding \ Waiting : at' = [at EXCEPT ![t] = point]
         /\ \A p \in Procs : life'[p] = "running" => p # proc
<1>1. life \in [Procs -> {"unborn", "running", "doomed", "dead"}] /\ proc \in Procs \cup {None}
  BY DEF TypeOK
<1>5. /\ proc' = None /\ reaping' \in Procs \cup {None}
      /\ \E point \in Holding \ Waiting : at' = [at EXCEPT ![t] = point]
  BY <1>1 DEF Reap, ClosingBefore, Holding, Sending, Waiting
<1>2. CASE Alive /\ Gone(proc)
  <2>1. proc \in Procs
    BY <1>1, <1>2 DEF Alive
  <2> QED
    BY <1>2, <1>5, <2>1, GoneFacts
<1>3. CASE Alive /\ life' = [life EXCEPT ![proc] = "doomed"] /\ UNCHANGED <<lock, wedged, heirs, job, step>>
  <2>1. proc \in Procs
    BY <1>1, <1>3 DEF Alive
  <2>2. life' \in [Procs -> {"unborn", "running", "doomed", "dead"}] /\ life'[proc] = "doomed"
        /\ \A q \in Procs : q # proc => life'[q] = life[q]
    BY <1>1, <1>3, <2>1
  <2> QED
    BY <1>3, <1>5, <2>1, <2>2 DEF Losing, TypeOK
<1>4. CASE ~ Alive /\ UNCHANGED procVars
  BY <1>1, <1>4, <1>5, KeptFacts, NoneAssumption DEF Alive, procVars
<1> QED
  BY <1>2, <1>3, <1>4 DEF Reap

\* A response: the job is over, and its line carries its id and owner.
LEMMA RespondFacts ==
  ASSUME TypeOK, NEW p \in Procs, job[p] \in Frame, NEW r \in Results, Respond(p, r)
  PROVE  /\ job' \in [Procs -> Frame \cup {NoFrame}] /\ step' \in [Procs -> Steps]
         /\ job'[p] = NoFrame /\ step'[p] \in {"idle", "replied"}
         /\ \A q \in Procs : q # p => job'[q] = job[q] /\ step'[q] = step[q]
         /\ outbox' \in [Procs -> Seq(Line)]
         /\ \A q \in Procs : q # p => outbox'[q] = outbox[q]
         /\ \A i \in 1 .. Len(outbox'[p]) :
              \/ i \in 1 .. Len(outbox[p]) /\ outbox'[p][i] = outbox[p][i]
              \/ outbox'[p][i].id = job[p].id /\ outbox'[p][i].owner = job[p].owner
<1>1. /\ job \in [Procs -> Frame \cup {NoFrame}] /\ step \in [Procs -> Steps]
      /\ outbox \in [Procs -> Seq(Line)] /\ outbox[p] \in Seq(Line)
  BY DEF TypeOK, Line
<1> DEFINE line == [id |-> job[p].id, owner |-> job[p].owner, result |-> r]
<1>2. line \in Line /\ line.id = job[p].id /\ line.owner = job[p].owner
  BY DEF Line, Frame
<1>3. outbox' = [outbox EXCEPT ![p] = Append(outbox[p], line)]
  BY DEF Respond
<1> HIDE DEF line
<1>4. /\ Append(outbox[p], line) \in Seq(Line)
      /\ Len(Append(outbox[p], line)) = Len(outbox[p]) + 1
      /\ \A i \in 1 .. Len(outbox[p]) : Append(outbox[p], line)[i] = outbox[p][i]
      /\ Append(outbox[p], line)[Len(outbox[p]) + 1] = line
      /\ Len(outbox[p]) \in Nat
  BY <1>1, <1>2, AppendProperties, LenProperties
<1>5. /\ outbox' \in [Procs -> Seq(Line)] /\ outbox'[p] = Append(outbox[p], line)
      /\ \A q \in Procs : q # p => outbox'[q] = outbox[q]
  BY <1>1, <1>3, <1>4
<1>6. \A i \in 1 .. Len(outbox'[p]) :
        \/ i \in 1 .. Len(outbox[p]) /\ outbox'[p][i] = outbox[p][i]
        \/ outbox'[p][i] = line
  BY <1>4, <1>5
<1>7. /\ job' \in [Procs -> Frame \cup {NoFrame}] /\ step' \in [Procs -> Steps]
      /\ job'[p] = NoFrame /\ step'[p] \in {"idle", "replied"}
      /\ \A q \in Procs : q # p => job'[q] = job[q] /\ step'[q] = step[q]
  BY <1>1 DEF Respond, Steps
<1> QED
  BY <1>2, <1>5, <1>6, <1>7

-----------------------------------------------------------------------------
\* No process runs and nothing was asked at first.
LEMMA InitIInv == Init => IInv
<1> SUFFICES ASSUME Init PROVE IInv
  OBVIOUS
<1>1. TypeOK
  <2>1. /\ inbox \in [Procs -> Seq(Frame)] /\ outbox \in [Procs -> Seq(Line)]
    BY EmptySeq DEF Init
  <2>2. job \in [Procs -> Frame \cup {NoFrame}] /\ step \in [Procs -> Steps]
    BY DEF Init, Steps
  <2> QED
    BY <2>1, <2>2, BoundsAssumption DEF Init, TypeOK, Points, Line
<1>2. Turns /\ Jobs /\ Written
  BY DEF Init, Turns, Jobs, Written, Sending, Waiting, Holding
<1>3. Ids
  BY NoFrameIsNoFrame DEF Init, Ids
<1>4. AnswersAreOwn /\ OneCommitPerRequest /\ NoLeakedWorkers
  BY DEF Init, AnswersAreOwn, OneCommitPerRequest, NoLeakedWorkers, NoAnswer
<1> QED
  BY <1>1, <1>2, <1>3, <1>4 DEF IInv

-----------------------------------------------------------------------------
\* The processes. What a step of one keeps: the client's state, the frames that were not
\* taken, and every id it puts on a line.
ProcessStep(p) == Work(p) \/ FailJob(p) \/ Die(p) \/ Wedge(p) \/ Expire(p) \/ Disinherit(p)

Processed ==
  /\ UNCHANGED clientVars
  /\ life' \in [Procs -> {"unborn", "running", "doomed", "dead"}]
  /\ wedged' \subseteq Procs /\ heirs' \subseteq Procs
  /\ lock' \in [Artifacts -> Procs \cup {None}]
  /\ job' \in [Procs -> Frame \cup {NoFrame}] /\ step' \in [Procs -> Steps]
  /\ inbox' \in [Procs -> Seq(Frame)] /\ outbox' \in [Procs -> Seq(Line)]
  /\ faults' \in 0 .. MaxFaults
  /\ \A p \in Procs : life'[p] = "running" => life[p] = "running"
  /\ \A p \in Procs : step'[p] \in {"acquire", "locked", "committed"} => job'[p] \in Frame
  /\ \A p \in Procs : job'[p] \in Frame => Mine(job'[p])
  /\ \A p \in Procs, i \in Nat : i \in 1 .. Len(inbox'[p]) => Mine(inbox'[p][i])
  /\ \A p \in Procs, i \in Nat : i \in 1 .. Len(outbox'[p]) => Mine(outbox'[p][i])

LEMMA ProcessFacts ==
  ASSUME IInv, NEW p \in Procs, ProcessStep(p)
  PROVE  Processed
<1> USE DEF clientVars
<1>1. /\ life \in [Procs -> {"unborn", "running", "doomed", "dead"}] /\ wedged \subseteq Procs
      /\ heirs \subseteq Procs
      /\ lock \in [Artifacts -> Procs \cup {None}]
      /\ job \in [Procs -> Frame \cup {NoFrame}] /\ step \in [Procs -> Steps]
      /\ inbox \in [Procs -> Seq(Frame)] /\ outbox \in [Procs -> Seq(Line)]
      /\ faults \in 0 .. MaxFaults /\ MaxFaults \in Nat
  BY BoundsAssumption DEF IInv, TypeOK, Line
<1>2. /\ \A q \in Procs : step[q] \in {"acquire", "locked", "committed"} => job[q] \in Frame
      /\ \A q \in Procs : job[q] \in Frame => Mine(job[q])
      /\ \A q \in Procs, i \in Nat : i \in 1 .. Len(inbox[q]) => Mine(inbox[q][i])
      /\ \A q \in Procs, i \in Nat : i \in 1 .. Len(outbox[q]) => Mine(outbox[q][i])
  BY DEF IInv, Jobs, Ids
<1>3. ASSUME NEW r \in Results, job[p] \in Frame, Respond(p, r), UNCHANGED <<clientVars, inbox, life, wedged, heirs>>,
             lock' \in [Artifacts -> Procs \cup {None}], faults' \in 0 .. MaxFaults
      PROVE  Processed
  <2>1. \A i \in Nat : i \in 1 .. Len(outbox'[p]) => Mine(outbox'[p][i])
    <3> SUFFICES ASSUME NEW i \in Nat, i \in 1 .. Len(outbox'[p]) PROVE Mine(outbox'[p][i])
      OBVIOUS
    <3>1. \/ i \in 1 .. Len(outbox[p]) /\ outbox'[p][i] = outbox[p][i]
          \/ outbox'[p][i].id = job[p].id /\ outbox'[p][i].owner = job[p].owner
      BY <1>3, RespondFacts DEF IInv
    <3> QED
      BY <1>2, <1>3, <3>1 DEF Mine
  <2>2. /\ job' \in [Procs -> Frame \cup {NoFrame}] /\ step' \in [Procs -> Steps]
        /\ job'[p] = NoFrame /\ step'[p] \in {"idle", "replied"}
        /\ \A q \in Procs : q # p => job'[q] = job[q] /\ step'[q] = step[q]
        /\ outbox' \in [Procs -> Seq(Line)]
        /\ \A q \in Procs : q # p => outbox'[q] = outbox[q]
    BY <1>3, RespondFacts DEF IInv
  <2> QED
    BY <1>1, <1>2, <1>3, <2>1, <2>2, NoFrameIsNoFrame DEF Processed
<1>4. ASSUME Losing, UNCHANGED <<clientVars, inbox, outbox>>, faults' \in 0 .. MaxFaults
      PROVE  Processed
  <2>1. \A q \in Procs : step'[q] \in {"acquire", "locked", "committed"} => job'[q] \in Frame
    BY <1>2, <1>4 DEF Losing
  <2>2. \A q \in Procs : job'[q] \in Frame => Mine(job'[q])
    BY <1>2, <1>4, NoFrameIsNoFrame DEF Losing
  <2> QED
    BY <1>1, <1>2, <1>4, <2>1, <2>2 DEF Losing, Processed
<1>5. CASE Take(p)
  <2>1. inbox[p] \in Seq(Frame) /\ inbox[p] # <<>>
    BY <1>1, <1>5 DEF Take
  <2>2. /\ Head(inbox[p]) \in Frame /\ Head(inbox[p]) = inbox[p][1] /\ 1 \in 1 .. Len(inbox[p])
        /\ Tail(inbox[p]) \in Seq(Frame)
        /\ \A i \in 1 .. Len(Tail(inbox[p])) :
             Tail(inbox[p])[i] = inbox[p][i + 1] /\ i + 1 \in 1 .. Len(inbox[p])
    BY <2>1, HeadTailProperties, LenProperties, EmptySeq
  <2>3. /\ inbox' \in [Procs -> Seq(Frame)] /\ inbox'[p] = Tail(inbox[p])
        /\ \A q \in Procs : q # p => inbox'[q] = inbox[q]
        /\ job' \in [Procs -> Frame \cup {NoFrame}] /\ job'[p] = inbox[p][1]
        /\ \A q \in Procs : q # p => job'[q] = job[q] /\ step'[q] = step[q]
        /\ step' \in [Procs -> Steps]
    BY <1>1, <1>5, <2>2 DEF Take, Steps
  <2>4. \A i \in Nat : i \in 1 .. Len(inbox'[p]) => Mine(inbox'[p][i])
    BY <1>2, <2>2, <2>3
  <2>5. job'[p] \in Frame /\ Mine(job'[p])
    BY <1>2, <2>2, <2>3
  <2> QED
    BY <1>1, <1>2, <1>5, <2>3, <2>4, <2>5 DEF Take, Processed
<1>6. CASE Lock(p)
  <2>1. step' \in [Procs -> Steps] /\ \A q \in Procs : q # p => step'[q] = step[q]
    BY <1>1, <1>6 DEF Lock, Steps
  <2>2. job[p] \in Frame
    BY <1>2, <1>6 DEF Lock
  <2>3. lock' \in [Artifacts -> Procs \cup {None}]
    BY <1>1, <1>6 DEF Lock
  <2> QED
    BY <1>1, <1>2, <1>6, <2>1, <2>2, <2>3 DEF Lock, Processed
<1>7. CASE Contend(p)
  BY <1>1, <1>2, <1>3, <1>7 DEF Contend, Results
<1>8. CASE Build(p)
  <2>1. step' \in [Procs -> Steps] /\ \A q \in Procs : q # p => step'[q] = step[q]
    BY <1>1, <1>8 DEF Build, Steps
  <2>2. job[p] \in Frame
    BY <1>2, <1>8 DEF Build
  <2> QED
    BY <1>1, <1>2, <1>8, <2>1, <2>2 DEF Build, Processed
<1>9. Unlocked(p) \in [Artifacts -> Procs \cup {None}]
  BY <1>1 DEF Unlocked
<1>10. CASE Reply(p)
  BY <1>1, <1>2, <1>3, <1>9, <1>10 DEF Reply, Results
<1>11. CASE FailJob(p)
  <2>0. faults < MaxFaults /\ faults' = faults + 1
    BY <1>11 DEF FailJob
  <2>1. faults' \in 0 .. MaxFaults
    BY <1>1, <2>0
  <2> QED
    BY <1>2, <1>3, <1>9, <1>11, <2>1 DEF FailJob, Results
<1>12. CASE Die(p)
  <2>1. faults' \in 0 .. MaxFaults
    BY <1>1, <1>12 DEF Die
  <2> QED
    BY <1>4, <1>12, <2>1, GoneFacts DEF Die, IInv
<1>13. CASE Wedge(p)
  <2>1. faults' \in 0 .. MaxFaults
    BY <1>1, <1>13 DEF Wedge
  <2> QED
    BY <1>1, <1>2, <1>13, <2>1 DEF Wedge, Processed
<1>14. CASE Expire(p)
  BY <1>1, <1>4, <1>14, GoneFacts DEF Expire, IInv
<1>15. CASE Disinherit(p)
  BY <1>1, <1>2, <1>15 DEF Disinherit, Processed
<1> QED
  BY <1>5, <1>6, <1>7, <1>8, <1>10, <1>11, <1>12, <1>13, <1>14, <1>15 DEF ProcessStep, Work

\* Only a build writes, and an unforced one only what is not there.
LEMMA ProcessWrites ==
  ASSUME IInv, NEW p \in Procs, ProcessStep(p)
  PROVE  /\ fresh' \in [Artifacts -> BOOLEAN] /\ commits' \in [Threads -> Nat]
         /\ Written' /\ OneCommitPerRequest'
<1>1. /\ fresh \in [Artifacts -> BOOLEAN] /\ commits \in [Threads -> Nat]
      /\ Written /\ OneCommitPerRequest
  BY DEF IInv, TypeOK
<1>2. CASE Build(p)
  <2> DEFINE t == job[p].owner
  <2>1. t \in Threads /\ ArtifactOf[t] \in Artifacts
    BY <1>2, ThreadsAssumption DEF Build, IInv, Jobs, Frame
  <2>2. /\ fresh' \in [Artifacts -> BOOLEAN] /\ fresh'[ArtifactOf[t]]
        /\ \A a \in Artifacts : fresh[a] => fresh'[a]
    BY <1>1, <1>2, <2>1 DEF Build, Artifact
  <2>3. /\ commits' \in [Threads -> Nat]
        /\ \A u \in Threads : u # t => commits'[u] = commits[u]
        /\ \/ commits'[t] = commits[t]
           \/ commits'[t] = commits[t] + 1 /\ (t \in Forced \/ ~ fresh[ArtifactOf[t]])
    <3>1. commits[t] \in Nat /\ commits[t] + 1 \in Nat
      BY <1>1, <2>1
    <3>2. commits' = [commits EXCEPT ![t] =
                        IF fresh[ArtifactOf[t]] /\ t \notin Forced THEN commits[t] ELSE commits[t] + 1]
      BY <1>2 DEF Build, Artifact
    <3>3. CASE fresh[ArtifactOf[t]] /\ t \notin Forced
      <4>1. commits' = [commits EXCEPT ![t] = commits[t]]
        BY <3>2, <3>3
      <4> QED
        BY <1>1, <2>1, <4>1
    <3>4. CASE ~ (fresh[ArtifactOf[t]] /\ t \notin Forced)
      <4>1. commits' = [commits EXCEPT ![t] = commits[t] + 1]
        BY <3>2, <3>4
      <4> QED
        BY <1>1, <2>1, <3>1, <3>4, <4>1
    <3> QED
      BY <3>3, <3>4
  <2>4. Written'
    <3> SUFFICES ASSUME NEW u \in Threads, commits'[u] > 0 PROVE fresh'[ArtifactOf[u]]
      BY DEF Written
    <3>1. CASE u = t
      BY <3>1, <2>2
    <3>2. CASE u # t
      BY <3>2, <1>1, <2>2, <2>3, ThreadsAssumption DEF Written
    <3> QED
      BY <3>1, <3>2
  <2>5. OneCommitPerRequest'
    <3> SUFFICES ASSUME NEW u \in Threads \ Forced PROVE commits'[u] <= 1
      BY DEF OneCommitPerRequest
    <3>1. CASE u = t /\ ~ fresh[ArtifactOf[t]]
      BY <3>1, <1>1, <2>1, <2>3 DEF Written
    <3>2. CASE u # t \/ commits'[t] = commits[t]
      BY <3>2, <1>1, <2>3 DEF OneCommitPerRequest
    <3> QED
      BY <3>1, <3>2, <2>3
  <2> QED
    BY <2>2, <2>3, <2>4, <2>5
<1>3. CASE UNCHANGED <<fresh, commits>>
  BY <1>1, <1>3 DEF Written, OneCommitPerRequest
<1>4. Build(p) \/ UNCHANGED <<fresh, commits>>
  BY DEF ProcessStep, Work, Take, Lock, Contend, Reply, FailJob, Die, Wedge, Expire,
         Disinherit
<1> QED
  BY <1>2, <1>3, <1>4

LEMMA ProcessKeeps ==
  ASSUME IInv, NEW p \in Procs, ProcessStep(p)
  PROVE  IInv'
<1>1. Processed
  BY ProcessFacts
<1>2. /\ fresh' \in [Artifacts -> BOOLEAN] /\ commits' \in [Threads -> Nat]
      /\ Written' /\ OneCommitPerRequest'
  BY ProcessWrites
<1>3. TypeOK'
  BY <1>1, <1>2 DEF Processed, clientVars, IInv, TypeOK, Line
<1>4. Turns' /\ Jobs'
  BY <1>1 DEF Processed, clientVars, IInv, Turns, Jobs
<1>5. Ids'
  BY <1>1 DEF Processed, clientVars, IInv, Ids, Mine
<1>6. AnswersAreOwn' /\ NoLeakedWorkers'
  BY <1>1 DEF Processed, clientVars, IInv, AnswersAreOwn, NoLeakedWorkers
<1> QED
  BY <1>2, <1>3, <1>4, <1>5, <1>6 DEF IInv

-----------------------------------------------------------------------------
\* The threads. A process that stops has no job.
LEMMA LosingJobs ==
  ASSUME IInv, Losing
  PROVE  Jobs' /\ \A p \in Procs : job'[p] \in Frame => Mine(job'[p])
BY NoFrameIsNoFrame DEF Losing, IInv, Jobs, Ids

\* A line is taken from a pipe.
LEMMA TailFacts ==
  ASSUME IInv, NEW p \in Procs, outbox[p] # <<>>, outbox' = [outbox EXCEPT ![p] = Tail(@)]
  PROVE  /\ outbox' \in [Procs -> Seq(Line)]
         /\ Head(outbox[p]) \in Line /\ Mine(Head(outbox[p]))
         /\ \A q \in Procs, i \in Nat : i \in 1 .. Len(outbox'[q]) => Mine(outbox'[q][i])
<1>1. outbox \in [Procs -> Seq(Line)] /\ outbox[p] \in Seq(Line)
  BY DEF IInv, TypeOK, Line
<1>2. /\ Head(outbox[p]) \in Line /\ Head(outbox[p]) = outbox[p][1] /\ 1 \in 1 .. Len(outbox[p])
      /\ Tail(outbox[p]) \in Seq(Line)
      /\ \A i \in 1 .. Len(Tail(outbox[p])) :
           Tail(outbox[p])[i] = outbox[p][i + 1] /\ i + 1 \in 1 .. Len(outbox[p])
  BY <1>1, HeadTailProperties, LenProperties, EmptySeq
<1>3. outbox' \in [Procs -> Seq(Line)] /\ outbox'[p] = Tail(outbox[p])
      /\ \A q \in Procs : q # p => outbox'[q] = outbox[q]
  BY <1>1, <1>2
<1>4. \A q \in Procs, i \in Nat : i \in 1 .. Len(outbox[q]) => Mine(outbox[q][i])
  BY DEF IInv, Ids
<1> QED
  BY <1>2, <1>3, <1>4

\* A frame is written to a pipe under a new id, its thread's.
LEMMA FrameFacts ==
  ASSUME IInv, NEW p \in Procs, NEW t \in Threads, NEW x \in Frame, x.owner = t,
         inbox'[p] = <<x>> \/ inbox'[p] = Append(inbox[p], x), inbox' = [inbox EXCEPT ![p] = inbox'[p]],
         \/ x.id = 0 /\ UNCHANGED <<nextId, expects>>
         \/ x.id = nextId + 1 /\ nextId' = nextId + 1 /\ expects' = [expects EXCEPT ![t] = nextId + 1],
         UNCHANGED <<job, outbox>>
  PROVE  inbox' \in [Procs -> Seq(Frame)] /\ Ids'
<1>1. /\ inbox \in [Procs -> Seq(Frame)] /\ inbox[p] \in Seq(Frame)
      /\ job \in [Procs -> Frame \cup {NoFrame}] /\ outbox \in [Procs -> Seq(Line)]
      /\ nextId \in Nat /\ expects \in [Threads -> Nat]
  BY DEF IInv, TypeOK, Line
<1>2. /\ inbox'[p] \in Seq(Frame)
      /\ \A i \in Nat : i \in 1 .. Len(inbox'[p]) =>
           \/ i \in 1 .. Len(inbox[p]) /\ inbox'[p][i] = inbox[p][i]
           \/ inbox'[p][i] = x
  <2>1. CASE inbox'[p] = <<x>>
    BY <2>1
  <2>2. CASE inbox'[p] = Append(inbox[p], x)
    BY <1>1, <2>2, AppendProperties, LenProperties
  <2> QED
    BY <2>1, <2>2
<1>3. inbox' \in [Procs -> Seq(Frame)] /\ \A q \in Procs : q # p => inbox'[q] = inbox[q]
  BY <1>1, <1>2
<1>4. \A u \in Threads : expects'[u] <= nextId'
  <2> SUFFICES ASSUME NEW u \in Threads PROVE expects'[u] <= nextId'
    OBVIOUS
  <2>1. expects[u] \in Nat /\ expects[u] <= nextId
    BY <1>1 DEF IInv, Ids
  <2>2. CASE expects' = expects /\ nextId' = nextId
    BY <2>1, <2>2
  <2>3. CASE nextId' = nextId + 1 /\ expects' = [expects EXCEPT ![t] = nextId + 1]
    BY <1>1, <2>1, <2>3
  <2> QED
    BY <2>2, <2>3
<1> DEFINE MineNext(y) == /\ y.id <= nextId'
                          /\ \A u \in Threads : y.id # 0 /\ y.id = expects'[u] => y.owner = u
<1>5. ASSUME NEW y, y.id \in Nat, Mine(y) PROVE MineNext(y)
  BY <1>1, <1>5 DEF Mine
<1>6. MineNext(x)
  <2>1. \A u \in Threads : expects[u] \in Nat /\ expects[u] <= nextId
    BY <1>1 DEF IInv, Ids
  <2> QED
    BY <1>1, <2>1
<1> HIDE DEF MineNext
<1>7. ASSUME NEW q \in Procs, NEW i \in 1 .. Len(inbox[q]) PROVE MineNext(inbox[q][i])
  <2>1. inbox[q][i] \in Frame
    BY <1>1, ElementOfSeq
  <2>2. inbox[q][i].id \in Nat
    BY <2>1 DEF Frame
  <2> QED
    BY <2>2, <1>5 DEF IInv, Ids
<1>8. ASSUME NEW q \in Procs, NEW i \in 1 .. Len(outbox[q]) PROVE MineNext(outbox[q][i])
  <2>1. outbox[q][i] \in Line
    BY <1>1, ElementOfSeq
  <2>2. outbox[q][i].id \in Nat
    BY <2>1 DEF Line
  <2> QED
    BY <2>2, <1>5 DEF IInv, Ids
<1>9. \A q \in Procs : job[q] \in Frame => MineNext(job[q])
  BY <1>5 DEF IInv, Ids, Frame
<1>10. \A q \in Procs : \A i \in 1 .. Len(inbox'[q]) : MineNext(inbox'[q][i])
  <2> SUFFICES ASSUME NEW q \in Procs, NEW i \in 1 .. Len(inbox'[q]) PROVE MineNext(inbox'[q][i])
    OBVIOUS
  <2>1. CASE q = p
    <3>1. i \in Nat
      BY <1>3, LenProperties
    <3> QED
      BY <2>1, <3>1, <1>2, <1>6, <1>7
  <2>2. CASE q # p
    BY <2>2, <1>3, <1>7
  <2> QED
    BY <2>1, <2>2
<1> QED
  BY <1>3, <1>4, <1>8, <1>9, <1>10 DEF Ids, Mine, MineNext

\* The steps that send.
LEMMA SendKeeps ==
  ASSUME IInv, NEW t \in Threads, Send(t) \/ SpawnAndSend(t)
  PROVE  IInv'
<1> DEFINE p == IF Alive THEN proc ELSE started + 1
           x == [id |-> nextId + 1, owner |-> t]
<1>1. /\ nextId \in Nat /\ at \in [Threads -> Points] /\ expects \in [Threads -> Nat]
      /\ started \in 0 .. MaxProcs /\ MaxProcs \in Nat /\ proc \in Procs \cup {None}
      /\ life \in [Procs -> {"unborn", "running", "doomed", "dead"}]
      /\ inbox \in [Procs -> Seq(Frame)]
      /\ t # None /\ None \notin Procs
  BY BoundsAssumption, NoneAssumption DEF IInv, TypeOK
<1>2. /\ at[t] \in Sending /\ at' = Waits(t)
      /\ nextId' = nextId + 1 /\ expects' = [expects EXCEPT ![t] = nextId + 1]
      /\ UNCHANGED <<answer, mutex, reaping, cold, wedged, heirs, job, step, outbox, lock, fresh,
                     commits, faults>>
  BY DEF Send, SpawnAndSend
<1>3. /\ p \in Procs /\ proc' = p
      /\ inbox'[p] = <<x>> \/ inbox'[p] = Append(inbox[p], x)
      /\ inbox' = [inbox EXCEPT ![p] = inbox'[p]]
      /\ \A q \in Procs : life'[q] = "running" => q = p \/ (life[q] = "running" /\ q # proc)
      /\ life' \in [Procs -> {"unborn", "running", "doomed", "dead"}]
      /\ started' \in 0 .. MaxProcs /\ invokes' \in Nat
  <2>1. CASE Send(t)
    <3>1. proc \in Procs /\ Alive
      BY <1>1, <2>1 DEF Send, Alive
    <3>2. inbox' = [inbox EXCEPT ![proc] = Append(inbox[proc], x)]
      BY <2>1 DEF Send
    <3> QED
      BY <1>1, <2>1, <3>1, <3>2 DEF Send, IInv, TypeOK
  <2>2. CASE SpawnAndSend(t)
    <3>1. started + 1 \in Procs /\ started + 1 \in 0 .. MaxProcs /\ ~ Alive
      BY <1>1, <2>2 DEF SpawnAndSend, Procs, Alive
    <3>2. /\ inbox' = [inbox EXCEPT ![started + 1] = <<x>>]
          /\ life' = [life EXCEPT ![started + 1] = "running"]
          /\ proc' = started + 1 /\ started' = started + 1 /\ invokes' = 0
      BY <2>2 DEF SpawnAndSend
    <3>3. \A q \in Procs : life[q] = "running" => q # proc
      BY <1>1, <3>1 DEF Alive
    <3> QED
      BY <1>1, <3>1, <3>2, <3>3
  <2> QED
    BY <2>1, <2>2
<1>4. x \in Frame /\ x.owner = t /\ x.id = nextId + 1
  BY <1>1 DEF Frame
<1> HIDE DEF p, x
<1>5. inbox' \in [Procs -> Seq(Frame)] /\ Ids'
  BY <1>2, <1>3, <1>4, FrameFacts
<1>6. /\ at' \in [Threads -> Points] /\ at'[t] \in Waiting
      /\ \A u \in Threads : u # t => at'[u] = at[u] /\ expects'[u] = expects[u]
      /\ expects' \in [Threads -> Nat] /\ expects'[t] # 0
  BY <1>1, <1>2 DEF Waits, Sending, Waiting, Points
<1>7. mutex = t
  BY <1>2 DEF IInv, Turns, Holding
<1>8. TypeOK'
  BY <1>1, <1>2, <1>3, <1>5, <1>6 DEF IInv, TypeOK
<1>9. Turns'
  <2> SUFFICES ASSUME NEW u \in Threads
               PROVE  /\ at'[u] \in Holding => mutex = u
                      /\ at'[u] \in Waiting => p \in Procs /\ expects'[u] # 0
                      /\ at'[u] = "coldwait" => cold[u] \in Procs
    BY <1>2, <1>3 DEF Turns
  <2> QED
    BY <1>3, <1>6, <1>7 DEF IInv, Turns, Holding, Sending, Waiting
<1>10. NoLeakedWorkers'
  <2> SUFFICES ASSUME NEW q \in Procs, life[q] = "running", q # proc
               PROVE  \E u \in Threads : cold[u] = q /\ at'[u] = "coldwait"
    BY <1>2, <1>3 DEF NoLeakedWorkers
  <2>1. PICK u \in Threads : cold[u] = q /\ at[u] = "coldwait"
    BY DEF IInv, NoLeakedWorkers
  <2>2. u # t
    BY <1>2, <2>1 DEF Sending
  <2> QED
    BY <1>6, <2>1, <2>2
<1>11. Jobs' /\ Written' /\ AnswersAreOwn' /\ OneCommitPerRequest'
  BY <1>2 DEF IInv, Jobs, Written, AnswersAreOwn, OneCommitPerRequest
<1> QED
  BY <1>5, <1>8, <1>9, <1>10, <1>11 DEF IInv

\* A cold subprocess is started.
LEMMA StartColdKeeps ==
  ASSUME IInv, NEW t \in Threads, StartCold(t)
  PROVE  IInv'
<1> DEFINE p == started + 1
           x == [id |-> 0, owner |-> t]
<1>1. /\ at \in [Threads -> Points] /\ cold \in [Threads -> Procs \cup {None}]
      /\ started \in 0 .. MaxProcs /\ MaxProcs \in Nat
      /\ life \in [Procs -> {"unborn", "running", "doomed", "dead"}]
      /\ inbox \in [Procs -> Seq(Frame)]
  BY BoundsAssumption DEF IInv, TypeOK
<1>2. p \in Procs /\ p \in 0 .. MaxProcs
  BY <1>1 DEF StartCold, Procs
<1>3. x \in Frame /\ x.owner = t /\ x.id = 0
  BY DEF Frame
<1>4. /\ at[t] = "cold" /\ started' = p
      /\ cold' = [cold EXCEPT ![t] = p] /\ life' = [life EXCEPT ![p] = "running"]
      /\ inbox' = [inbox EXCEPT ![p] = <<x>>] /\ at' = [at EXCEPT ![t] = "coldwait"]
      /\ UNCHANGED <<expects, answer, mutex, proc, reaping, nextId, invokes, wedged, heirs, job, step,
                     outbox, lock, fresh, commits, faults>>
  BY DEF StartCold
<1> HIDE DEF p, x
<1>5. inbox'[p] = <<x>> /\ inbox' = [inbox EXCEPT ![p] = inbox'[p]]
  BY <1>1, <1>2, <1>4
<1>6. inbox' \in [Procs -> Seq(Frame)] /\ Ids'
  BY <1>2, <1>3, <1>4, <1>5, FrameFacts
<1>7. /\ at' \in [Threads -> Points] /\ at'[t] = "coldwait"
      /\ cold' \in [Threads -> Procs \cup {None}] /\ cold'[t] = p
      /\ \A u \in Threads : u # t => at'[u] = at[u] /\ cold'[u] = cold[u]
      /\ life' \in [Procs -> {"unborn", "running", "doomed", "dead"}]
      /\ \A q \in Procs : q # p => life'[q] = life[q]
  BY <1>1, <1>2, <1>4 DEF Points
<1>8. TypeOK'
  BY <1>2, <1>4, <1>6, <1>7 DEF IInv, TypeOK
<1>9. Turns'
  BY <1>2, <1>4, <1>7 DEF IInv, Turns, Holding, Sending, Waiting
<1>10. NoLeakedWorkers'
  <2> SUFFICES ASSUME NEW q \in Procs, life'[q] = "running", q # proc
               PROVE  \E u \in Threads : cold'[u] = q /\ at'[u] = "coldwait"
    BY <1>4 DEF NoLeakedWorkers
  <2>1. CASE q = p
    BY <1>7, <2>1
  <2>2. CASE q # p
    <3>1. PICK u \in Threads : cold[u] = q /\ at[u] = "coldwait"
      BY <1>7, <2>2 DEF IInv, NoLeakedWorkers
    <3> QED
      BY <1>4, <1>7, <3>1
  <2> QED
    BY <2>1, <2>2
<1>11. Jobs' /\ Written' /\ AnswersAreOwn' /\ OneCommitPerRequest'
  BY <1>4 DEF IInv, Jobs, Written, AnswersAreOwn, OneCommitPerRequest
<1> QED
  BY <1>6, <1>8, <1>9, <1>10, <1>11 DEF IInv

\* The steps that send nothing: t goes on, or gives up a process.
Answers == [owner: Threads, result: Results \ {"protocol error"}] \cup {NoAnswer}

LEMMA SettleKeeps ==
  ASSUME IInv, Losing, UNCHANGED <<expects, nextId, cold, started, inbox, fresh, commits>>,
         outbox' \in [Procs -> Seq(Line)],
         \A p \in Procs, i \in Nat : i \in 1 .. Len(outbox'[p]) => Mine(outbox'[p][i]),
         invokes' \in Nat, faults' \in 0 .. MaxFaults,
         answer' \in [Threads -> Answers], AnswersAreOwn',
         mutex' \in Threads \cup {None}, proc' \in Procs \cup {None}, at' \in [Threads -> Points],
         reaping' \in Procs \cup {None}, Turns', NoLeakedWorkers'
  PROVE  IInv'
<1>1. Jobs' /\ \A p \in Procs : job'[p] \in Frame => Mine(job'[p])
  BY LosingJobs
<1>2. TypeOK'
  BY DEF Losing, IInv, TypeOK, Line, Answers
<1>3. Ids'
  <2>1. \A p \in Procs : \A i \in 1 .. Len(outbox'[p]) : Mine(outbox'[p][i])
    BY LenProperties
  <2> QED
    BY <1>1, <2>1 DEF IInv, Ids, Mine
<1>4. Written' /\ OneCommitPerRequest'
  BY DEF IInv, Written, OneCommitPerRequest
<1> QED
  BY <1>1, <1>2, <1>3, <1>4 DEF IInv

\* A transport fault: nobody else talks to the worker that is reaped.
LEMMA FaultFacts ==
  ASSUME IInv, NEW t \in Threads, at[t] \in Sending \cup Waiting, Fault(t),
         UNCHANGED <<expects, cold>>
  PROVE  /\ Losing /\ mutex' \in Threads \cup {None} /\ proc' \in Procs \cup {None}
         /\ reaping' \in Procs \cup {None}
         /\ at' \in [Threads -> Points] /\ Turns' /\ NoLeakedWorkers'
<1>1. /\ at \in [Threads -> Points] /\ t # None /\ mutex = t
      /\ \A u \in Threads : u # t => at[u] \notin Holding
      /\ proc \in Procs \cup {None} /\ reaping \in Procs \cup {None}
  BY NoneAssumption DEF IInv, TypeOK, Turns, Holding
<1>2. /\ Losing /\ proc' \in {proc, None} /\ mutex' \in {mutex, None}
      /\ reaping' \in Procs \cup {None}
      /\ \A q \in Procs : life'[q] = "running" => life[q] = "running" /\ (proc' # proc => q # proc)
      /\ \/ /\ mutex' = mutex
            /\ \E point \in Holding \ Waiting : at' = [at EXCEPT ![t] = point]
         \/ at' = [at EXCEPT ![t] = "cold"]
  <2>1. CASE at[t] \in {"send", "wait"}
    <3>1. Reap(t, "resend") /\ mutex' = mutex
      BY <2>1 DEF Fault
    <3> QED
      BY <3>1, ReapFacts DEF Losing, IInv, Sending
  <2>2. CASE at[t] \notin {"send", "wait"}
    BY <1>1, <2>2, KeptFacts DEF Fault, Losing, IInv
  <2> QED
    BY <2>1, <2>2
<1>3. at' \in [Threads -> Points] /\ \A u \in Threads : u # t => at'[u] = at[u]
  BY <1>1, <1>2 DEF Points, Holding, Sending
<1>4. Turns'
  BY <1>1, <1>2, <1>3 DEF IInv, Turns, Holding, Sending, Waiting
<1>5. NoLeakedWorkers'
  <2> SUFFICES ASSUME NEW q \in Procs, life'[q] = "running", q # proc'
               PROVE  \E u \in Threads : cold[u] = q /\ at'[u] = "coldwait"
    BY DEF NoLeakedWorkers
  <2>1. life[q] = "running" /\ q # proc
    BY <1>2
  <2>2. PICK u \in Threads : cold[u] = q /\ at[u] = "coldwait"
    BY <2>1 DEF IInv, NoLeakedWorkers
  <2>3. u # t
    BY <2>2 DEF Waiting, Sending
  <2> QED
    BY <1>3, <2>2, <2>3
<1> QED
  BY <1>1, <1>2, <1>3, <1>4, <1>5

\* What a step leaves alone that is only about threads and processes.
LEMMA RestFacts ==
  ASSUME IInv, UNCHANGED <<answer, nextId, invokes, expects, outbox>>
  PROVE  /\ invokes' \in Nat /\ answer' \in [Threads -> Answers]
         /\ outbox' \in [Procs -> Seq(Line)]
         /\ \A p \in Procs, i \in Nat : i \in 1 .. Len(outbox'[p]) => Mine(outbox'[p][i])
         /\ AnswersAreOwn'
BY DEF IInv, TypeOK, Answers, Line, Ids, AnswersAreOwn

LEMMA EnterKeeps ==
  ASSUME IInv, NEW t \in Threads, Enter(t)
  PROVE  IInv'
<1>1. /\ at \in [Threads -> Points] /\ at[t] = "new" /\ mutex = None /\ mutex' = t
      /\ UNCHANGED <<expects, answer, nextId, invokes, cold, started, inbox, outbox, fresh,
                     commits, faults>>
      /\ proc \in Procs \cup {None} /\ reaping \in Procs \cup {None} /\ faults \in 0 .. MaxFaults
      /\ \A u \in Threads : at[u] \notin Holding
  BY NoneAssumption DEF Enter, IInv, TypeOK, Turns
<1>2. /\ Losing /\ proc' \in {proc, None} /\ reaping' \in Procs \cup {None}
      /\ \A q \in Procs : life'[q] = "running" => life[q] = "running" /\ (proc' # proc => q # proc)
      /\ \E point \in Holding \ Waiting : at' = [at EXCEPT ![t] = point]
  <2>1. CASE Reap(t, "send")
    BY <1>1, <2>1, ReapFacts DEF Losing, IInv, Sending
  <2>2. CASE at' = [at EXCEPT ![t] = "send"] /\ UNCHANGED <<proc, reaping, procVars>>
    BY <1>1, <2>2, KeptFacts DEF Losing, IInv, Holding, Sending, Waiting
  <2> QED
    BY <2>1, <2>2 DEF Enter
<1>3. /\ at' \in [Threads -> Points] /\ at'[t] \in Holding \ Waiting
      /\ \A u \in Threads : u # t => at'[u] = at[u]
  BY <1>1, <1>2 DEF Points, Holding, Sending
<1>4. Turns'
  BY <1>1, <1>2, <1>3 DEF IInv, Turns, Holding, Sending, Waiting
<1>5. NoLeakedWorkers'
  BY <1>1, <1>2, <1>3 DEF IInv, NoLeakedWorkers
<1> QED
  BY <1>1, <1>2, <1>3, <1>4, <1>5, RestFacts, SettleKeeps

LEMMA ReapDeadKeeps ==
  ASSUME IInv, NEW t \in Threads, ReapDead(t)
  PROVE  IInv'
<1>1. /\ at \in [Threads -> Points] /\ at[t] \in Sending /\ mutex = t /\ t # None
      /\ UNCHANGED <<expects, answer, mutex, nextId, invokes, cold, started, inbox, outbox, fresh,
                     commits, faults>>
      /\ faults \in 0 .. MaxFaults
      /\ \A u \in Threads : u # t => at[u] \notin Holding
  BY NoneAssumption DEF ReapDead, IInv, TypeOK, Turns, Holding
<1>2. /\ Losing /\ proc' = None /\ reaping' \in Procs \cup {None}
      /\ \A q \in Procs : life'[q] = "running" => life[q] = "running" /\ q # proc
      /\ \E point \in Holding \ Waiting : at' = [at EXCEPT ![t] = point]
  BY <1>1, ReapFacts DEF ReapDead, Losing, IInv
<1>3. /\ at' \in [Threads -> Points] /\ at'[t] \in Holding \ Waiting
      /\ \A u \in Threads : u # t => at'[u] = at[u]
  BY <1>1, <1>2 DEF Points, Holding, Sending
<1>4. Turns'
  BY <1>1, <1>2, <1>3 DEF IInv, Turns, Holding, Sending, Waiting
<1>5. NoLeakedWorkers'
  BY <1>1, <1>2, <1>3 DEF IInv, NoLeakedWorkers, Sending
<1> QED
  BY <1>1, <1>2, <1>3, <1>4, <1>5, RestFacts, SettleKeeps DEF IInv, TypeOK

LEMMA ClosePipesKeeps ==
  ASSUME IInv, NEW t \in Threads, ClosePipes(t)
  PROVE  IInv'
<1>1. /\ at \in [Threads -> Points] /\ at[t] \in {"closing", "reclosing"} /\ mutex = t /\ t # None
      /\ UNCHANGED <<workerVars, mutex, proc, nextId, invokes, cold, started, expects, answer>>
      /\ reaping' = None /\ faults \in 0 .. MaxFaults
      /\ at' = [at EXCEPT ![t] = IF @ = "closing" THEN "send" ELSE "resend"]
  BY NoneAssumption DEF ClosePipes, IInv, TypeOK, Turns, Holding
<1>2. /\ at' \in [Threads -> Points] /\ at'[t] \in Sending
      /\ \A u \in Threads : u # t => at'[u] = at[u]
  BY <1>1 DEF Points, Sending
<1>3. Turns'
  BY <1>1, <1>2 DEF IInv, Turns, Holding, Sending, Waiting
<1>4. NoLeakedWorkers'
  BY <1>1, <1>2 DEF IInv, NoLeakedWorkers, workerVars
<1>5. Losing
  BY <1>1, KeptFacts DEF IInv, workerVars, procVars
<1> QED
  BY <1>1, <1>2, <1>3, <1>4, <1>5, RestFacts, SettleKeeps DEF IInv, TypeOK, workerVars

LEMMA SpawnFailsKeeps ==
  ASSUME IInv, NEW t \in Threads, SpawnFails(t)
  PROVE  IInv'
<1>1. /\ at[t] \in Sending /\ Fault(t)
      /\ UNCHANGED <<expects, answer, nextId, invokes, cold, started, inbox, outbox, fresh, commits>>
  BY DEF SpawnFails
<1>2. faults' \in 0 .. MaxFaults
  <2>1. faults \in 0 .. MaxFaults /\ MaxFaults \in Nat
    BY BoundsAssumption DEF IInv, TypeOK
  <2>2. faults < MaxFaults /\ faults' = faults + 1
    BY DEF SpawnFails
  <2> QED
    BY <2>1, <2>2
<1> QED
  BY <1>1, <1>2, FaultFacts, RestFacts, SettleKeeps

\* A thread returns: its answer is its own.
LEMMA ReturnFacts ==
  ASSUME IInv, NEW t \in Threads, NEW r \in Results, r # "protocol error", Return(t, t, r),
         at[t] \in Waiting \cup {"cold", "coldwait"}
  PROVE  /\ answer' \in [Threads -> Answers] /\ AnswersAreOwn'
         /\ at' \in [Threads -> Points] /\ at'[t] = "returned"
         /\ \A u \in Threads : u # t => at'[u] = at[u]
<1>1. answer \in [Threads -> Answers] /\ at \in [Threads -> Points]
  BY DEF IInv, TypeOK, Answers
<1> DEFINE a == [owner |-> t, result |-> r]
<1>2. a \in Answers /\ a.owner = t
  BY DEF Answers
<1>3. answer' = [answer EXCEPT ![t] = a] /\ at' = [at EXCEPT ![t] = "returned"]
  BY DEF Return
<1> HIDE DEF a
<1> QED
  BY <1>1, <1>2, <1>3 DEF IInv, AnswersAreOwn, Points

LEMMA ReceiveKeeps ==
  ASSUME IInv, NEW t \in Threads, Receive(t)
  PROVE  IInv'
<1> DEFINE line == Head(outbox[proc])
<1>1. /\ at[t] \in Waiting /\ proc \in Procs /\ expects[t] # 0 /\ outbox[proc] # <<>>
      /\ at \in [Threads -> Points] /\ mutex = t /\ t # None
      /\ \A u \in Threads : u # t => at[u] \notin Holding
      /\ reaping \in Procs \cup {None}
  BY NoneAssumption DEF Receive, IInv, TypeOK, Turns, Holding
<1>2. /\ outbox' = [outbox EXCEPT ![proc] = Tail(@)]
      /\ UNCHANGED <<expects, nextId, cold, started, inbox, fresh, commits, faults>>
  BY DEF Receive
<1>3. /\ outbox' \in [Procs -> Seq(Line)] /\ line \in Line /\ Mine(line)
      /\ \A q \in Procs, i \in Nat : i \in 1 .. Len(outbox'[q]) => Mine(outbox'[q][i])
  BY <1>1, <1>2, TailFacts
<1> HIDE DEF line
<1>4. /\ invokes \in Nat /\ faults' \in 0 .. MaxFaults /\ answer \in [Threads -> Answers]
      /\ proc \in Procs \cup {None} /\ AnswersAreOwn
  BY <1>2 DEF IInv, TypeOK, Answers
<1>5. ASSUME at' \in [Threads -> Points], at'[t] \in {"returned", "cold"}, mutex' = None,
             \A u \in Threads : u # t => at'[u] = at[u], UNCHANGED <<proc, reaping, procVars>>
      PROVE  /\ Turns' /\ NoLeakedWorkers' /\ Losing /\ proc' \in Procs \cup {None}
             /\ reaping' \in Procs \cup {None}
  <2>1. Turns'
    BY <1>1, <1>2, <1>5 DEF IInv, Turns, Holding, Sending, Waiting
  <2>2. NoLeakedWorkers'
    BY <1>1, <1>2, <1>5 DEF IInv, NoLeakedWorkers, procVars, Waiting
  <2> QED
    BY <2>1, <2>2, <1>1, <1>4, <1>5, KeptFacts DEF IInv
<1>6. CASE /\ Matches(t, line) /\ line.result # "protocol error"
           /\ Return(t, line.owner, line.result) /\ mutex' = None /\ invokes' = invokes + 1
           /\ UNCHANGED <<proc, reaping, procVars>>
  <2>1. line.owner = t /\ line.result \in Results
    BY <1>1, <1>3, <1>6 DEF Matches, Mine, Line
  <2>2. /\ answer' \in [Threads -> Answers] /\ AnswersAreOwn'
        /\ at' \in [Threads -> Points] /\ at'[t] = "returned"
        /\ \A u \in Threads : u # t => at'[u] = at[u]
    BY <1>1, <1>6, <2>1, ReturnFacts
  <2>3. /\ Turns' /\ NoLeakedWorkers' /\ Losing /\ proc' \in Procs \cup {None}
        /\ reaping' \in Procs \cup {None}
    BY <1>5, <1>6, <2>2
  <2>4. invokes' \in Nat /\ mutex' \in Threads \cup {None}
    <3>1. invokes' = invokes + 1 /\ mutex' = None
      BY <1>6
    <3> QED
      BY <1>4, <3>1
  <2> QED
    BY <1>2, <1>3, <1>4, <2>2, <2>3, <2>4, SettleKeeps
<1>7. CASE /\ at' = [at EXCEPT ![t] = "cold"] /\ mutex' = None
           /\ UNCHANGED <<answer, invokes, proc, reaping, procVars>>
  <2>1. /\ at' \in [Threads -> Points] /\ at'[t] = "cold"
        /\ \A u \in Threads : u # t => at'[u] = at[u]
    BY <1>1, <1>7 DEF Points
  <2>2. /\ Turns' /\ NoLeakedWorkers' /\ Losing /\ proc' \in Procs \cup {None}
        /\ reaping' \in Procs \cup {None}
    BY <1>5, <1>7, <2>1
  <2>3. /\ invokes' \in Nat /\ mutex' \in Threads \cup {None} /\ answer' \in [Threads -> Answers]
        /\ AnswersAreOwn'
    BY <1>4, <1>7 DEF AnswersAreOwn
  <2> QED
    BY <1>2, <1>3, <1>4, <2>1, <2>2, <2>3, SettleKeeps
<1>8. CASE Fault(t) /\ UNCHANGED <<answer, invokes>>
  <2>1. /\ Losing /\ mutex' \in Threads \cup {None} /\ proc' \in Procs \cup {None}
        /\ reaping' \in Procs \cup {None}
        /\ at' \in [Threads -> Points] /\ Turns' /\ NoLeakedWorkers'
    BY <1>1, <1>2, <1>8, FaultFacts
  <2>2. invokes' \in Nat /\ answer' \in [Threads -> Answers] /\ AnswersAreOwn'
    BY <1>4, <1>8 DEF AnswersAreOwn
  <2> QED
    BY <1>2, <1>3, <1>4, <2>1, <2>2, SettleKeeps
<1> QED
  BY <1>6, <1>7, <1>8 DEF Receive, line

LEMMA LoseKeeps ==
  ASSUME IInv, NEW t \in Threads, Lose(t)
  PROVE  IInv'
<1>1. /\ at[t] \in Waiting /\ Fault(t)
      /\ UNCHANGED <<expects, answer, nextId, invokes, cold, started, inbox, outbox, fresh, commits>>
  BY DEF Lose
<1>2. /\ Losing /\ mutex' \in Threads \cup {None} /\ proc' \in Procs \cup {None}
      /\ reaping' \in Procs \cup {None}
      /\ at' \in [Threads -> Points] /\ Turns' /\ NoLeakedWorkers'
  BY <1>1, FaultFacts
<1>3. faults' \in 0 .. MaxFaults
  <2>1. faults \in 0 .. MaxFaults /\ MaxFaults \in Nat
    BY BoundsAssumption DEF IInv, TypeOK
  <2> QED
    BY <2>1 DEF Lose, Silent, Watchdog
<1> QED
  BY <1>1, <1>2, <1>3, RestFacts, SettleKeeps

LEMMA ColdEndKeeps ==
  ASSUME IInv, NEW t \in Threads, ColdDone(t) \/ ColdSilent(t)
  PROVE  IInv'
<1>1. /\ at[t] = "coldwait" /\ cold[t] \in Procs /\ at \in [Threads -> Points]
      /\ outbox \in [Procs -> Seq(Line)]
  BY DEF ColdDone, ColdSilent, IInv, TypeOK, Turns, Line
<1>2. /\ Gone(cold[t])
      /\ UNCHANGED <<expects, mutex, proc, reaping, nextId, invokes, cold, started, inbox, outbox,
                     fresh, commits>>
  BY DEF ColdDone, ColdSilent
<1>3. faults' \in 0 .. MaxFaults
  <2>1. faults \in 0 .. MaxFaults /\ MaxFaults \in Nat
    BY BoundsAssumption DEF IInv, TypeOK
  <2>2. faults' = faults \/ (faults < MaxFaults /\ faults' = faults + 1)
    BY DEF ColdDone, ColdSilent, Silent, Watchdog
  <2> QED
    BY <2>1, <2>2
<1>4. PICK r \in Results : r # "protocol error" /\ Return(t, t, r)
  <2>1. outbox[cold[t]] # <<>> => Head(outbox[cold[t]]).result \in Results
    <3> SUFFICES ASSUME outbox[cold[t]] # <<>> PROVE Head(outbox[cold[t]]) \in Line
      BY DEF Line
    <3> QED
      BY <1>1, HeadTailProperties
  <2> QED
    BY <2>1 DEF ColdDone, ColdSilent, ColdResult, Results
<1>5. /\ answer' \in [Threads -> Answers] /\ AnswersAreOwn'
      /\ at' \in [Threads -> Points] /\ at'[t] = "returned"
      /\ \A u \in Threads : u # t => at'[u] = at[u]
  BY <1>1, <1>4, ReturnFacts
<1>6. Losing /\ life'[cold[t]] = "dead"
  BY <1>1, <1>2, GoneFacts DEF IInv
<1>7. Turns'
  BY <1>2, <1>5 DEF IInv, Turns, Holding, Sending, Waiting
<1>8. NoLeakedWorkers'
  <2> SUFFICES ASSUME NEW q \in Procs, life'[q] = "running", q # proc
               PROVE  \E u \in Threads : cold[u] = q /\ at'[u] = "coldwait"
    BY <1>2 DEF NoLeakedWorkers
  <2>1. life[q] = "running" /\ q # cold[t]
    BY <1>6 DEF Losing
  <2> QED
    BY <1>5, <2>1 DEF IInv, NoLeakedWorkers
<1>9. /\ invokes' \in Nat /\ mutex' \in Threads \cup {None} /\ proc' \in Procs \cup {None}
      /\ reaping' \in Procs \cup {None}
      /\ outbox' \in [Procs -> Seq(Line)]
      /\ \A p \in Procs, i \in Nat : i \in 1 .. Len(outbox'[p]) => Mine(outbox'[p][i])
  BY <1>1, <1>2 DEF IInv, TypeOK, Ids
<1> QED
  BY <1>2, <1>3, <1>5, <1>6, <1>7, <1>8, <1>9, SettleKeeps

LEMMA ColdSpawnFailsKeeps ==
  ASSUME IInv, NEW t \in Threads, ColdSpawnFails(t)
  PROVE  IInv'
<1>1. /\ at[t] = "cold" /\ Return(t, t, "failed")
      /\ UNCHANGED <<expects, mutex, proc, reaping, nextId, invokes, cold, started, inbox, outbox,
                     fresh, commits, procVars>>
  BY DEF ColdSpawnFails, procVars
<1>2. faults' \in 0 .. MaxFaults
  <2>1. faults \in 0 .. MaxFaults /\ MaxFaults \in Nat
    BY BoundsAssumption DEF IInv, TypeOK
  <2>2. faults < MaxFaults /\ faults' = faults + 1
    BY DEF ColdSpawnFails
  <2> QED
    BY <2>1, <2>2
<1>3. /\ answer' \in [Threads -> Answers] /\ AnswersAreOwn'
      /\ at' \in [Threads -> Points] /\ at'[t] = "returned"
      /\ \A u \in Threads : u # t => at'[u] = at[u]
  BY <1>1, ReturnFacts DEF Results
<1>4. Turns'
  BY <1>1, <1>3 DEF IInv, Turns, Holding, Sending, Waiting
<1>5. NoLeakedWorkers' /\ Losing
  BY <1>1, <1>3, KeptFacts DEF IInv, NoLeakedWorkers, procVars
<1>6. /\ invokes' \in Nat /\ mutex' \in Threads \cup {None} /\ proc' \in Procs \cup {None}
      /\ reaping' \in Procs \cup {None}
      /\ outbox' \in [Procs -> Seq(Line)]
      /\ \A p \in Procs, i \in Nat : i \in 1 .. Len(outbox'[p]) => Mine(outbox'[p][i])
  BY <1>1 DEF IInv, TypeOK, Ids, Line
<1> QED
  BY <1>1, <1>2, <1>3, <1>4, <1>5, <1>6, SettleKeeps

LEMMA StrayReadKeeps ==
  ASSUME IInv, NEW t \in Threads, StrayRead(t)
  PROVE  IInv'
<1>1. /\ Alive /\ outbox[proc] # <<>> /\ outbox' = [outbox EXCEPT ![proc] = Tail(@)]
      /\ UNCHANGED <<clientVars, life, wedged, heirs, job, step, inbox, lock, fresh, commits, faults>>
      /\ proc \in Procs
  BY DEF StrayRead, IInv, TypeOK, Alive
<1>2. /\ outbox' \in [Procs -> Seq(Line)]
      /\ \A q \in Procs, i \in Nat : i \in 1 .. Len(outbox'[q]) => Mine(outbox'[q][i])
  BY <1>1, TailFacts
<1>3. Losing
  BY <1>1, KeptFacts DEF procVars, IInv
<1>4. /\ invokes' \in Nat /\ faults' \in 0 .. MaxFaults /\ answer' \in [Threads -> Answers]
      /\ mutex' \in Threads \cup {None} /\ proc' \in Procs \cup {None}
      /\ reaping' \in Procs \cup {None} /\ at' \in [Threads -> Points]
  BY <1>1 DEF clientVars, IInv, TypeOK, Answers
<1>5. AnswersAreOwn'
  BY <1>1 DEF clientVars, IInv, AnswersAreOwn
<1>6. Turns'
  BY <1>1 DEF clientVars, IInv, Turns
<1>7. NoLeakedWorkers'
  BY <1>1 DEF clientVars, IInv, NoLeakedWorkers
<1> QED
  BY <1>1, <1>2, <1>3, <1>4, <1>5, <1>6, <1>7, SettleKeeps DEF clientVars

-----------------------------------------------------------------------------
\* Every step keeps the invariant.
LEMMA NextIInv == IInv /\ [Next]_vars => IInv'
<1> SUFFICES ASSUME IInv, [Next]_vars PROVE IInv'
  OBVIOUS
<1>1. ASSUME NEW p \in Procs, ProcessStep(p) PROVE IInv'
  BY <1>1, ProcessKeeps
<1>2. ASSUME NEW t \in Threads, Run(t) \/ StrayRead(t) \/ SpawnFails(t) \/ ColdSpawnFails(t)
      PROVE  IInv'
  BY <1>2, EnterKeeps, ReapDeadKeeps, ClosePipesKeeps, SendKeeps, SpawnFailsKeeps, ReceiveKeeps,
     LoseKeeps, StartColdKeeps, ColdSpawnFailsKeeps, ColdEndKeeps, StrayReadKeeps DEF Run
<1>3. ASSUME UNCHANGED vars PROVE IInv'
  <2> USE <1>3 DEF IInv, vars, clientVars, workerVars
  <2>1. TypeOK'
    BY DEF TypeOK
  <2>2. Turns' /\ Jobs' /\ Written'
    BY DEF Turns, Jobs, Written
  <2>3. Ids'
    BY DEF Ids, Mine
  <2>4. AnswersAreOwn' /\ OneCommitPerRequest' /\ NoLeakedWorkers'
    BY DEF AnswersAreOwn, OneCommitPerRequest, NoLeakedWorkers
  <2> QED
    BY <2>1, <2>2, <2>3, <2>4
<1> QED
  BY <1>1, <1>2, <1>3 DEF Next, ProcessStep

\* Every variable keeps its type, for every number of threads, processes and faults.
THEOREM Types == Spec => []TypeOK
BY InitIInv, NextIInv, PTL DEF Spec, IInv

\* Whatever was retried, reaped, wedged or left behind on a pipe: a request is answered with
\* the result of its own job.
THEOREM AnswersStayOwn == Spec => []AnswersAreOwn
BY InitIInv, NextIInv, PTL DEF Spec, IInv

\* However often its attempts die after the package was written, an unforced request writes
\* it once at most.
THEOREM CommitsOnce == Spec => []OneCommitPerRequest
BY InitIInv, NextIInv, PTL DEF Spec, IInv

\* No worker that was given up runs on unsignalled, for any number of processes.
THEOREM NothingLeaks == Spec => []NoLeakedWorkers
BY InitIInv, NextIInv, PTL DEF Spec, IInv
=============================================================================
