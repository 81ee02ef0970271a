------------------------- MODULE CoordinationProofs -------------------------
(***************************************************************************)
(* The safety properties of Coordination, for every set of runs and        *)
(* readers, every assignment of producers and every set of faulty runs.    *)
(*                                                                         *)
(* The argument goes up in layers, each an inductive invariant that uses   *)
(* the ones below it: the types (TypeOK), who owns the kernel lock         *)
(* (LockInv), what a sentinel can name (StampInv), who wrote the record    *)
(* (RecordInv, OpenInv), how the package's version moves (BuildInv), what  *)
(* a reader has met (ViewInv).                                             *)
(***************************************************************************)
EXTENDS Coordination, TLAPS

-----------------------------------------------------------------------------
LEMMA InitTypes == Init => TypeOK
<1> SUFFICES ASSUME Init PROVE TypeOK
  OBVIOUS
<1> USE RunsAssumption, EditAssumption DEF Init
<1>1. source \in 0 .. MaxEdits /\ package \in Built
  BY DEF Built, Versions, Unbuilt
<1>2. pc \in [Runs -> Points] /\ outcome \in [Runs -> Results]
  BY DEF Points, Results
<1>3. ran \in [Runs -> Built]
  BY DEF Built, Versions, Unbuilt
<1>4. owner \in [Lanes -> Runs \cup {NoRun}] /\ probers \in [Lanes -> SUBSET Readers]
  OBVIOUS
<1>5. stamp \in [Lanes -> Runs \cup {Absent, Empty}]
  OBVIOUS
<1>6. record \in [Lanes -> Records]
  BY DEF Records, NoRecord, Outcomes
<1>7. view \in [Readers -> Views]
  BY DEF Views, Resting, Lanes
<1> QED
  BY <1>1, <1>2, <1>3, <1>4, <1>5, <1>6, <1>7 DEF TypeOK

LEMMA PublishTypes ==
  ASSUME record \in [Lanes -> Records], NEW r \in Runs,
         NEW result \in Outcomes, NEW bar \in BOOLEAN, Publish(r, result, bar)
  PROVE  record' \in [Lanes -> Records]
BY DEF Publish, Records, Lanes, Lane

LEMMA LockStepTypes ==
  ASSUME TypeOK, NEW r \in Runs, LockStep(r)
  PROVE  TypeOK'
<1> USE RunsAssumption DEF TypeOK, Step
<1>1. CASE FastPath(r)
  BY <1>1 DEF FastPath, lockVars, Points, Results
<1>2. CASE Open(r)
  BY <1>2 DEF Open, Points, Holding, Lane, Lanes
<1>3. CASE Acquire(r)
  <2>1. view' \in [Readers -> Views]
    BY <1>3 DEF Acquire, Views
  <2> QED
    BY <1>3, <2>1 DEF Acquire, Points, Holding, Lane, Lanes
<1>4. CASE GiveUp(r)
  BY <1>4 DEF GiveUp, lockVars, Points, Results
<1>5. CASE Degrade(r)
  BY <1>5 DEF Degrade, lockVars, Points, Holding
<1>6. CASE Truncate(r)
  BY <1>6 DEF Truncate, Points, Holding, Lane, Lanes
<1>7. CASE WriteRunId(r)
  BY <1>7 DEF WriteRunId, Points, Holding, Lane, Lanes
<1>8. CASE LoseStamp(r)
  BY <1>8 DEF LoseStamp, lockVars, Points, Holding
<1>9. CASE Release(r)
  BY <1>9 DEF Release, LetGo, Points
<1> QED
  BY <1>1, <1>2, <1>3, <1>4, <1>5, <1>6, <1>7, <1>8, <1>9 DEF LockStep

LEMMA BodyStepTypes ==
  ASSUME TypeOK, NEW r \in Runs, BodyStep(r) \/ Fail(r)
  PROVE  TypeOK'
<1> USE RunsAssumption DEF TypeOK, Step
<1>1. CASE PublishRunning(r)
  <2>1. record' \in [Lanes -> Records]
    BY <1>1, PublishTypes DEF PublishRunning, Outcomes
  <2> QED
    BY <1>1, <2>1 DEF PublishRunning, lockVars, Points, Holding
<1>2. CASE Finish(r)
  <2>1. record' \in [Lanes -> Records]
    BY <1>2, PublishTypes DEF Finish, Outcomes
  <2> QED
    BY <1>2, <2>1 DEF Finish, lockVars, Points, Holding
<1>3. CASE Fail(r)
  <2>1. record' \in [Lanes -> Records]
    BY <1>3, PublishTypes DEF Fail, InBody, Outcomes
  <2> QED
    BY <1>3, <2>1 DEF Fail, InBody, lockVars, Points, Holding, Results
<1> QED
  BY <1>1, <1>2, <1>3 DEF BodyStep

LEMMA BuildStepTypes ==
  ASSUME TypeOK, NEW r \in Builders, BuildStep(r)
  PROVE  TypeOK'
<1> USE RunsAssumption DEF TypeOK, Step
<1>0. r \in Runs
  BY DEF Runs
<1>1. CASE Skip(r)
  <2>1. record' \in [Lanes -> Records]
    BY <1>0, <1>1, PublishTypes DEF Skip, Outcomes
  <2> QED
    BY <1>0, <1>1, <2>1 DEF Skip, lockVars, Points, Holding
<1>2. CASE NeedsBuild(r)
  BY <1>0, <1>2 DEF NeedsBuild, lockVars, Points, Holding
<1>3. CASE ReturnExisting(r)
  BY <1>0, <1>3 DEF ReturnExisting, lockVars, Points, Holding, Results
<1>4. CASE FinalizeSkipped(r)
  <2>1. record' \in [Lanes -> Records]
    BY <1>0, <1>4, PublishTypes DEF FinalizeSkipped, Outcomes
  <2> QED
    BY <1>0, <1>4, <2>1 DEF FinalizeSkipped, lockVars, Points, Holding, Results
<1>5. CASE BuildAfterSkip(r)
  BY <1>0, <1>5 DEF BuildAfterSkip, lockVars, Points, Holding
<1>6. CASE Generate(r)
  <2>1. record' \in [Lanes -> Records]
    BY <1>0, <1>6, PublishTypes DEF Generate, Outcomes
  <2>2. ran' \in [Runs -> Built]
    BY <1>0, <1>6, EditAssumption DEF Generate, Built, Versions
  <2> QED
    BY <1>0, <1>6, <2>1, <2>2 DEF Generate, lockVars, Points, Holding
<1>7. CASE Capture(r)
  <2>1. ran' \in [Runs -> Built]
    BY <1>0, <1>7, EditAssumption DEF Capture, Built, Versions
  <2> QED
    BY <1>0, <1>7, <2>1 DEF Capture, lockVars, Points, Holding
<1>8. CASE Commit(r)
  BY <1>0, <1>8 DEF Commit, lockVars, Points, Holding, Results
<1> QED
  BY <1>1, <1>2, <1>3, <1>4, <1>5, <1>6, <1>7, <1>8 DEF BuildStep

LEMMA ExportTypes ==
  ASSUME TypeOK, NEW r \in Exporters, Export(r)
  PROVE  TypeOK'
<1>1. r \in Runs
  BY DEF Runs
<1>2. record' \in [Lanes -> Records]
  BY <1>1, PublishTypes DEF Export, Outcomes, TypeOK
<1> QED
  BY <1>1, <1>2 DEF TypeOK, Export, Step, lockVars, Points, Holding, Results

LEMMA ReadStepTypes ==
  ASSUME TypeOK, NEW q \in Readers, ReadStep(q)
  PROVE  TypeOK'
<1> USE RunsAssumption DEF TypeOK, runVars, lockVars
<1>1. ASSUME NEW l \in Lanes, NextLane(q, l)
      PROVE  view' \in [Readers -> Views]
  BY <1>1 DEF NextLane, Views, Resting, Lanes
<1>2. CASE ProbeMissing(q)
  BY <1>1, <1>2 DEF ProbeMissing
<1>3. CASE ProbeFree(q)
  <2>0. ASSUME NEW l \in Lanes
        PROVE  [Resting EXCEPT !.at = "unlock", !.lane = l] \in Views
    BY DEF Views, Resting, Lanes
  <2>1. view' \in [Readers -> Views]
    BY <1>3, <2>0 DEF ProbeFree
  <2>2. probers' \in [Lanes -> SUBSET Readers]
    BY <1>3 DEF ProbeFree, Lanes
  <2> QED
    BY <1>3, <2>1, <2>2 DEF ProbeFree
<1>4. CASE Unlock(q)
  <2>1. view[q].lane \in Lanes
    BY DEF Views
  <2>2. view' \in [Readers -> Views]
    BY <1>1, <1>4, <2>1 DEF Unlock
  <2> QED
    BY <1>4, <2>1, <2>2 DEF Unlock
<1>5. CASE ProbeHeld(q)
  <2>1. PICK l \in Lanes :
          view' = [view EXCEPT ![q] =
                     [Resting EXCEPT !.at = "readId", !.lane = l,
                                     !.holders = {owner[l]} \ {NoRun}]]
    BY <1>5 DEF ProbeHeld
  <2>2. {owner[l]} \ {NoRun} \in SUBSET Runs /\ l \in Lanes
    OBVIOUS
  <2>3. ASSUME NEW h \in SUBSET Runs
        PROVE  [Resting EXCEPT !.at = "readId", !.lane = l, !.holders = h] \in Views
    BY DEF Views, Resting, Lanes
  <2>4. view' \in [Readers -> Views]
    BY <2>1, <2>2, <2>3
  <2> QED
    BY <1>5, <2>4 DEF ProbeHeld
<1>6. CASE ReadRunId(q)
  <2>1. view[q] \in Views /\ stamp[view[q].lane] \in Runs \cup {Absent, Empty}
    BY DEF Views
  <2>2. ASSUME NEW v \in Views, NEW p \in Runs \cup {NoRun}
        PROVE  [v EXCEPT !.at = "readRecord", !.run = p] \in Views
    BY DEF Views
  <2>3. view' \in [Readers -> Views]
    BY <1>6, <2>1, <2>2 DEF ReadRunId
  <2> QED
    BY <1>6, <2>3 DEF ReadRunId
<1>7. CASE ReadRecord(q)
  <2>1. view[q].lane \in Lanes /\ view[q] \in Views
    BY DEF Views
  <2>2. ProgressForRun(record[view[q].lane], view[q].run) \in Runs \cup {NoRun}
    BY <2>1 DEF ProgressForRun, Records
  <2>3. view' \in [Readers -> Views]
    BY <1>7, <2>1, <2>2 DEF ReadRecord, Views
  <2> QED
    BY <1>7, <2>3 DEF ReadRecord
<1> QED
  BY <1>2, <1>3, <1>4, <1>5, <1>6, <1>7 DEF ReadStep

LEMMA NextTypes == TypeOK /\ [Next]_vars => TypeOK'
<1> SUFFICES ASSUME TypeOK, [Next]_vars PROVE TypeOK'
  OBVIOUS
<1>1. CASE Edit
  BY <1>1, EditAssumption DEF Edit, TypeOK, runVars, lockVars
<1>2. ASSUME NEW r \in Runs, Crash(r) PROVE TypeOK'
  BY <1>2, RunsAssumption DEF Crash, LetGo, TypeOK, Points
<1>3. CASE UNCHANGED vars
  BY <1>3 DEF vars, TypeOK
<1> QED
  BY <1>1, <1>2, <1>3, LockStepTypes, BodyStepTypes, BuildStepTypes, ExportTypes,
     ReadStepTypes DEF Next

\* Every variable keeps its type.
THEOREM TypeCorrect == Spec => []TypeOK
<1> QED
  BY InitTypes, NextTypes, PTL DEF Spec

-----------------------------------------------------------------------------

\* What a run does while it holds its lane, from the stamp to the release.
Work(r) ==
  \/ BodyStep(r) \/ Fail(r)
  \/ r \in Builders /\ BuildStep(r)
  \/ r \in Exporters /\ Export(r)

LEMMA NextCases ==
  ASSUME Next
  PROVE  \/ Edit
         \/ \E r \in Runs : Crash(r) \/ LockStep(r) \/ Work(r)
         \/ \E q \in Readers : ReadStep(q)
BY DEF Next, Work, Runs

\* Points of a run that has stamped its sentinel and still holds its lane.
Stamped == Holding \ {"locked", "truncated"}

\* Work moves one run between stamped points and leaves locks, stamps and views alone.
LEMMA WorkFrame ==
  ASSUME TypeOK, NEW r \in Runs, Work(r)
  PROVE  /\ UNCHANGED <<source, degraded, owner, probers, stamp, view>>
         /\ pc[r] \in Stamped
         /\ \E to \in Stamped : pc' = [pc EXCEPT ![r] = to]
<1> USE DEF TypeOK, Step, lockVars, Stamped, Holding
<1>1. CASE BodyStep(r)
  BY <1>1 DEF BodyStep, PublishRunning, Finish
<1>2. CASE Fail(r)
  BY <1>2 DEF Fail, InBody
<1>3. CASE BuildStep(r)
  BY <1>3 DEF BuildStep, Skip, NeedsBuild, ReturnExisting, FinalizeSkipped,
              BuildAfterSkip, Generate, Capture, Commit
<1>4. CASE Export(r)
  BY <1>4 DEF Export
<1> QED
  BY <1>1, <1>2, <1>3, <1>4 DEF Work

\* A reader changes nothing a run can see, except that it may hold the lock.
LEMMA ReadFrame ==
  ASSUME NEW q \in Readers, ReadStep(q)
  PROVE  UNCHANGED <<source, package, runVars, owner, stamp, record>>
BY DEF ReadStep, ProbeMissing, ProbeFree, Unlock, ProbeHeld, ReadRunId, ReadRecord, lockVars

LEMMA LaneOfRun == \A r : Lane(r) \in Lanes
BY DEF Lane, Lanes

-----------------------------------------------------------------------------
(* The kernel lock.                                                        *)

\* A run at work without degrading owns its lane, and only such runs own one.
LockInv ==
  /\ \A r \in Runs \ degraded : pc[r] \in Holding => owner[Lane(r)] = r
  /\ \A l \in Lanes : owner[l] # NoRun =>
       /\ Lane(owner[l]) = l
       /\ pc[owner[l]] \in Holding
       /\ owner[l] \notin degraded
  /\ \A r \in degraded : pc[r] \notin {"new", "waiting", "locked", "truncated"}

LEMMA InitLock == Init => LockInv
BY DEF Init, LockInv, Holding

LEMMA LockStepLock ==
  ASSUME TypeOK, LockInv, NEW r \in Runs, LockStep(r)
  PROVE  LockInv'
<1> USE RunsAssumption, LaneOfRun DEF TypeOK, LockInv, Step, Holding, lockVars
<1>1. CASE FastPath(r)
  BY <1>1 DEF FastPath
<1>2. CASE Open(r)
  BY <1>2 DEF Open
<1>3. CASE Acquire(r)
  BY <1>3 DEF Acquire, Free
<1>4. CASE GiveUp(r)
  BY <1>4 DEF GiveUp
<1>5. CASE Degrade(r)
  <2>1. pc[r] \in {"new", "waiting"} /\ pc' = [pc EXCEPT ![r] = "stamped"]
    BY <1>5 DEF Degrade
  <2>2. degraded' = degraded \cup {r} /\ owner' = owner
    BY <1>5 DEF Degrade
  <2> QED
    BY <2>1, <2>2
<1>6. CASE Truncate(r)
  BY <1>6 DEF Truncate
<1>7. CASE WriteRunId(r)
  BY <1>7 DEF WriteRunId
<1>8. CASE LoseStamp(r)
  <2>1. pc[r] \in {"locked", "truncated"} /\ pc' = [pc EXCEPT ![r] = "stamped"]
    BY <1>8 DEF LoseStamp
  <2>2. UNCHANGED <<degraded, owner>>
    BY <1>8 DEF LoseStamp
  <2> QED
    BY <2>1, <2>2
<1>9. CASE Release(r)
  BY <1>9 DEF Release, LetGo
<1> QED
  BY <1>1, <1>2, <1>3, <1>4, <1>5, <1>6, <1>7, <1>8, <1>9 DEF LockStep

LEMMA NextLock == TypeOK /\ LockInv /\ [Next]_vars => LockInv'
<1> SUFFICES ASSUME TypeOK, LockInv, [Next]_vars PROVE LockInv'
  OBVIOUS
<1> USE RunsAssumption, LaneOfRun
<1>1. CASE Edit
  BY <1>1 DEF Edit, runVars, lockVars, LockInv
<1>2. ASSUME NEW r \in Runs, Crash(r) PROVE LockInv'
  BY <1>2 DEF Crash, LetGo, TypeOK, LockInv, Holding
<1>3. ASSUME NEW r \in Runs, Work(r) PROVE LockInv'
  <2>1. PICK to \in Stamped : pc' = [pc EXCEPT ![r] = to]
    BY <1>3, WorkFrame
  <2> QED
    BY <1>3, <2>1, WorkFrame DEF TypeOK, LockInv, Stamped, Holding
<1>4. ASSUME NEW q \in Readers, ReadStep(q) PROVE LockInv'
  BY <1>4, ReadFrame DEF runVars, LockInv
<1>5. CASE UNCHANGED vars
  BY <1>5 DEF vars, LockInv
<1> QED
  BY <1>1, <1>2, <1>3, <1>4, <1>5, LockStepLock, NextCases

\* Two runs of a lane at work together: one of them went on without the lock.
THEOREM Exclusion == Spec => []MutualExclusion
<1>1. TypeOK /\ LockInv => MutualExclusion
  BY DEF TypeOK, LockInv, MutualExclusion
<1> QED
  BY <1>1, InitTypes, NextTypes, InitLock, NextLock, PTL DEF Spec

-----------------------------------------------------------------------------
(* The sentinel.                                                           *)

\* A sentinel names only runs of its lane that got past their stamp with the lock, and
\* names the holder from its stamp on.
StampInv ==
  /\ StampNamesHolder
  /\ \A l \in Lanes : stamp[l] \in Runs =>
       /\ Lane(stamp[l]) = l
       /\ pc[stamp[l]] \in Stamped \cup {"ended", "dead"}
       /\ stamp[l] \notin degraded

LEMMA InitStamp == Init => StampInv
BY RunsAssumption DEF Init, StampInv, StampNamesHolder, Holding

LEMMA LockStepStamp ==
  ASSUME TypeOK, LockInv, StampInv, NEW r \in Runs, LockStep(r)
  PROVE  StampInv'
<1> USE RunsAssumption, LaneOfRun
    DEF TypeOK, LockInv, StampInv, StampNamesHolder, Step, Holding, Stamped, lockVars
<1>1. CASE FastPath(r)
  BY <1>1 DEF FastPath
<1>2. CASE Open(r)
  BY <1>2 DEF Open
<1>3. CASE Acquire(r)
  BY <1>3 DEF Acquire
<1>4. CASE GiveUp(r)
  BY <1>4 DEF GiveUp
<1>5. CASE Degrade(r)
  BY <1>5 DEF Degrade
<1>6. CASE Truncate(r)
  BY <1>6 DEF Truncate
<1>7. CASE WriteRunId(r)
  BY <1>7 DEF WriteRunId
<1>8. CASE LoseStamp(r)
  <2>1. pc[r] \in {"locked", "truncated"} /\ pc' = [pc EXCEPT ![r] = "stamped"]
    BY <1>8 DEF LoseStamp
  <2>2. UNCHANGED <<degraded, stamp>> /\ r \in Fallible
    BY <1>8 DEF LoseStamp
  <2> QED
    BY <2>1, <2>2
<1>9. CASE Release(r)
  BY <1>9 DEF Release
<1> QED
  BY <1>1, <1>2, <1>3, <1>4, <1>5, <1>6, <1>7, <1>8, <1>9 DEF LockStep

LEMMA NextStamp == TypeOK /\ LockInv /\ StampInv /\ [Next]_vars => StampInv'
<1> SUFFICES ASSUME TypeOK, LockInv, StampInv, [Next]_vars PROVE StampInv'
  OBVIOUS
<1>1. CASE Edit
  BY <1>1 DEF Edit, runVars, lockVars, StampInv, StampNamesHolder
<1>2. ASSUME NEW r \in Runs, Crash(r) PROVE StampInv'
  BY <1>2 DEF Crash, TypeOK, StampInv, StampNamesHolder, Holding, Stamped
<1>3. ASSUME NEW r \in Runs, Work(r) PROVE StampInv'
  <2>1. PICK to \in Stamped : pc' = [pc EXCEPT ![r] = to]
    BY <1>3, WorkFrame
  <2> QED
    BY <1>3, <2>1, WorkFrame DEF TypeOK, StampInv, StampNamesHolder, Stamped, Holding
<1>4. ASSUME NEW q \in Readers, ReadStep(q) PROVE StampInv'
  BY <1>4, ReadFrame DEF runVars, StampInv, StampNamesHolder
<1>5. CASE UNCHANGED vars
  BY <1>5 DEF vars, StampInv, StampNamesHolder
<1> QED
  BY <1>1, <1>2, <1>3, <1>4, <1>5, LockStepStamp, NextCases

\* The sentinel names the run that holds its lane.
THEOREM SentinelNamesHolder == Spec => []StampNamesHolder
<1>1. StampInv => StampNamesHolder
  BY DEF StampInv
<1> QED
  BY <1>1, InitTypes, NextTypes, InitLock, NextLock, InitStamp, NextStamp, PTL DEF Spec

-----------------------------------------------------------------------------
(* The status record.                                                      *)

LEMMA PublishFrame ==
  ASSUME TypeOK, NEW r \in Runs, NEW result \in Outcomes, NEW bar \in BOOLEAN,
         Publish(r, result, bar)
  PROVE  /\ \A l \in Lanes : l # Lane(r) => record'[l] = record[l]
         /\ \/ record'[Lane(r)] = [run |-> r, outcome |-> result, bar |-> bar]
            \/ r \in Fallible /\ record' = record
<1>1. CASE r \in Fallible /\ UNCHANGED record
  BY <1>1
<1>2. CASE record' = [record EXCEPT ![Lane(r)] =
                        [run |-> r, outcome |-> result, bar |-> bar]]
  BY <1>2, LaneOfRun DEF TypeOK
<1> QED
  BY <1>1, <1>2 DEF Publish

\* What work can do to the records: nothing, or publish in the run's own lane.
LEMMA WorkRecord ==
  ASSUME TypeOK, NEW r \in Runs, Work(r)
  PROVE  /\ \A l \in Lanes : l # Lane(r) => record'[l] = record[l]
         /\ record'[Lane(r)].run = r \/ record' = record
         /\ pc[r] = "stamped" => record'[Lane(r)].run = r \/ r \in Fallible
<1>0. ASSUME NEW result \in Outcomes, NEW bar \in BOOLEAN, Publish(r, result, bar)
      PROVE  /\ \A l \in Lanes : l # Lane(r) => record'[l] = record[l]
             /\ record'[Lane(r)].run = r \/ (r \in Fallible /\ record' = record)
  <2>1. [run |-> r, outcome |-> result, bar |-> bar].run = r
    OBVIOUS
  <2> QED
    BY <1>0, <2>1, PublishFrame, Zenon
<1> USE DEF Outcomes, Step
<1>1. CASE PublishRunning(r)
  BY <1>0, <1>1 DEF PublishRunning
<1>2. CASE Finish(r)
  <2>1. CASE UNCHANGED record
    BY <1>2, <2>1 DEF Finish
  <2>2. CASE Publish(r, "done", FALSE)
    BY <1>0, <1>2, <2>2 DEF Finish
  <2> QED
    BY <1>2, <2>1, <2>2 DEF Finish
<1>3. CASE Fail(r)
  <2>1. CASE UNCHANGED record
    BY <1>3, <2>1 DEF Fail, InBody
  <2>2. CASE Publish(r, "failed", FALSE)
    BY <1>0, <1>3, <2>2 DEF Fail, InBody
  <2> QED
    BY <1>3, <2>1, <2>2 DEF Fail, InBody
<1>4. CASE BuildStep(r)
  <2>1. CASE Skip(r)
    BY <1>0, <2>1 DEF Skip
  <2>2. CASE FinalizeSkipped(r)
    BY <1>0, <2>2 DEF FinalizeSkipped
  <2>3. CASE Generate(r)
    BY <1>0, <2>3 DEF Generate
  <2>4. CASE NeedsBuild(r) \/ ReturnExisting(r) \/ BuildAfterSkip(r) \/ Capture(r) \/ Commit(r)
    BY <2>4 DEF NeedsBuild, ReturnExisting, BuildAfterSkip, Capture, Commit
  <2> QED
    BY <1>4, <2>1, <2>2, <2>3, <2>4 DEF BuildStep
<1>5. CASE Export(r)
  BY <1>0, <1>5 DEF Export
<1> QED
  BY <1>1, <1>2, <1>3, <1>4, <1>5 DEF Work, BodyStep

LEMMA InitRecord == Init => HolderOwnsRecord
BY DEF Init, HolderOwnsRecord, Holding

LEMMA NextRecord ==
  TypeOK /\ LockInv /\ HolderOwnsRecord /\ [Next]_vars => HolderOwnsRecord'
<1> SUFFICES ASSUME TypeOK, LockInv, HolderOwnsRecord, [Next]_vars
             PROVE  HolderOwnsRecord'
  OBVIOUS
<1> USE LaneOfRun DEF HolderOwnsRecord
<1>1. CASE Edit
  BY <1>1 DEF Edit, runVars
<1>2. ASSUME NEW r \in Runs, Crash(r) PROVE HolderOwnsRecord'
  BY <1>2 DEF Crash, TypeOK, Holding
<1>3. ASSUME NEW r \in Runs, Work(r) PROVE HolderOwnsRecord'
  <2>1. PICK to \in Stamped : pc' = [pc EXCEPT ![r] = to]
    BY <1>3, WorkFrame
  <2>2. SUFFICES ASSUME NEW s \in Runs \ (degraded \cup Fallible),
                        pc'[s] \in Holding \ {"locked", "truncated", "stamped"}
                 PROVE  record'[Lane(s)].run \in {s} \cup degraded
    BY <1>3, WorkFrame
  <2>3. CASE s = r
    BY <1>3, <2>2, <2>3, WorkRecord, WorkFrame DEF Stamped
  <2>4. CASE s # r
    <3>1. pc[s] \in Holding \ {"locked", "truncated", "stamped"}
      BY <2>1, <2>2, <2>4 DEF TypeOK
    <3>2. Lane(s) # Lane(r) \/ r \in degraded
      BY <1>3, <2>4, <3>1, WorkFrame DEF LockInv, Stamped
    <3> QED
      BY <1>3, <3>1, <3>2, WorkRecord
  <2> QED
    BY <2>3, <2>4
<1>4. ASSUME NEW q \in Readers, ReadStep(q) PROVE HolderOwnsRecord'
  BY <1>4, ReadFrame DEF runVars
<1>5. CASE UNCHANGED vars
  BY <1>5 DEF vars
<1>6. ASSUME NEW r \in Runs, LockStep(r) PROVE HolderOwnsRecord'
  <2>1. record' = record /\ degraded \subseteq degraded'
    BY <1>6 DEF LockStep, FastPath, Open, Acquire, GiveUp, Degrade, Truncate, WriteRunId,
                LoseStamp, Release
  <2>2. \E to \in {"ended", "waiting", "locked", "stamped", "truncated"} :
          pc' = [pc EXCEPT ![r] = to]
    BY <1>6 DEF LockStep, FastPath, Open, Acquire, GiveUp, Degrade, Truncate, WriteRunId,
                LoseStamp, Release, Step
  <2> QED
    BY <2>1, <2>2 DEF TypeOK, Holding
<1> QED
  BY <1>1, <1>2, <1>3, <1>4, <1>5, <1>6, NextCases

\* No peer with a lock of either lane overwrites the record of a live run.
THEOREM LiveRecordIsTheHolders == Spec => []HolderOwnsRecord
BY InitTypes, NextTypes, InitLock, NextLock, InitRecord, NextRecord, PTL DEF Spec

-----------------------------------------------------------------------------
(* Open records.                                                           *)

\* A record is in its writer's lane, which is past its stamp; and an open one whose
\* writer is on the way out is excused.
OpenInv ==
  /\ \A r \in Runs : pc[r] = "skipped" => r \in skipped
  /\ \A l \in Lanes : record[l].run \in Runs =>
       Lane(record[l].run) = l /\ pc[record[l].run] \in Stamped \cup {"ended", "dead"}
  /\ \A l \in Lanes : record[l].outcome = "running" => record[l].run \in Runs
  /\ \A l \in Lanes :
       record[l].outcome = "running" /\ pc[record[l].run] \in {"releasing", "ended"} =>
         record[l].run \in skipped \cup Fallible

LEMMA InitOpen == Init => OpenInv
BY RunsAssumption DEF Init, OpenInv, NoRecord

\* After a publication in the lane of its writer, OpenInv is a matter of that record.
LEMMA PublishOpen ==
  ASSUME TypeOK, OpenInv, NEW r \in Runs, NEW result \in Outcomes, NEW bar \in BOOLEAN,
         Publish(r, result, bar), NEW to \in Stamped, pc[r] \in Stamped,
         pc' = [pc EXCEPT ![r] = to], skipped \subseteq skipped',
         to = "skipped" => r \in skipped',
         to = "releasing" => result # "running" \/ r \in skipped'
  PROVE  OpenInv'
<1> USE LaneOfRun DEF OpenInv, Stamped, Holding, TypeOK
<1>0. [run |-> r, outcome |-> result, bar |-> bar].run = r
      /\ [run |-> r, outcome |-> result, bar |-> bar].outcome = result
  OBVIOUS
<1>1. CASE record' = record /\ r \in Fallible
  BY <1>1
<1>2. CASE record'[Lane(r)] = [run |-> r, outcome |-> result, bar |-> bar]
  BY <1>0, <1>2, PublishFrame
<1> QED
  BY <1>1, <1>2, PublishFrame

\* A step of a run that publishes nothing.
LEMMA SilentOpen ==
  ASSUME TypeOK, OpenInv, NEW r \in Runs, record' = record, skipped' = skipped,
         NEW to, pc' = [pc EXCEPT ![r] = to],
         pc[r] \in {"new", "waiting", "locked", "truncated"}
           \/ to \in Stamped \cup {"ended", "dead"},
         to = "skipped" => r \in skipped,
         to = "releasing" => r \in skipped,
         to = "ended" => pc[r] \in {"new", "waiting", "releasing"}
  PROVE  OpenInv'
BY DEF OpenInv, Stamped, Holding, TypeOK

LEMMA LockStepOpen ==
  ASSUME TypeOK, OpenInv, NEW r \in Runs, LockStep(r)
  PROVE  OpenInv'
<1>1. record' = record /\ skipped' = skipped
  BY DEF LockStep, FastPath, Open, Acquire, GiveUp, Degrade, Truncate, WriteRunId,
         LoseStamp, Release
<1>2. CASE pc[r] \in {"new", "waiting", "locked", "truncated"}
  <2>1. \E to \in {"ended", "waiting", "locked", "stamped", "truncated"} :
          pc' = [pc EXCEPT ![r] = to] /\ (to = "ended" => pc[r] \in {"new", "waiting"})
    BY <1>2 DEF LockStep, FastPath, Open, Acquire, GiveUp, Degrade, Truncate, WriteRunId,
                LoseStamp, Release, Step
  <2> QED
    BY <1>1, <1>2, <2>1, SilentOpen
<1>3. CASE Release(r)
  BY <1>1, <1>3, SilentOpen DEF Release, Step
<1> QED
  BY <1>2, <1>3 DEF LockStep, FastPath, Open, Acquire, GiveUp, Degrade, Truncate,
                    WriteRunId, LoseStamp, Step

LEMMA WorkOpen ==
  ASSUME TypeOK, OpenInv, NEW r \in Runs, Work(r)
  PROVE  OpenInv'
<1> USE DEF Step, Stamped, Holding, Outcomes
<1>0. pc[r] = "skipped" => r \in skipped
  BY DEF OpenInv
<1>1. CASE PublishRunning(r)
  BY <1>1, PublishOpen DEF PublishRunning
<1>2. CASE Finish(r)
  <2>1. CASE r \in skipped
    BY <1>2, <2>1, SilentOpen DEF Finish
  <2>2. CASE r \notin skipped
    BY <1>2, <2>2, PublishOpen DEF Finish
  <2> QED
    BY <2>1, <2>2
<1>3. CASE Fail(r)
  <2>1. CASE r \in skipped
    BY <1>3, <2>1, SilentOpen DEF Fail, InBody
  <2>2. CASE r \notin skipped
    BY <1>3, <2>2, PublishOpen DEF Fail, InBody
  <2> QED
    BY <2>1, <2>2
<1>4. CASE BuildStep(r)
  <2>1. CASE Skip(r)
    BY <2>1, PublishOpen DEF Skip
  <2>2. CASE NeedsBuild(r)
    BY <2>2, SilentOpen DEF NeedsBuild
  <2>3. CASE ReturnExisting(r)
    BY <1>0, <2>3, SilentOpen DEF ReturnExisting
  <2>4. CASE FinalizeSkipped(r)
    BY <1>0, <2>4, PublishOpen DEF FinalizeSkipped
  <2>5. CASE BuildAfterSkip(r)
    BY <2>5, SilentOpen DEF BuildAfterSkip
  <2>6. CASE Generate(r)
    BY <2>6, PublishOpen DEF Generate
  <2>7. CASE Capture(r)
    BY <2>7, SilentOpen DEF Capture
  <2>8. CASE Commit(r)
    BY <2>8, SilentOpen DEF Commit
  <2> QED
    BY <1>4, <2>1, <2>2, <2>3, <2>4, <2>5, <2>6, <2>7, <2>8 DEF BuildStep
<1>5. CASE Export(r)
  BY <1>5, PublishOpen DEF Export
<1> QED
  BY <1>1, <1>2, <1>3, <1>4, <1>5 DEF Work, BodyStep

LEMMA NextOpen == TypeOK /\ OpenInv /\ [Next]_vars => OpenInv'
<1> SUFFICES ASSUME TypeOK, OpenInv, [Next]_vars PROVE OpenInv'
  OBVIOUS
<1>1. CASE Edit
  BY <1>1 DEF Edit, runVars, OpenInv
<1>2. ASSUME NEW r \in Runs, Crash(r) PROVE OpenInv'
  BY <1>2, SilentOpen DEF Crash
<1>3. ASSUME NEW q \in Readers, ReadStep(q) PROVE OpenInv'
  BY <1>3, ReadFrame DEF runVars, OpenInv
<1>4. CASE UNCHANGED vars
  BY <1>4 DEF vars, OpenInv
<1> QED
  BY <1>1, <1>2, <1>3, <1>4, LockStepOpen, WorkOpen, NextCases

\* A record left open by a run that returned is a skipped run's or a lost write's.
THEOREM OpenRecords == Spec => []OpenRecordsExplained
<1>1. OpenInv => OpenRecordsExplained
  BY DEF OpenInv, OpenRecordsExplained
<1> QED
  BY <1>1, InitTypes, NextTypes, InitOpen, NextOpen, PTL DEF Spec

-----------------------------------------------------------------------------
(* The package.                                                            *)

\* A version moves only forward on its way from the source through a run to the package,
\* and a run that was not forced and has work to do will record a version the package
\* does not have yet.
Forward ==
  /\ package.content <= source /\ package.closure <= source
  /\ \A r \in Builders :
       /\ pc[r] \in {"capture", "commit"} =>
            package.content <= ran[r].content /\ ran[r].content <= source
       /\ pc[r] = "commit" =>
            /\ package.closure <= ran[r].closure /\ ran[r].closure <= source
            /\ ran[r].closure >= 0
       /\ r \notin Forced /\ pc[r] \in {"generate", "capture"} => package.closure < source
       /\ r \notin Forced /\ pc[r] = "commit" => package.closure < ran[r].closure
  /\ \A r \in Runs : outcome[r] = "built" =>
       /\ pc[r] \in {"finishing", "releasing", "ended", "dead"}
       /\ ran[r].closure <= package.closure
  /\ NoDuplicateBuild

\* It holds as long as nobody ran without the lock.
BuildInv == degraded = {} => Forward

\* Only these points of a builder concern Forward.
Building == {"generate", "capture", "commit"}

LEMMA Versioned ==
  ASSUME TypeOK
  PROVE  /\ source \in Nat /\ package.content \in Int /\ package.closure \in Int
         /\ \A r \in Runs : ran[r].content \in Int /\ ran[r].closure \in Int
BY EditAssumption DEF TypeOK, Built, Versions

LEMMA InitBuild == Init => BuildInv
BY EditAssumption DEF Init, BuildInv, Forward, NoDuplicateBuild, Unbuilt, Runs

\* A step that moves no run into a building point and neither builds nor commits.
LEMMA QuietBuild ==
  ASSUME TypeOK, BuildInv, degraded \subseteq degraded',
         source' = source, package' = package, ran' = ran, NEW r \in Runs, NEW to,
         pc' = [pc EXCEPT ![r] = to], to \notin Building,
         pc[r] \in {"finishing", "releasing", "ended", "dead"} =>
           to \in {"finishing", "releasing", "ended", "dead"},
         \A s \in Runs : outcome'[s] = "built" => outcome[s] = "built"
  PROVE  BuildInv'
<1> SUFFICES ASSUME degraded' = {} PROVE Forward'
  BY DEF BuildInv
<1>1. Forward
  BY DEF BuildInv
<1> QED
  BY <1>1 DEF Forward, NoDuplicateBuild, Building, TypeOK, Runs

\* Two builders never build at once, unless one runs without the lock.
LEMMA OneBuilds ==
  ASSUME TypeOK, LockInv, degraded = {}, NEW r \in Builders, NEW s \in Builders, r # s,
         pc[r] \in Holding
  PROVE  pc[s] \notin Building
BY DEF LockInv, Holding, Building, Lane, Runs

LEMMA LockStepBuild ==
  ASSUME TypeOK, BuildInv, NEW r \in Runs, LockStep(r)
  PROVE  BuildInv'
<1>1. UNCHANGED <<source, package, ran>> /\ degraded \subseteq degraded'
  BY DEF LockStep, FastPath, Open, Acquire, GiveUp, Degrade, Truncate, WriteRunId,
         LoseStamp, Release
<1>2. \E to \in {"ended", "waiting", "locked", "stamped", "truncated"} :
        /\ pc' = [pc EXCEPT ![r] = to]
        /\ pc[r] \in {"new", "waiting", "locked", "truncated"} \/ to = "ended"
  BY DEF LockStep, FastPath, Open, Acquire, GiveUp, Degrade, Truncate, WriteRunId,
         LoseStamp, Release, Step
<1>3. \A s \in Runs : outcome'[s] = "built" => outcome[s] = "built"
  BY DEF LockStep, FastPath, Open, Acquire, GiveUp, Degrade, Truncate, WriteRunId,
         LoseStamp, Release, TypeOK
<1> QED
  BY <1>1, <1>2, <1>3, QuietBuild DEF Building

LEMMA QuietWork ==
  ASSUME TypeOK, BuildInv, NEW r \in Runs,
         \/ BodyStep(r) \/ Fail(r) \/ Export(r)
         \/ Skip(r) \/ ReturnExisting(r) \/ FinalizeSkipped(r)
  PROVE  BuildInv'
<1>1. UNCHANGED <<source, package, ran, degraded>>
  BY DEF BodyStep, PublishRunning, Finish, Fail, InBody, Export, Skip, ReturnExisting, FinalizeSkipped
<1>2. \E to \in {"checking", "exporting", "skipped", "finishing", "releasing"} :
        /\ pc' = [pc EXCEPT ![r] = to]
        /\ pc[r] \notin {"finishing", "releasing", "ended", "dead"} \/ to = "releasing"
  BY DEF BodyStep, PublishRunning, Finish, Fail, InBody, Export, Skip, ReturnExisting,
         FinalizeSkipped, Step
<1>3. \A s \in Runs : outcome'[s] = "built" => outcome[s] = "built"
  BY DEF BodyStep, PublishRunning, Finish, Fail, InBody, Export, Skip, ReturnExisting,
         FinalizeSkipped, TypeOK
<1> QED
  BY <1>1, <1>2, <1>3, QuietBuild DEF Building

\* The steps of a build proper.
LEMMA BuildForward ==
  ASSUME TypeOK, LockInv, Forward, degraded = {}, NEW r \in Builders,
         NeedsBuild(r) \/ BuildAfterSkip(r) \/ Generate(r) \/ Capture(r) \/ Commit(r)
  PROVE  Forward'
<1>0. r \in Runs
  BY DEF Runs
<1>1. \A s \in Builders : s # r => pc[s] \notin Building /\ pc'[s] = pc[s]
  <2>1. pc[r] \in Holding
    BY DEF NeedsBuild, BuildAfterSkip, Generate, Capture, Commit, Step, Holding
  <2>2. \A s \in Runs : s # r => pc'[s] = pc[s]
    BY DEF NeedsBuild, BuildAfterSkip, Generate, Capture, Commit, Step, TypeOK
  <2>3. \A s \in Builders : s # r => pc[s] \notin Building
    BY <2>1, OneBuilds
  <2> QED
    BY <2>2, <2>3 DEF Runs
<1>2. CASE NeedsBuild(r) \/ BuildAfterSkip(r)
  <2>1. /\ pc[r] \in {"checking", "skipped"} /\ pc'[r] = "generate"
        /\ UNCHANGED <<source, package, ran, outcome>>
        /\ \A s \in Runs : s # r => pc'[s] = pc[s]
    BY <1>0, <1>2 DEF NeedsBuild, BuildAfterSkip, Step, TypeOK
  <2>2. r \notin Forced => package.closure < source
    BY <1>2, Versioned DEF NeedsBuild, BuildAfterSkip, Current, Forward
  <2>3. NoDuplicateBuild'
    BY <1>2, <2>1 DEF Forward, NoDuplicateBuild, NeedsBuild, BuildAfterSkip
  <2> QED
    BY <1>0, <1>1, <2>1, <2>2, <2>3 DEF Forward, Building
<1>3. CASE Generate(r)
  <2>1. /\ \A s \in Runs : s # r => ran'[s] = ran[s]
        /\ ran'[r].content = source /\ ran'[r].closure = ran[r].closure
    BY <1>0, <1>3 DEF Generate, TypeOK, Built
  <2>2. /\ pc[r] = "generate" /\ pc'[r] = "capture"
        /\ UNCHANGED <<source, package, outcome>>
        /\ \A s \in Runs : s # r => pc'[s] = pc[s]
    BY <1>0, <1>3 DEF Generate, Step, TypeOK
  <2>3. outcome[r] # "built"
    BY <1>0, <2>2 DEF Forward
  <2>4. NoDuplicateBuild'
    BY <1>3, <2>1, <2>2, <2>3 DEF Generate, Forward, NoDuplicateBuild, Runs
  <2> QED
    BY <1>0, <1>1, <2>1, <2>2, <2>3, <2>4, Versioned DEF Forward, Runs, Building
<1>4. CASE Capture(r)
  <2>1. /\ \A s \in Runs : s # r => ran'[s] = ran[s]
        /\ ran'[r].content = ran[r].content /\ ran'[r].closure = source
    BY <1>0, <1>4 DEF Capture, TypeOK, Built
  <2>2. outcome[r] # "built"
    BY <1>0, <1>4 DEF Capture, Step, Forward
  <2>3. NoDuplicateBuild'
    BY <1>4, <2>1, <2>2 DEF Capture, Forward, NoDuplicateBuild, Runs
  <2>4. pc[r] = "capture" /\ pc'[r] = "commit" /\ UNCHANGED <<source, package, outcome>>
    BY <1>0, <1>4 DEF Capture, Step, TypeOK
  <2>5. \A s \in Runs : s # r => pc'[s] = pc[s]
    BY <1>4 DEF Capture, Step, TypeOK
  <2> QED
    BY <1>0, <1>1, <2>1, <2>2, <2>3, <2>4, <2>5, Versioned DEF Forward, Runs, Building
<1>5. CASE Commit(r)
  <2>1. /\ pc[r] = "commit" /\ pc'[r] = "finishing"
        /\ package' = ran[r] /\ UNCHANGED <<source, ran>>
        /\ \A s \in Runs : s # r => pc'[s] = pc[s] /\ outcome'[s] = outcome[s]
    BY <1>0, <1>5 DEF Commit, Step, TypeOK
  <2>2. /\ package.closure <= package'.closure
        /\ r \notin Forced => package.closure < package'.closure
    BY <2>1 DEF Forward
  <2>3. \A s \in Runs : s # r /\ outcome[s] = "built" => ran[s].closure <= package.closure
    BY DEF Forward
  <2>4. NoDuplicateBuild'
    BY <1>0, <2>1, <2>2, <2>3, Versioned DEF Forward, NoDuplicateBuild, Runs
  <2>5. \A s \in Runs : outcome'[s] = "built" =>
          /\ pc'[s] \in {"finishing", "releasing", "ended", "dead"}
          /\ ran'[s].closure <= package'.closure
    BY <1>0, <2>1, <2>2, <2>3, Versioned DEF Forward
  <2> QED
    BY <1>0, <1>1, <2>1, <2>2, <2>4, <2>5, Versioned DEF Forward, Runs, Building
<1> QED
  BY <1>2, <1>3, <1>4, <1>5

LEMMA NextBuild == TypeOK /\ LockInv /\ BuildInv /\ [Next]_vars => BuildInv'
<1> SUFFICES ASSUME TypeOK, LockInv, BuildInv, [Next]_vars PROVE BuildInv'
  OBVIOUS
<1>1. CASE Edit
  BY <1>1, Versioned DEF Edit, runVars, BuildInv, Forward, NoDuplicateBuild, Runs
<1>2. ASSUME NEW r \in Runs, Crash(r) PROVE BuildInv'
  BY <1>2, QuietBuild DEF Crash, Building
<1>3. ASSUME NEW r \in Runs, Work(r) PROVE BuildInv'
  <2>1. CASE r \in Builders /\ (\/ NeedsBuild(r) \/ BuildAfterSkip(r)
                                \/ Generate(r) \/ Capture(r) \/ Commit(r))
    BY <1>3, <2>1, WorkFrame, BuildForward DEF BuildInv
  <2> QED
    BY <1>3, <2>1, QuietWork DEF Work, BuildStep
<1>4. ASSUME NEW q \in Readers, ReadStep(q) PROVE BuildInv'
  BY <1>4, ReadFrame DEF runVars, BuildInv, Forward, NoDuplicateBuild
<1>5. CASE UNCHANGED vars
  BY <1>5 DEF vars, BuildInv, Forward, NoDuplicateBuild
<1> QED
  BY <1>1, <1>2, <1>3, <1>4, <1>5, LockStepBuild, NextCases

\* No version of the source is built twice by coordinated runs that were not forced.
THEOREM BuildsAreDistinct == Spec => []NoDuplicateBuild
<1>1. BuildInv => NoDuplicateBuild
  BY DEF BuildInv, Forward, NoDuplicateBuild
<1> QED
  BY <1>1, InitTypes, NextTypes, InitLock, NextLock, InitBuild, NextBuild, PTL DEF Spec

\* A coordinated commit never takes the package back to an older version.
THEOREM PackageMovesForward == Spec => PackageNeverRegresses
<1>1. TypeOK /\ BuildInv /\ [Next]_vars =>
        [degraded = {} => /\ package'.content >= package.content
                          /\ package'.closure >= package.closure]_vars
  <2> SUFFICES ASSUME TypeOK, BuildInv, Next, degraded = {}
               PROVE  /\ package'.content >= package.content
                      /\ package'.closure >= package.closure
    OBVIOUS
  <2>1. CASE package' = package
    BY <2>1, Versioned
  <2>2. CASE \E r \in Builders : Commit(r)
    BY <2>2, Versioned DEF Commit, Step, BuildInv, Forward, Runs
  <2>3. (\E r \in Builders : Commit(r)) \/ package' = package
    <3>1. ASSUME NEW r \in Runs, LockStep(r) \/ Fail(r) \/ Crash(r) \/ BodyStep(r)
          PROVE  package' = package
      BY <3>1 DEF LockStep, FastPath, Open, Acquire, GiveUp, Degrade, Truncate, WriteRunId,
                  LoseStamp, Release, Fail, InBody, Crash, BodyStep, PublishRunning, Finish
    <3>2. ASSUME NEW r \in Builders, BuildStep(r)
          PROVE  Commit(r) \/ package' = package
      BY <3>2 DEF BuildStep, Skip, NeedsBuild, ReturnExisting, FinalizeSkipped,
                  BuildAfterSkip, Generate, Capture
    <3>3. ASSUME NEW r \in Exporters, Export(r) PROVE package' = package
      BY <3>3 DEF Export
    <3>4. CASE Edit
      BY <3>4 DEF Edit
    <3> QED
      BY <3>1, <3>2, <3>3, <3>4, ReadFrame DEF Next
  <2> QED
    BY <2>1, <2>2, <2>3
<1> QED
  BY <1>1, InitTypes, NextTypes, InitLock, NextLock, InitBuild, NextBuild, PTL
  DEF Spec, PackageNeverRegresses

-----------------------------------------------------------------------------
(* What a reader has met.                                                  *)

\* From a probe that failed to the end of the snapshot, the reader has met every run that
\* owns the lane; and a run id it read is a run it met, or one that is over.
Met(q) ==
  /\ view[q].at \in {"readId", "readRecord"} =>
       owner[view[q].lane] \in view[q].holders \cup {NoRun}
  /\ view[q].at = "readRecord" /\ view[q].run # NoRun =>
       view[q].run \in view[q].holders \/ pc[view[q].run] \in {"ended", "dead"}

ViewInv == \A q \in Readers : Met(q)

LEMMA InitView == Init => ViewInv
BY DEF Init, ViewInv, Met, Resting

LEMMA ViewTypes ==
  ASSUME TypeOK, NEW q \in Readers
  PROVE  /\ view[q].lane \in Lanes /\ view[q].run \in Runs \cup {NoRun}
         /\ view[q].holders \subseteq Runs
BY DEF TypeOK, Views

\* A run that is over stays so.
LEMMA OverIsForEver ==
  ASSUME TypeOK, NEW r \in Runs, NEW s \in Runs, pc[s] \in {"ended", "dead"},
         Crash(r) \/ LockStep(r) \/ Work(r)
  PROVE  pc'[s] = pc[s]
<1>1. CASE Crash(r)
  BY <1>1 DEF Crash, TypeOK, Holding
<1>2. CASE LockStep(r)
  BY <1>2 DEF LockStep, FastPath, Open, Acquire, GiveUp, Degrade, Truncate, WriteRunId,
              LoseStamp, Release, Step, TypeOK
<1>3. CASE Work(r)
  BY <1>3, WorkFrame DEF Stamped, Holding, TypeOK
<1> QED
  BY <1>1, <1>2, <1>3

\* A run's step that gives its lane to nobody new.
LEMMA RunStepView ==
  ASSUME TypeOK, ViewInv, NEW r \in Runs, Crash(r) \/ LockStep(r) \/ Work(r), view' = view,
         \A l \in Lanes : owner'[l] \in {owner[l], NoRun}
  PROVE  ViewInv'
<1>1. ASSUME NEW q \in Readers PROVE Met(q)'
  <2>1. view[q].run # NoRun /\ pc[view[q].run] \in {"ended", "dead"} =>
          pc'[view[q].run] = pc[view[q].run]
    BY ViewTypes, OverIsForEver
  <2> QED
    BY <2>1, ViewTypes DEF ViewInv, Met
<1> QED
  BY <1>1 DEF ViewInv

LEMMA AcquireView ==
  ASSUME TypeOK, ViewInv, NEW r \in Runs, Acquire(r)
  PROVE  ViewInv'
<1>1. ASSUME NEW q \in Readers PROVE Met(q)'
  <2>1. /\ view'[q].at = view[q].at /\ view'[q].lane = view[q].lane
        /\ view'[q].run = view[q].run /\ view[q].holders \subseteq view'[q].holders
        /\ view[q].at \in {"readId", "readRecord"} /\ view[q].lane = Lane(r) =>
             r \in view'[q].holders
    BY DEF Acquire, TypeOK, Views
  <2>2. view[q].run # NoRun /\ pc[view[q].run] \in {"ended", "dead"} =>
          pc'[view[q].run] = pc[view[q].run]
    BY ViewTypes, OverIsForEver DEF LockStep
  <2>3. \A l \in Lanes : owner'[l] = IF l = Lane(r) THEN r ELSE owner[l]
    BY DEF Acquire, TypeOK
  <2> QED
    BY <2>1, <2>2, <2>3, ViewTypes DEF ViewInv, Met
<1> QED
  BY <1>1 DEF ViewInv

\* The point of the run id in the sentinel: a run it names holds the lane or is over.
LEMMA ReadRunIdView ==
  ASSUME TypeOK, LockInv, StampInv, ViewInv, NEW q \in Readers, ReadRunId(q)
  PROVE  Met(q)'
<1> DEFINE lane == view[q].lane
           named == stamp[lane]
<1>1. /\ view'[q].at = "readRecord" /\ view'[q].lane = lane
      /\ view'[q].holders = view[q].holders
      /\ view'[q].run = IF named \in Runs THEN named ELSE NoRun
      /\ UNCHANGED <<owner, pc>> /\ owner[lane] \in view[q].holders \cup {NoRun}
  BY DEF ReadRunId, TypeOK, Views, ViewInv, Met, runVars, lockVars
<1>2. CASE named \in Runs
  <2>1. /\ Lane(named) = lane /\ named \notin degraded
        /\ pc[named] \in Stamped \cup {"ended", "dead"}
    BY <1>2, ViewTypes DEF StampInv
  <2>2. CASE pc[named] \in Stamped
    BY <1>1, <1>2, <2>1, <2>2, RunsAssumption DEF LockInv, Stamped, Met
  <2>3. CASE pc[named] \in {"ended", "dead"}
    BY <1>1, <1>2, <2>3 DEF Met
  <2> QED
    BY <2>1, <2>2, <2>3
<1>3. CASE named \notin Runs
  BY <1>1, <1>3 DEF Met
<1> QED
  BY <1>2, <1>3

LEMMA ReadStepView ==
  ASSUME TypeOK, LockInv, StampInv, ViewInv, NEW q \in Readers, ReadStep(q)
  PROVE  ViewInv'
<1>1. \A p \in Readers : p # q => view'[p] = view[p]
  BY DEF ReadStep, ProbeMissing, ProbeFree, Unlock, ProbeHeld, ReadRunId, ReadRecord,
         NextLane, TypeOK
<1>2. ASSUME NEW p \in Readers, p # q PROVE Met(p)'
  BY <1>1, <1>2, ReadFrame DEF ViewInv, Met, runVars
<1>3. CASE ReadRunId(q)
  BY <1>2, <1>3, ReadRunIdView DEF ViewInv
<1>4. CASE ProbeHeld(q)
  <2>1. PICK l \in Lanes :
          view'[q] = [Resting EXCEPT !.at = "readId", !.lane = l,
                                     !.holders = {owner[l]} \ {NoRun}]
    BY <1>4 DEF ProbeHeld, TypeOK
  <2>2. Met(q)'
    BY <1>4, <2>1 DEF ProbeHeld, Met, Resting, lockVars
  <2> QED
    BY <1>2, <2>2 DEF ViewInv
<1>5. CASE ProbeMissing(q) \/ ProbeFree(q) \/ Unlock(q) \/ ReadRecord(q)
  <2>1. view'[q].at \notin {"readId", "readRecord"}
    <3>1. ASSUME NEW l, NextLane(q, l) PROVE view'[q].at \in {"generator", "rest"}
      BY <3>1 DEF NextLane, Resting, TypeOK
    <3>2. CASE ProbeMissing(q)
      BY <3>1, <3>2 DEF ProbeMissing
    <3>3. CASE ProbeFree(q)
      BY <3>3 DEF ProbeFree, Resting, TypeOK
    <3>4. CASE Unlock(q)
      BY <3>1, <3>4 DEF Unlock
    <3>5. CASE ReadRecord(q)
      BY <3>5 DEF ReadRecord, TypeOK, Views
    <3> QED
      BY <1>5, <3>2, <3>3, <3>4, <3>5
  <2>2. Met(q)'
    BY <2>1 DEF Met
  <2> QED
    BY <1>2, <2>2 DEF ViewInv
<1> QED
  BY <1>3, <1>4, <1>5 DEF ReadStep

LEMMA NextView ==
  TypeOK /\ LockInv /\ StampInv /\ ViewInv /\ [Next]_vars => ViewInv'
<1> SUFFICES ASSUME TypeOK, LockInv, StampInv, ViewInv, [Next]_vars PROVE ViewInv'
  OBVIOUS
<1>1. CASE Edit
  BY <1>1 DEF Edit, runVars, lockVars, ViewInv, Met
<1>2. ASSUME NEW r \in Runs, Crash(r) PROVE ViewInv'
  <2>1. view' = view /\ \A l \in Lanes : owner'[l] \in {owner[l], NoRun}
    BY <1>2 DEF Crash, LetGo
  <2> QED
    BY <1>2, <2>1, RunStepView
<1>3. ASSUME NEW r \in Runs, LockStep(r) PROVE ViewInv'
  <2>1. CASE Acquire(r)
    BY <2>1, AcquireView
  <2>2. ASSUME ~ Acquire(r)
        PROVE  view' = view /\ \A l \in Lanes : owner'[l] \in {owner[l], NoRun}
    BY <1>3, <2>2 DEF LockStep, FastPath, Open, GiveUp, Degrade, Truncate, WriteRunId,
                      LoseStamp, Release, LetGo, lockVars
  <2> QED
    BY <1>3, <2>1, <2>2, RunStepView
<1>4. ASSUME NEW r \in Runs, Work(r) PROVE ViewInv'
  BY <1>4, WorkFrame, RunStepView
<1>5. CASE UNCHANGED vars
  BY <1>5 DEF vars, ViewInv, Met
<1> QED
  BY <1>1, <1>2, <1>3, <1>4, <1>5, ReadStepView, NextCases

\* Progress shown that no holder wrote is that of a run that is over.
THEOREM ProgressIsNotAPeers == Spec => BarIsNeverALivePeers
<1>1. TypeOK /\ ViewInv /\ [Next]_vars =>
        [\A q \in Readers :
           Shows(q) => view'[q].bar \in view[q].holders
                       \/ pc[view'[q].bar] \in {"ended", "dead"}]_vars
  <2> SUFFICES ASSUME TypeOK, ViewInv, Next, NEW q \in Readers, Shows(q)
               PROVE  view'[q].bar \in view[q].holders
                      \/ pc[view'[q].bar] \in {"ended", "dead"}
    OBVIOUS
  <2>1. view[q].at = "readRecord" /\ view'[q].at = "rest" /\ view'[q].bar # NoRun
    BY DEF Shows
  <2>2. ReadRecord(q)
    <3>1. ASSUME NEW r \in Runs, Crash(r) \/ LockStep(r) \/ Work(r)
          PROVE  view'[q].at = view[q].at
      <4>1. CASE Acquire(r)
        BY <4>1 DEF Acquire, TypeOK, Views
      <4>2. CASE ~ Acquire(r)
        BY <3>1, <4>2, WorkFrame
        DEF Crash, LockStep, FastPath, Open, GiveUp, Degrade, Truncate, WriteRunId,
            LoseStamp, Release
      <4> QED
        BY <4>1, <4>2
    <3>2. ASSUME NEW p \in Readers, ReadStep(p), p # q
          PROVE  view'[q].at = view[q].at
      BY <3>2 DEF ReadStep, ProbeMissing, ProbeFree, Unlock, ProbeHeld, ReadRunId,
                  ReadRecord, NextLane, TypeOK
    <3>3. ~ Edit
      BY <2>1 DEF Edit
    <3>4. ReadStep(q)
      BY <2>1, <3>1, <3>2, <3>3, NextCases
    <3> QED
      BY <2>1, <3>4 DEF ReadStep, ProbeMissing, ProbeFree, Unlock, ProbeHeld, ReadRunId,
                        Probing
  <2>3. view'[q].bar = view[q].run
    BY <2>1, <2>2 DEF ReadRecord, ProgressForRun, TypeOK, Views
  <2> QED
    BY <2>1, <2>3 DEF ViewInv, Met
<1> QED
  BY <1>1, InitTypes, NextTypes, InitLock, NextLock, InitStamp, NextStamp, InitView, NextView,
     PTL DEF Spec, BarIsNeverALivePeers

-----------------------------------------------------------------------------
(* Refinement.                                                             *)

LEMMA NoneDegraded == Unlockable = {} /\ TypeOK => degraded = {}
BY DEF TypeOK

LEMMA InitSerial == Init => Serial!Init
BY DEF Init, Serial!Init, Unbuilt, Lanes

LEMMA NextSerial ==
  ASSUME Unlockable = {}, TypeOK, LockInv, BuildInv, [Next]_vars
  PROVE  [Serial!Next]_(Serial!vars)
<1> USE DEF Serial!Next, Serial!vars
<1>0. degraded = {}
  BY NoneDegraded
<1>1. CASE Edit
  BY <1>1 DEF Edit, Serial!Edit, lockVars
<1>2. ASSUME NEW r \in Runs, UNCHANGED <<source, package>>, LetGo(r)
      PROVE  [Serial!Next]_(Serial!vars)
  <2>1. CASE owner["write"] = r
    <3>1. r \in Builders
      BY <2>1, RunsAssumption DEF LockInv, Lane, Lanes, Runs
    <3>2. Serial!End(r)
      BY <1>2, <2>1 DEF LetGo, Serial!End, Lanes
    <3> QED
      BY <3>1, <3>2
  <2>2. CASE owner["write"] # r
    BY <1>2, <2>2 DEF LetGo, Lanes
  <2> QED
    BY <2>1, <2>2
<1>3. ASSUME NEW r \in Runs, LockStep(r) PROVE [Serial!Next]_(Serial!vars)
  <2>1. CASE Acquire(r)
    <3>1. CASE r \in Builders
      <4>1. Serial!Begin(r)
        BY <2>1, <3>1 DEF Acquire, Free, Lane, Lanes, TypeOK, Serial!Begin
      <4> QED
        BY <3>1, <4>1
    <3>2. CASE r \notin Builders
      BY <2>1, <3>2 DEF Acquire, Lane, Lanes, TypeOK
    <3> QED
      BY <3>1, <3>2
  <2>2. CASE Release(r)
    BY <1>2, <2>2 DEF Release
  <2>3. ASSUME ~ Acquire(r), ~ Release(r)
        PROVE  UNCHANGED <<source, package, owner>>
    BY <1>3, <2>3 DEF LockStep, FastPath, Open, GiveUp, Degrade, Truncate, WriteRunId,
                      LoseStamp, lockVars
  <2> QED
    BY <2>1, <2>2, <2>3
<1>4. ASSUME NEW r \in Runs, Work(r) PROVE [Serial!Next]_(Serial!vars)
  <2>1. CASE r \in Builders /\ Commit(r)
    <3>1. r \in Runs /\ pc[r] = "commit" /\ package' = ran[r] /\ UNCHANGED <<source, owner>>
      BY <2>1 DEF Commit, Step, lockVars, Runs
    <3>2. owner["write"] = r
      BY <1>0, <2>1, <3>1 DEF LockInv, Holding, Lane
    <3>3. /\ package'.closure \in 0 .. source
          /\ IF r \in Forced THEN package'.closure >= package.closure
             ELSE package'.closure > package.closure
      BY <1>0, <2>1, <3>1, Versioned DEF BuildInv, Forward
    <3>4. Serial!Replace(r)
      BY <3>1, <3>2, <3>3 DEF Serial!Replace
    <3> QED
      BY <2>1, <3>4
  <2>2. ASSUME ~ (r \in Builders /\ Commit(r)) PROVE package' = package
    BY <1>4, <2>2 DEF Work, BodyStep, PublishRunning, Finish, Fail, InBody, Export, BuildStep,
                      Skip, NeedsBuild, ReturnExisting, FinalizeSkipped, BuildAfterSkip,
                      Generate, Capture
  <2>3. CASE package' = package
    BY <1>4, <2>3, WorkFrame
  <2> QED
    BY <2>1, <2>2, <2>3
<1>5. ASSUME NEW r \in Runs, Crash(r) PROVE [Serial!Next]_(Serial!vars)
  BY <1>2, <1>5 DEF Crash
<1>6. ASSUME NEW q \in Readers, ReadStep(q) PROVE [Serial!Next]_(Serial!vars)
  BY <1>6, ReadFrame
<1>7. CASE UNCHANGED vars
  BY <1>7 DEF vars
<1> QED
  BY <1>1, <1>3, <1>4, <1>5, <1>6, <1>7, NextCases

\* Where every acquire works, the protocol implements serial builds.
THEOREM ImplementsSerialBuilds == Unlockable = {} /\ Spec => BuildsAreSerial
<1> SUFFICES ASSUME Unlockable = {} PROVE Spec => BuildsAreSerial
  OBVIOUS
<1>1. TypeOK /\ LockInv /\ BuildInv /\ [Next]_vars => [Serial!Next]_(Serial!vars)
  BY NextSerial
<1> QED
  BY <1>1, InitSerial, InitTypes, NextTypes, InitLock, NextLock, InitBuild, NextBuild, PTL
  DEF Spec, BuildsAreSerial, Serial!Spec

=============================================================================
