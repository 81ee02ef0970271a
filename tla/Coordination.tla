---------------------------- MODULE Coordination ----------------------------
(***************************************************************************)
(* Cross-process coordination of ONE artifact's output directory           *)
(* (cadgen.coordination).  Builders are artifact_build() invocations, each *)
(* a CLI process or one request of the warm worker; exporters are          *)
(* generator_busy() invocations; readers are server threads that take a    *)
(* snapshot().  They share the kernel's advisory lock on each of two       *)
(* sentinels, the run id stamped in the sentinel, the status record beside *)
(* it and the render package the builders rewrite.                         *)
(*                                                                         *)
(* Every run is one invocation and its own run id (uuid4), so a run that   *)
(* ended never starts again.                                               *)
(***************************************************************************)
EXTENDS Integers

CONSTANTS
  Builders,    \* runs of artifact_build: they take the write lock
  Exporters,   \* runs of generator_busy: they take the generator lock
  Readers,     \* server threads running snapshot()
  NoRun,       \* stands for "no run id"
  Producer,    \* which caller of artifact_build each builder is
  Forced,      \* builders called with force=True or without is_current
  Bounded,     \* runs with a deadline (--lock-timeout), which poll
  Unlockable,  \* runs whose acquire raises: they go on without the lock
  Fallible,    \* runs whose stamp and record writes may be lost (OSError)
  Mortal,      \* runs the environment may kill
  SharedProbe, \* TRUE: POSIX flock(LOCK_SH); FALSE: msvcrt, exclusive only
  MaxEdits     \* bound on how often the source is edited

Runs == Builders \cup Exporters
ProducerKinds == {"step_artifact_cli", "gen", "dxf_artifact", "implicit_artifact"}

Absent == "absent"   \* a sentinel that no run ever opened
Empty == "empty"     \* a sentinel created, or truncated and not yet written

ASSUME RunsAssumption ==
  /\ Builders \cap Exporters = {}
  /\ {NoRun, Absent, Empty} \cap Runs = {}
ASSUME ProducerAssumption == Producer \in [Builders -> ProducerKinds]
ASSUME SwitchAssumption ==
  /\ Forced \subseteq Builders
  /\ Bounded \subseteq Runs /\ Unlockable \subseteq Runs
  /\ Fallible \subseteq Runs /\ Mortal \subseteq Runs
  /\ SharedProbe \in BOOLEAN
ASSUME EditAssumption == MaxEdits \in Nat

VARIABLES
  source,    \* the version of the model's source on disk
  package,   \* the render package: source executed, source recorded
  pc,        \* where each run is in artifact_build / generator_busy
  outcome,   \* what each run returned to its caller
  ran,       \* per run: source executed by the generator, source hashed after
  skipped,   \* builders whose run.skipped is set
  degraded,  \* runs that go on without mutual exclusion
  owner,     \* per lane: the run holding the kernel's exclusive lock
  probers,   \* per lane: readers holding the lock momentarily, in probe()
  stamp,     \* per lane: the sentinel file, Absent, Empty or a run id
  record,    \* per lane: the status record file
  view       \* per reader: its progress through snapshot()

runVars == <<pc, outcome, ran, skipped, degraded>>
lockVars == <<owner, probers, stamp>>
vars == <<source, package, pc, outcome, ran, skipped, degraded,
          owner, probers, stamp, record, view>>

-----------------------------------------------------------------------------
(* Lanes: a writer and a generator sentinel, each with a record of its own. *)

Lanes == {"write", "generate"}
Lane(r) == IF r \in Builders THEN "write" ELSE "generate"

Versions == -1 .. MaxEdits
Built == [content: Versions, closure: Versions]
Unbuilt == [content |-> -1, closure |-> -1]

\* A status record: who wrote it, its outcome, and whether it has a phase to show.
Outcomes == {"running", "done", "failed", "skipped"}
Records == [run: Runs \cup {NoRun}, outcome: Outcomes, bar: BOOLEAN]
NoRecord == [run |-> NoRun, outcome |-> "done", bar |-> FALSE]

Holding == {"locked", "truncated", "stamped", "checking", "skipped", "generate",
            "capture", "commit", "exporting", "finishing", "releasing"}
Points == Holding \cup {"new", "waiting", "ended", "dead"}
Results == {"none", "existing", "contended", "built", "exported", "failed"}

Views == [at: {"rest", "unlock", "generator", "readId", "readRecord"},
          lane: Lanes, run: Runs \cup {NoRun}, holders: SUBSET Runs,
          state: {"none", "idle", "writing", "busy"}, bar: Runs \cup {NoRun}]
Resting == [at |-> "rest", lane |-> "write", run |-> NoRun, holders |-> {},
            state |-> "none", bar |-> NoRun]

Init ==
  /\ source = 0
  /\ package = Unbuilt
  /\ pc = [r \in Runs |-> "new"]
  /\ outcome = [r \in Runs |-> "none"]
  /\ ran = [r \in Runs |-> Unbuilt]
  /\ skipped = {}
  /\ degraded = {}
  /\ owner = [l \in Lanes |-> NoRun]
  /\ probers = [l \in Lanes |-> {}]
  /\ stamp = [l \in Lanes |-> Absent]
  /\ record = [l \in Lanes |-> NoRecord]
  /\ view = [q \in Readers |-> Resting]

-----------------------------------------------------------------------------
(* Helpers.                                                                *)

\* is_current(): the source closure recorded in the package still hashes unchanged.
Current == package.closure = source

\* A run moves from one point of its code to another.
Step(r, from, to) ==
  /\ pc[r] = from
  /\ pc' = [pc EXCEPT ![r] = to]

\* Mutant: both lanes share one record file.
PublishInOneFile(r, result, bar) ==
  record' = [record EXCEPT !["write"] = [run |-> r, outcome |-> result, bar |-> bar]]

\* write_record(): an atomic replace whose failure is swallowed.
Publish(r, result, bar) ==
  \/ record' = [record EXCEPT ![Lane(r)] =
                  [run |-> r, outcome |-> result, bar |-> bar]]
  \/ r \in Fallible /\ UNCHANGED record

\* Mutant: a lock that does not exclude other writers.
FreeOfProbes(l) == probers[l] = {}

\* The kernel's exclusive lock can be granted: nobody holds it in any mode.
Free(l) == owner[l] = NoRun /\ probers[l] = {}

\* The kernel drops a run's lock when it unlocks, closes the file or dies.
LetGo(r) == owner' = [l \in Lanes |-> IF owner[l] = r THEN NoRun ELSE owner[l]]

-----------------------------------------------------------------------------
(* The environment edits the source (at most MaxEdits times) and kills runs. *)

Edit ==
  /\ source < MaxEdits
  /\ source' = source + 1
  /\ UNCHANGED <<package, runVars, lockVars, record, view>>

\* SIGKILL, a worker replaced by its client, an OOM kill: the kernel closes the
\* descriptors, nothing is published, the sentinel and the record stay on disk.
Crash(r) ==
  /\ r \in Mortal
  /\ pc[r] \in Holding \cup {"waiting"}
  /\ pc' = [pc EXCEPT ![r] = "dead"]
  /\ LetGo(r)
  /\ UNCHANGED <<source, package, outcome, ran, skipped, degraded, probers,
                 stamp, record, view>>

-----------------------------------------------------------------------------
(* lock.exclusive(), entered by artifact_build and generator_busy.         *)

\* build_step_artifact's fast path: current before the lock, no lock taken.
NoNeedToLock(r) ==
  /\ r \in Builders \ Forced
  /\ Producer[r] = "step_artifact_cli"
  /\ Current

FastPath(r) ==
  /\ NoNeedToLock(r)
  /\ Step(r, "new", "ended")
  /\ outcome' = [outcome EXCEPT ![r] = "existing"]
  /\ UNCHANGED <<source, package, ran, skipped, degraded, lockVars, record, view>>

\* Mutant: the sentinel is opened "w+b", which empties it before the lock is there.
OpenTruncating(r) ==
  /\ Step(r, "new", "waiting")
  /\ stamp' = [stamp EXCEPT ![Lane(r)] = Empty]
  /\ UNCHANGED <<source, package, outcome, ran, skipped, degraded, owner,
                 probers, record, view>>

\* Opening the sentinel "a+b" creates it; then the acquire starts.
Open(r) ==
  /\ ~ NoNeedToLock(r)
  /\ Step(r, "new", "waiting")
  /\ stamp' = [stamp EXCEPT ![Lane(r)] = IF @ = Absent THEN Empty ELSE @]
  /\ UNCHANGED <<source, package, outcome, ran, skipped, degraded, owner,
                 probers, record, view>>

\* flock(LOCK_EX) granted, blocking or at a poll.  Readers in the middle of a
\* snapshot of this lane have now lived through this run's tenure.
Acquire(r) ==
  /\ r \notin Unlockable
  /\ Free(Lane(r))
  /\ Step(r, "waiting", "locked")
  /\ owner' = [owner EXCEPT ![Lane(r)] = r]
  /\ view' = [q \in Readers |->
                IF view[q].at \in {"readId", "readRecord"} /\ view[q].lane = Lane(r)
                THEN [view[q] EXCEPT !.holders = @ \cup {r}]
                ELSE view[q]]
  /\ UNCHANGED <<source, package, outcome, ran, skipped, degraded, probers,
                 stamp, record>>

\* Mutant: a run that hits its deadline goes on without the lock.
GiveUpAndBuild(r) ==
  /\ r \in Bounded \ Unlockable
  /\ ~ Free(Lane(r))
  /\ Step(r, "waiting", "stamped")
  /\ UNCHANGED <<source, package, outcome, ran, skipped, degraded, lockVars, record, view>>

\* A poll finds the lock busy after the deadline: Contended.
GiveUp(r) ==
  /\ r \in Bounded \ Unlockable
  /\ ~ Free(Lane(r))
  /\ Step(r, "waiting", "ended")
  /\ outcome' = [outcome EXCEPT ![r] = "contended"]
  /\ UNCHANGED <<source, package, ran, skipped, degraded, lockVars, record, view>>

\* The sentinel cannot be opened, or the acquire raises (ENOLCK): go on with a minted id
\* that is in no sentinel.
Degrade(r) ==
  /\ r \in Unlockable
  /\ Step(r, "waiting", "stamped") \/ (~ NoNeedToLock(r) /\ Step(r, "new", "stamped"))
  /\ degraded' = degraded \cup {r}
  /\ UNCHANGED <<source, package, outcome, ran, skipped, lockVars, record, view>>

\* _write_run_id(): truncate, then write; a lost write is suppressed.
Truncate(r) ==
  /\ Step(r, "locked", "truncated")
  /\ stamp' = [stamp EXCEPT ![Lane(r)] = Empty]
  /\ UNCHANGED <<source, package, outcome, ran, skipped, degraded, owner,
                 probers, record, view>>

WriteRunId(r) ==
  /\ Step(r, "truncated", "stamped")
  /\ stamp' = [stamp EXCEPT ![Lane(r)] = r]
  /\ UNCHANGED <<source, package, outcome, ran, skipped, degraded, owner,
                 probers, record, view>>

LoseStamp(r) ==
  /\ r \in Fallible
  /\ Step(r, "locked", "stamped") \/ Step(r, "truncated", "stamped")
  /\ UNCHANGED <<source, package, outcome, ran, skipped, degraded, lockVars,
                 record, view>>

\* Mutant: the body returns and the descriptor stays open.
ReleaseNothing(r) ==
  /\ Step(r, "releasing", "ended")
  /\ UNCHANGED <<source, package, outcome, ran, skipped, degraded, lockVars, record, view>>

\* Leaving exclusive(): unlock and close.
Release(r) ==
  /\ Step(r, "releasing", "ended")
  /\ LetGo(r)
  /\ UNCHANGED <<source, package, outcome, ran, skipped, degraded, probers,
                 stamp, record, view>>

-----------------------------------------------------------------------------
(* artifact_build() under the lock, and what its callers do there.         *)

\* The starting record, before any work and before the body.
PublishRunning(r) ==
  /\ Step(r, "stamped", IF r \in Builders THEN "checking" ELSE "exporting")
  /\ Publish(r, "running", FALSE)
  /\ UNCHANGED <<source, package, outcome, ran, skipped, degraded, lockVars, view>>

\* is_current() re-evaluated under the lock.
Skip(r) ==
  /\ r \notin Forced
  /\ Current
  /\ Step(r, "checking", "skipped")
  /\ skipped' = skipped \cup {r}
  /\ Publish(r, "skipped", FALSE)
  /\ UNCHANGED <<source, package, outcome, ran, degraded, lockVars, view>>

\* Mutant: no re-check under the lock.
NeedsBuildUnchecked(r) ==
  /\ Step(r, "checking", "generate")
  /\ UNCHANGED <<source, package, outcome, ran, skipped, degraded, lockVars,
                 record, view>>

\* The package is missing or stale, or the caller insists.
NeedsBuild(r) ==
  /\ r \in Forced \/ ~ Current
  /\ Step(r, "checking", "generate")
  /\ UNCHANGED <<source, package, outcome, ran, skipped, degraded, lockVars,
                 record, view>>

\* A skipped body that only returns the existing payload (gen, implicit_artifact),
\* and step_artifact_cli's when the artifact is still there on a second look.
ReturnExisting(r) ==
  /\ Step(r, "skipped", "releasing")
  /\ Producer[r] # "dxf_artifact"
  /\ Producer[r] = "step_artifact_cli" => Current
  /\ outcome' = [outcome EXCEPT ![r] = "existing"]
  /\ UNCHANGED <<source, package, ran, skipped, degraded, lockVars, record, view>>

\* dxf_artifact reports its finalize phase on the skipped path as well.
FinalizeSkipped(r) ==
  /\ Step(r, "skipped", "releasing")
  /\ Producer[r] = "dxf_artifact"
  /\ outcome' = [outcome EXCEPT ![r] = "existing"]
  /\ Publish(r, "running", TRUE)
  /\ UNCHANGED <<source, package, ran, skipped, degraded, lockVars, view>>

\* step_artifact_cli looks again for the artifact; without it the skipped run builds.
BuildAfterSkip(r) ==
  /\ Step(r, "skipped", "generate")
  /\ Producer[r] = "step_artifact_cli"
  /\ ~ Current
  /\ UNCHANGED <<source, package, outcome, ran, skipped, degraded, lockVars,
                 record, view>>

\* run_script_generator: report the phase, load the source and execute it.
Generate(r) ==
  /\ Step(r, "generate", "capture")
  /\ ran' = [ran EXCEPT ![r].content = source]
  /\ Publish(r, "running", TRUE)
  /\ UNCHANGED <<source, package, outcome, skipped, degraded, lockVars, view>>

\* capture_runtime_closure: hash the executed files, after the generator returned.
Capture(r) ==
  /\ Step(r, "capture", "commit")
  /\ ran' = [ran EXCEPT ![r].closure = source]
  /\ UNCHANGED <<source, package, outcome, skipped, degraded, lockVars, record, view>>

\* The descriptor replaces the old one: the package's commit point.
Commit(r) ==
  /\ Step(r, "commit", "finishing")
  /\ package' = ran[r]
  /\ outcome' = [outcome EXCEPT ![r] = "built"]
  /\ UNCHANGED <<source, ran, skipped, degraded, lockVars, record, view>>

\* generator_busy's body: gen_step() and a file written elsewhere.
Export(r) ==
  /\ Step(r, "exporting", "finishing")
  /\ outcome' = [outcome EXCEPT ![r] = "exported"]
  /\ Publish(r, "running", TRUE)
  /\ UNCHANGED <<source, package, ran, skipped, degraded, lockVars, view>>

\* Mutant: the terminal record says an outcome that no reader knows.
FinishUnknown(r) ==
  /\ Step(r, "finishing", "releasing")
  /\ Publish(r, "complete", FALSE)
  /\ UNCHANGED <<source, package, outcome, ran, skipped, degraded, lockVars, view>>

\* The body returned.  A skipped run has returned from artifact_build before the
\* terminal publication.
Finish(r) ==
  /\ Step(r, "finishing", "releasing")
  /\ IF r \in skipped THEN UNCHANGED record ELSE Publish(r, "done", FALSE)
  /\ UNCHANGED <<source, package, outcome, ran, skipped, degraded, lockVars, view>>

\* The body may raise anywhere, also behind its commit (a result that cannot be read, an
\* export that cannot be copied) and in a run that was skipped.
InBody == {"skipped", "generate", "capture", "commit", "exporting", "finishing"}

\* Mutant: an exception leaves the body without a terminal record.
FailSilently(r) ==
  /\ \E at \in InBody : Step(r, at, "releasing")
  /\ outcome' = [outcome EXCEPT ![r] = "failed"]
  /\ UNCHANGED <<source, package, ran, skipped, degraded, lockVars, record, view>>

\* The body raised.
Fail(r) ==
  /\ \E at \in InBody : Step(r, at, "releasing")
  /\ outcome' = [outcome EXCEPT ![r] = "failed"]
  /\ IF r \in skipped THEN UNCHANGED record ELSE Publish(r, "failed", FALSE)
  /\ UNCHANGED <<source, package, ran, skipped, degraded, lockVars, view>>

-----------------------------------------------------------------------------
(* snapshot(): probe the writer, then the generator; attribute progress.   *)

\* The lane a reader is about to probe.
Probing(q, l) ==
  \/ view[q].at = "rest" /\ l = "write"
  \/ view[q].at = "generator" /\ l = "generate"

\* The reader cannot take the lock momentarily.  flock probes share with each other;
\* a msvcrt probe needs the lock for itself.
Blocked(l) == owner[l] # NoRun \/ (~ SharedProbe /\ probers[l] # {})

\* After a free lane: the other one, or idle.
NextLane(q, l) ==
  view' = [view EXCEPT ![q] =
             IF l = "write" THEN [Resting EXCEPT !.at = "generator"]
             ELSE [Resting EXCEPT !.state = "idle"]]

ProbeMissing(q) ==
  \E l \in Lanes :
    /\ Probing(q, l)
    /\ stamp[l] = Absent
    /\ NextLane(q, l)
    /\ UNCHANGED <<source, package, runVars, lockVars, record>>

ProbeFree(q) ==
  \E l \in Lanes :
    /\ Probing(q, l)
    /\ stamp[l] # Absent /\ ~ Blocked(l)
    /\ probers' = [probers EXCEPT ![l] = @ \cup {q}]
    /\ view' = [view EXCEPT ![q] = [Resting EXCEPT !.at = "unlock", !.lane = l]]
    /\ UNCHANGED <<source, package, runVars, owner, stamp, record>>

Unlock(q) ==
  /\ view[q].at = "unlock"
  /\ probers' = [probers EXCEPT ![view[q].lane] = @ \ {q}]
  /\ NextLane(q, view[q].lane)
  /\ UNCHANGED <<source, package, runVars, owner, stamp, record>>

ProbeHeld(q) ==
  \E l \in Lanes :
    /\ Probing(q, l)
    /\ stamp[l] # Absent /\ Blocked(l)
    /\ view' = [view EXCEPT ![q] =
                  [Resting EXCEPT !.at = "readId", !.lane = l,
                                  !.holders = {owner[l]} \ {NoRun}]]
    /\ UNCHANGED <<source, package, runVars, lockVars, record>>

\* read_run_id()
ReadRunId(q) ==
  /\ view[q].at = "readId"
  /\ view' = [view EXCEPT ![q].at = "readRecord",
                          ![q].run = IF stamp[view[q].lane] \in Runs
                                     THEN stamp[view[q].lane] ELSE NoRun]
  /\ UNCHANGED <<source, package, runVars, lockVars, record>>

\* Mutant: an open record is shown whoever wrote it.
ProgressOfAnyRun(rec, run) ==
  IF rec.outcome = "running" /\ rec.bar THEN rec.run ELSE NoRun

\* progress_for_run(): shown only when open, with a phase, and written by this run.
ProgressForRun(rec, run) ==
  IF rec.outcome = "running" /\ rec.bar /\ rec.run = run THEN rec.run ELSE NoRun

ReadRecord(q) ==
  /\ view[q].at = "readRecord"
  /\ view' = [view EXCEPT
                ![q].at = "rest",
                ![q].state = IF view[q].lane = "write" THEN "writing" ELSE "busy",
                ![q].bar = ProgressForRun(record[view[q].lane], view[q].run)]
  /\ UNCHANGED <<source, package, runVars, lockVars, record>>

-----------------------------------------------------------------------------
(* The specification.                                                      *)

LockStep(r) ==
  \/ FastPath(r) \/ Open(r) \/ Acquire(r) \/ GiveUp(r) \/ Degrade(r)
  \/ Truncate(r) \/ WriteRunId(r) \/ LoseStamp(r) \/ Release(r)

BodyStep(r) == PublishRunning(r) \/ Finish(r)

BuildStep(r) ==
  \/ Skip(r) \/ NeedsBuild(r) \/ ReturnExisting(r) \/ FinalizeSkipped(r)
  \/ BuildAfterSkip(r) \/ Generate(r) \/ Capture(r) \/ Commit(r)

ReadStep(q) ==
  \/ ProbeMissing(q) \/ ProbeFree(q) \/ Unlock(q) \/ ProbeHeld(q)
  \/ ReadRunId(q) \/ ReadRecord(q)

Next ==
  \/ Edit
  \/ \E r \in Runs : Crash(r) \/ Fail(r) \/ LockStep(r) \/ BodyStep(r)
  \/ \E r \in Builders : BuildStep(r)
  \/ \E r \in Exporters : Export(r)
  \/ \E q \in Readers : ReadStep(q)

Spec == Init /\ [][Next]_vars

\* A run that was started is not stopped by the scheduler, and a run waiting for a
\* lock that is free again and again gets it (the kernel's queue, or polls at 20 ms
\* that do not all coincide with probes).  Starting a run, editing, failing and
\* killing are the environment's and are not fair.
Fairness ==
  /\ \A r \in Runs :
       /\ WF_vars(pc[r] # "new" /\ (LockStep(r) \/ BodyStep(r)))
       /\ SF_vars(Acquire(r))
  /\ \A r \in Builders : WF_vars(BuildStep(r))
  /\ \A r \in Exporters : WF_vars(Export(r))
  /\ \A q \in Readers : WF_vars(view[q].at # "rest" /\ ReadStep(q))

FairSpec == Spec /\ Fairness

-----------------------------------------------------------------------------
(* Properties.                                                             *)

TypeOK ==
  /\ source \in 0 .. MaxEdits
  /\ package \in Built
  /\ pc \in [Runs -> Points]
  /\ outcome \in [Runs -> Results]
  /\ ran \in [Runs -> Built]
  /\ skipped \subseteq Builders
  /\ degraded \subseteq Unlockable
  /\ owner \in [Lanes -> Runs \cup {NoRun}]
  /\ probers \in [Lanes -> SUBSET Readers]
  /\ stamp \in [Lanes -> Runs \cup {Absent, Empty}]
  /\ record \in [Lanes -> Records]
  /\ view \in [Readers -> Views]

\* Two runs of one lane are between acquire and release together only if one of them
\* runs degraded (lock.exclusive: "Hold lock_path exclusively for the body").
MutualExclusion ==
  \A a, b \in Runs \ degraded :
    a # b /\ Lane(a) = Lane(b) => ~ (pc[a] \in Holding /\ pc[b] \in Holding)

\* From the stamp on, the sentinel names the run that holds its lock, whatever earlier
\* runs left in it: what the Node builders check and readers attribute progress with.
StampNamesHolder ==
  \A r \in Runs \ (degraded \cup Fallible) :
    pc[r] \in Holding \ {"locked", "truncated"} => stamp[Lane(r)] = r

\* Once it has published, the holder's record is in the file: no peer that has a lock
\* of either lane overwrites a live run's progress.
HolderOwnsRecord ==
  \A r \in Runs \ (degraded \cup Fallible) :
    pc[r] \in Holding \ {"locked", "truncated", "stamped"} =>
      record[Lane(r)].run \in {r} \cup degraded

\* A record still open belongs to a run that is still there, was killed, or found the
\* artifact current: every other way out publishes a terminal record.
OpenRecordsExplained ==
  \A l \in Lanes :
    record[l].outcome = "running" /\ pc[record[l].run] = "ended" =>
      record[l].run \in skipped \cup Fallible

\* Each version of the source is built once: of two unforced builds that committed,
\* coordinated all along, the packages record different versions (the re-check under
\* the lock that artifact_build's step 3 exists for).
NoDuplicateBuild ==
  degraded = {} =>
    \A a, b \in Builders \ Forced :
      a # b /\ outcome[a] = "built" /\ outcome[b] = "built" =>
        ran[a].closure # ran[b].closure

\* A package recorded as built from the current source was built from it ("A changed
\* generator or shared helper invalidates the closure").
FreshMeansBuiltFromSource == Current => package.content = source

\* A later commit never replaces a package by one built from older source, unless some
\* run went on without the lock.
PackageNeverRegresses ==
  [][degraded = {} => /\ package'.content >= package.content
                      /\ package'.closure >= package.closure]_vars

\* What the protocol is for: as long as every acquire works, the builds of an artifact are
\* serial, each leaving a newer package than it found (artifact_build, steps 1 and 3).
Serial == INSTANCE SerialBuilds WITH version <- package.closure, writer <- owner["write"]
BuildsAreSerial == Serial!Spec

\* The end of a snapshot, with the progress it shows.
Shows(q) == view[q].at = "readRecord" /\ view'[q].at = "rest" /\ view'[q].bar # NoRun

\* snapshot() says that progress "is attached only when the record on disk belongs to
\* the run that currently holds the writer lock".  Between a new holder's acquire and
\* its stamp it can be a killed run's; it is never that of another run still at work.
BarIsNeverALivePeers ==
  [][\A q \in Readers :
       Shows(q) => view'[q].bar \in view[q].holders \/ pc[view'[q].bar] \in {"ended", "dead"}]_vars

\* A run that reaches the lock returns or dies: no wait is forever.
EveryRunReturns ==
  \A r \in Runs : pc[r] = "waiting" ~> pc[r] \in {"ended", "dead"}
=============================================================================
