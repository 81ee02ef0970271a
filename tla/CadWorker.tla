------------------------------ MODULE CadWorker ------------------------------
(***************************************************************************)
(* How the backend runs cadgen: threads of the HTTP server send builds to  *)
(* the one warm worker process over a pair of pipes (server_py/worker_     *)
(* client.py), retry once after a transport fault and fall back to a cold  *)
(* subprocess (cadgen_bridge.py).  The processes make the steps of         *)
(* worker.serve(), each under the lock of the artifact it builds; that     *)
(* lock is reduced to what Coordination shows of it: one holder, dropped   *)
(* when it dies, and a bounded acquire that reports "contended".           *)
(*                                                                         *)
(* Time is not modelled: a wait may be declared silent whenever no line is *)
(* there to read and the process is wedged or, where Quiet says so, merely *)
(* quiet for longer than the idle budget, which counts as a fault.         *)
(***************************************************************************)
EXTENDS Integers, Sequences

CONSTANTS
  Threads,     \* server threads, one request each
  Artifacts,   \* the artifacts they build
  ArtifactOf,  \* what each thread's request builds
  Forced,      \* requests sent with force
  None,        \* stands for "no process", "no thread"
  Recycle,     \* VIEWER_CAD_WORKER_RECYCLE, 0 for never
  Quiet,       \* TRUE: a healthy process may be quiet longer than the idle budget
  MaxProcs,    \* bound on the processes started
  MaxFaults    \* bound on crashes, wedged or too quiet processes, failed spawns and protocol errors

Procs == 1 .. MaxProcs

ASSUME ThreadsAssumption == ArtifactOf \in [Threads -> Artifacts] /\ Forced \subseteq Threads
ASSUME NoneAssumption == None \notin Threads \cup Procs
ASSUME QuietAssumption == Quiet \in BOOLEAN
ASSUME BoundsAssumption == Recycle \in Nat /\ MaxProcs \in Nat /\ MaxFaults \in Nat

VARIABLES
  at,        \* per thread: where it is in run_cadgen()
  expects,   \* per thread: the id of its last frame, 0 before
  answer,    \* per thread: the result it returned, and whose job that was
  mutex,     \* CadWorker._lock: the thread in _request(), or None
  proc,      \* CadWorker._proc: the warm worker, or None
  reaping,   \* the worker whose pipes _reap() is closing, or None
  nextId,    \* CadWorker._next_id
  invokes,   \* CadWorker._invokes
  cold,      \* per thread: its cold subprocess, or None
  started,   \* how many processes were started
  life,      \* per process: "unborn", "running", "doomed" (signalled) or "dead"
  wedged,    \* processes that will never make a step again
  heirs,     \* dead workers whose pool processes live on and hold their stderr open
  job,       \* per process: the frame it is executing
  step,      \* per process: where it is in the execution
  inbox,     \* per process: frames written to its stdin
  outbox,    \* per process: responses in its stdout pipe
  lock,      \* per artifact: the process holding its write lock, or None
  fresh,     \* per artifact: the package is current
  commits,   \* per thread: packages written for its request (history)
  faults     \* how many faults have happened

clientVars == <<mutex, proc, reaping, nextId, invokes, cold, started, at, expects, answer>>
workerVars == <<life, wedged, heirs, job, step, inbox, outbox, lock, fresh, commits, faults>>
vars == <<clientVars, workerVars>>

-----------------------------------------------------------------------------

Results == {"ok", "contended", "failed", "protocol error"}
Frame == [id: Nat, owner: Threads]
NoFrame == [id |-> 0, owner |-> None]
NoAnswer == [owner |-> None, result |-> "none"]
Steps == {"idle", "acquire", "locked", "committed", "replied"}
Points == {"new", "closing", "send", "wait", "reclosing", "resend", "rewait", "cold", "coldwait",
           "returned"}

Init ==
  /\ at = [t \in Threads |-> "new"]
  /\ expects = [t \in Threads |-> 0]
  /\ answer = [t \in Threads |-> NoAnswer]
  /\ mutex = None /\ proc = None /\ reaping = None
  /\ nextId = 0 /\ invokes = 0
  /\ cold = [t \in Threads |-> None]
  /\ started = 0
  /\ life = [p \in Procs |-> "unborn"]
  /\ wedged = {}
  /\ heirs = {}
  /\ job = [p \in Procs |-> NoFrame]
  /\ step = [p \in Procs |-> "idle"]
  /\ inbox = [p \in Procs |-> <<>>]
  /\ outbox = [p \in Procs |-> <<>>]
  /\ lock = [a \in Artifacts |-> None]
  /\ fresh = [a \in Artifacts |-> FALSE]
  /\ commits = [t \in Threads |-> 0]
  /\ faults = 0

-----------------------------------------------------------------------------
(* The processes.                                                          *)

Artifact(p) == ArtifactOf[job[p].owner]

\* The kernel drops a process's lock.
Unlocked(p) == [a \in Artifacts |-> IF lock[a] = p THEN None ELSE lock[a]]

\* The processes of the pool a build works with outlive it: they wait for calls on a pipe of
\* which they hold both ends. They inherited its stderr.
Bequeaths(p) ==
  \/ UNCHANGED heirs
  \/ /\ step[p] = "locked" /\ \A t \in Threads : cold[t] # p
     /\ heirs' = heirs \cup {p}

\* A process is gone: so is its lock, and what it was doing.
Gone(p) ==
  /\ Bequeaths(p)
  /\ life' = [life EXCEPT ![p] = "dead"]
  /\ lock' = Unlocked(p)
  /\ wedged' = wedged \ {p}
  /\ job' = [job EXCEPT ![p] = NoFrame]
  /\ step' = [step EXCEPT ![p] = "idle"]

CanStep(p) == life[p] = "running" /\ p \notin wedged

\* No line, and none comes within the idle budget.
Silent(p) == outbox[p] = <<>> /\ (~ CanStep(p) \/ (Quiet /\ faults < MaxFaults))

\* The idle watchdog fired, perhaps on a process at work.
Watchdog(p) == faults' = IF CanStep(p) THEN faults + 1 ELSE faults

\* serve(): read the next frame.
Take(p) ==
  /\ CanStep(p)
  /\ step[p] = "idle" /\ inbox[p] # <<>>
  /\ job' = [job EXCEPT ![p] = Head(inbox[p])]
  /\ inbox' = [inbox EXCEPT ![p] = Tail(@)]
  /\ step' = [step EXCEPT ![p] = "acquire"]
  /\ UNCHANGED <<clientVars, life, wedged, heirs, outbox, lock, fresh, commits, faults>>

Lock(p) ==
  /\ CanStep(p)
  /\ step[p] = "acquire"
  /\ lock[Artifact(p)] = None
  /\ lock' = [lock EXCEPT ![Artifact(p)] = p]
  /\ step' = [step EXCEPT ![p] = "locked"]
  /\ UNCHANGED <<clientVars, life, wedged, heirs, job, inbox, outbox, fresh, commits, faults>>

\* Write the response; a warm worker reads on, a cold one exits.
Respond(p, result) ==
  /\ job' = [job EXCEPT ![p] = NoFrame]
  /\ outbox' = [outbox EXCEPT ![p] =
                  Append(@, [id |-> job[p].id, owner |-> job[p].owner, result |-> result])]
  /\ step' = [step EXCEPT ![p] = IF \E t \in Threads : cold[t] = p THEN "replied" ELSE "idle"]

\* --lock-timeout expires: nothing is built.
Contend(p) ==
  /\ CanStep(p)
  /\ step[p] = "acquire"
  /\ lock[Artifact(p)] # None
  /\ Respond(p, "contended")
  /\ UNCHANGED <<clientVars, life, wedged, heirs, inbox, lock, fresh, commits, faults>>

\* Mutant: no freshness check under the lock.
BuildUnchecked(p) ==
  /\ CanStep(p)
  /\ step[p] = "locked"
  /\ commits' = [commits EXCEPT ![job[p].owner] = @ + 1]
  /\ fresh' = [fresh EXCEPT ![Artifact(p)] = TRUE]
  /\ step' = [step EXCEPT ![p] = "committed"]
  /\ UNCHANGED <<clientVars, life, wedged, heirs, job, inbox, outbox, lock, faults>>

\* Under the lock: build, unless the package is current and nobody forces it.
Build(p) ==
  /\ CanStep(p)
  /\ step[p] = "locked"
  /\ commits' = [commits EXCEPT ![job[p].owner] =
                   IF fresh[Artifact(p)] /\ job[p].owner \notin Forced THEN @ ELSE @ + 1]
  /\ fresh' = [fresh EXCEPT ![Artifact(p)] = TRUE]
  /\ step' = [step EXCEPT ![p] = "committed"]
  /\ UNCHANGED <<clientVars, life, wedged, heirs, job, inbox, outbox, lock, faults>>

Reply(p) ==
  /\ CanStep(p)
  /\ step[p] = "committed"
  /\ lock' = Unlocked(p)
  /\ Respond(p, "ok")
  /\ UNCHANGED <<clientVars, life, wedged, heirs, inbox, fresh, commits, faults>>

\* The build raises, or the frame is rejected before it starts (cadgen is not importable).
FailJob(p) ==
  /\ CanStep(p)
  /\ faults < MaxFaults /\ faults' = faults + 1
  /\ lock' = Unlocked(p)
  /\ \/ step[p] \in {"acquire", "locked"} /\ Respond(p, "failed")
     \/ step[p] = "acquire" /\ Respond(p, "protocol error")
  /\ UNCHANGED <<clientVars, life, wedged, heirs, inbox, fresh, commits>>

\* A hard fault in the CAD kernel, or an OOM kill.
Die(p) ==
  /\ life[p] = "running"
  /\ faults < MaxFaults /\ faults' = faults + 1
  /\ Gone(p)
  /\ UNCHANGED <<clientVars, inbox, outbox, fresh, commits>>

\* A deadlocked pipe or a native call that never returns.
Wedge(p) ==
  /\ CanStep(p)
  /\ step[p] # "idle"
  /\ faults < MaxFaults /\ faults' = faults + 1
  /\ wedged' = wedged \cup {p}
  /\ UNCHANGED <<clientVars, life, heirs, job, step, inbox, outbox, lock, fresh, commits>>

\* A signalled process is gone at last; killing it was not waited for.
Expire(p) ==
  /\ life[p] = "doomed"
  /\ Gone(p)
  /\ UNCHANGED <<clientVars, inbox, outbox, fresh, commits, faults>>

\* The pool of a dead worker is killed, by hand or with the machine.
Disinherit(p) ==
  /\ p \in heirs
  /\ heirs' = heirs \ {p}
  /\ UNCHANGED <<clientVars, life, wedged, job, step, inbox, outbox, lock, fresh, commits, faults>>

-----------------------------------------------------------------------------
(* CadWorker.                                                              *)

procVars == <<life, lock, wedged, heirs, job, step>>
Alive == proc # None /\ life[proc] = "running"

\* Mutant: _reap() forgets the process without signalling it.
ReapNothing(t, to) ==
  /\ proc' = None
  /\ at' = [at EXCEPT ![t] = to]
  /\ UNCHANGED <<reaping, procVars>>

\* The point at which a thread closes pipes before it goes on to send or resend.
ClosingBefore(to) == IF to = "send" THEN "closing" ELSE "reclosing"

\* _reap(): terminate, wait two seconds, then kill without waiting; then its pipes are closed.
Reap(t, to) ==
  /\ proc' = None
  /\ reaping' = proc
  /\ at' = [at EXCEPT ![t] = IF proc = None THEN to ELSE ClosingBefore(to)]
  /\ IF Alive
     THEN \/ Gone(proc)
          \/ /\ life' = [life EXCEPT ![proc] = "doomed"]
             /\ UNCHANGED <<lock, wedged, heirs, job, step>>
     ELSE UNCHANGED procVars

\* close() waits for the buffer's lock, and the thread that drains stderr has it until the
\* pipe ends: until the process and everybody who inherited its stderr are gone.
EndOfFile(p) == life[p] = "dead" /\ p \notin heirs

ClosePipes(t) ==
  /\ at[t] \in {"closing", "reclosing"}
  /\ EndOfFile(reaping)
  /\ reaping' = None
  /\ at' = [at EXCEPT ![t] = IF @ = "closing" THEN "send" ELSE "resend"]
  /\ UNCHANGED <<workerVars, mutex, proc, nextId, invokes, cold, started, expects, answer>>

\* _request(): take the lock; a worker that served enough requests is replaced.
Enter(t) ==
  /\ at[t] = "new"
  /\ mutex = None
  /\ mutex' = t
  /\ IF Recycle > 0 /\ invokes >= Recycle
     THEN Reap(t, "send")
     ELSE at' = [at EXCEPT ![t] = "send"] /\ UNCHANGED <<proc, reaping, procVars>>
  /\ UNCHANGED <<expects, answer, nextId, invokes, cold, started, inbox, outbox, fresh,
                 commits, faults>>

Sending == {"send", "resend"}
Waiting == {"wait", "rewait"}
Waits(t) == [at EXCEPT ![t] = IF @ = "send" THEN "wait" ELSE "rewait"]

\* _send_once(), first half, to the worker that is there.
Send(t) ==
  /\ at[t] \in Sending
  /\ Alive
  /\ nextId' = nextId + 1
  /\ expects' = [expects EXCEPT ![t] = nextId + 1]
  /\ inbox' = [inbox EXCEPT ![proc] = Append(@, [id |-> nextId + 1, owner |-> t])]
  /\ at' = Waits(t)
  /\ UNCHANGED <<answer, mutex, proc, reaping, invokes, cold, started, life, wedged, heirs, job,
                 step, outbox, lock, fresh, commits, faults>>

\* _spawn(): what is left of the last worker is reaped first.
ReapDead(t) ==
  /\ at[t] \in Sending
  /\ proc # None /\ ~ Alive
  /\ Reap(t, at[t])
  /\ UNCHANGED <<expects, answer, mutex, nextId, invokes, cold, started, inbox, outbox, fresh,
                 commits, faults>>

\* _send_once(), first half, with a new worker.
SpawnAndSend(t) ==
  /\ at[t] \in Sending
  /\ proc = None
  /\ started < MaxProcs
  /\ started' = started + 1
  /\ proc' = started + 1
  /\ life' = [life EXCEPT ![started + 1] = "running"]
  /\ invokes' = 0
  /\ nextId' = nextId + 1
  /\ expects' = [expects EXCEPT ![t] = nextId + 1]
  /\ inbox' = [inbox EXCEPT ![started + 1] = <<[id |-> nextId + 1, owner |-> t]>>]
  /\ at' = Waits(t)
  /\ UNCHANGED <<answer, mutex, reaping, cold, wedged, heirs, job, step, outbox, lock, fresh, commits,
                 faults>>

\* A transport fault: reap and try once more, then give up on the warm worker.
Fault(t) ==
  IF at[t] \in {"send", "wait"}
  THEN /\ Reap(t, "resend")
       /\ UNCHANGED mutex
  ELSE /\ mutex' = None
       /\ at' = [at EXCEPT ![t] = "cold"]
       /\ UNCHANGED <<proc, reaping, procVars>>

\* Popen raises an OSError, which counts as a transport fault.
SpawnFails(t) ==
  /\ at[t] \in Sending
  /\ proc = None
  /\ faults < MaxFaults /\ faults' = faults + 1
  /\ Fault(t)
  /\ UNCHANGED <<expects, answer, nextId, invokes, cold, started, inbox, outbox, fresh, commits>>

Return(t, owner, result) ==
  /\ answer' = [answer EXCEPT ![t] = [owner |-> owner, result |-> result]]
  /\ at' = [at EXCEPT ![t] = "returned"]

\* Mutant: whatever line comes is the answer.
AnyLine(t, line) == line.id # 0

\* The response is for this request.
Matches(t, line) == line.id = expects[t]

\* _send_once(), second half: a line is read.
Receive(t) ==
  /\ at[t] \in Waiting
  /\ outbox[proc] # <<>>
  /\ LET line == Head(outbox[proc]) IN
       \/ /\ Matches(t, line) /\ line.result # "protocol error"
          /\ Return(t, line.owner, line.result)
          /\ mutex' = None
          /\ invokes' = invokes + 1
          /\ UNCHANGED <<proc, reaping, procVars>>
       \/ /\ Matches(t, line) /\ line.result = "protocol error"
          /\ at' = [at EXCEPT ![t] = "cold"]
          /\ mutex' = None
          /\ UNCHANGED <<answer, invokes, proc, reaping, procVars>>
       \/ /\ ~ Matches(t, line)
          /\ Fault(t)
          /\ UNCHANGED <<answer, invokes>>
  /\ outbox' = [outbox EXCEPT ![proc] = Tail(@)]
  /\ UNCHANGED <<expects, nextId, cold, started, inbox, fresh, commits, faults>>

\* Mutant: the retry waits without a budget.
LoseFirst(t) ==
  /\ at[t] = "wait" \/ (at[t] = "rewait" /\ ~ Alive)
  /\ Silent(proc)
  /\ Watchdog(proc)
  /\ Fault(t)
  /\ UNCHANGED <<expects, answer, nextId, invokes, cold, started, inbox, outbox, fresh,
                 commits>>

\* End of file, or silence for the whole idle budget.
Lose(t) ==
  /\ at[t] \in Waiting
  /\ Silent(proc)
  /\ Watchdog(proc)
  /\ Fault(t)
  /\ UNCHANGED <<expects, answer, nextId, invokes, cold, started, inbox, outbox, fresh,
                 commits>>

\* The reader thread of an attempt that was given up still reads from the worker that was
\* not reaped: it may take the line that the abandoned job produces at last.
StrayRead(t) ==
  /\ at[t] \in {"cold", "coldwait", "returned"}
  /\ Alive /\ outbox[proc] # <<>>
  /\ Head(outbox[proc]).owner = t
  /\ outbox' = [outbox EXCEPT ![proc] = Tail(@)]
  /\ UNCHANGED <<clientVars, life, wedged, heirs, job, step, inbox, lock, fresh, commits, faults>>

-----------------------------------------------------------------------------
(* run_cadgen_cold().                                                      *)

StartCold(t) ==
  /\ at[t] = "cold"
  /\ started < MaxProcs
  /\ started' = started + 1
  /\ cold' = [cold EXCEPT ![t] = started + 1]
  /\ life' = [life EXCEPT ![started + 1] = "running"]
  /\ inbox' = [inbox EXCEPT ![started + 1] = <<[id |-> 0, owner |-> t]>>]
  /\ at' = [at EXCEPT ![t] = "coldwait"]
  /\ UNCHANGED <<expects, answer, mutex, proc, reaping, nextId, invokes, wedged, heirs, job, step,
                 outbox, lock, fresh, commits, faults>>

\* Popen raises an OSError: that is the answer.
ColdSpawnFails(t) ==
  /\ at[t] = "cold"
  /\ faults < MaxFaults /\ faults' = faults + 1
  /\ Return(t, t, "failed")
  /\ UNCHANGED <<expects, mutex, proc, reaping, nextId, invokes, cold, started, life, wedged, heirs,
                 job, step, inbox, outbox, lock, fresh, commits>>

\* Mutant: an internal status leaves the bridge.
ColdResultAsIs(result) == result

\* What a cold process's line means to the caller: there is no retry after it.
ColdResult(result) == IF result = "protocol error" THEN "failed" ELSE result

\* It exited and left a line, or none.
ColdDone(t) ==
  /\ at[t] = "coldwait"
  /\ step[cold[t]] = "replied" \/ life[cold[t]] = "dead"
  /\ IF outbox[cold[t]] # <<>>
     THEN Return(t, t, ColdResult(Head(outbox[cold[t]]).result))
     ELSE Return(t, t, "failed")
  /\ Gone(cold[t])
  /\ UNCHANGED <<expects, mutex, proc, reaping, nextId, invokes, cold, started, inbox, outbox, fresh,
                 commits, faults>>

\* Silent for the whole idle budget: killed, waited for, and reported.
ColdSilent(t) ==
  /\ at[t] = "coldwait"
  /\ life[cold[t]] = "running" /\ Silent(cold[t])
  /\ Watchdog(cold[t])
  /\ Return(t, t, "failed")
  /\ Gone(cold[t])
  /\ UNCHANGED <<expects, mutex, proc, reaping, nextId, invokes, cold, started, inbox, outbox, fresh,
                 commits>>

-----------------------------------------------------------------------------

Work(p) == Take(p) \/ Lock(p) \/ Contend(p) \/ Build(p) \/ Reply(p)

Run(t) ==
  \/ Enter(t) \/ ClosePipes(t) \/ ReapDead(t)
  \/ Send(t) \/ SpawnAndSend(t) \/ Receive(t) \/ Lose(t)
  \/ StartCold(t) \/ ColdDone(t) \/ ColdSilent(t)

Next ==
  \/ \E p \in Procs : Work(p) \/ FailJob(p) \/ Die(p) \/ Wedge(p) \/ Expire(p) \/ Disinherit(p)
  \/ \E t \in Threads : Run(t) \/ StrayRead(t) \/ SpawnFails(t) \/ ColdSpawnFails(t)

Spec == Init /\ [][Next]_vars

\* Processes that can run do, signalled ones die, and the idle watchdogs of waiting
\* threads fire at last.  Threads wait for the lock of CadWorker, which does not starve
\* them: each sends one request.
Fairness ==
  /\ \A p \in Procs : WF_vars(Work(p)) /\ WF_vars(Expire(p))
  /\ \A t \in Threads : WF_vars(at[t] # "new" /\ Run(t)) /\ SF_vars(Enter(t))

FairSpec == Spec /\ Fairness

-----------------------------------------------------------------------------
(* Properties.                                                             *)

TypeOK ==
  /\ at \in [Threads -> Points]
  /\ expects \in [Threads -> Nat]
  /\ answer \in [Threads -> [owner: Threads, result: Results \ {"protocol error"}] \cup {NoAnswer}]
  /\ mutex \in Threads \cup {None}
  /\ proc \in Procs \cup {None}
  /\ reaping \in Procs \cup {None}
  /\ nextId \in Nat /\ invokes \in Nat
  /\ cold \in [Threads -> Procs \cup {None}]
  /\ started \in 0 .. MaxProcs
  /\ life \in [Procs -> {"unborn", "running", "doomed", "dead"}]
  /\ wedged \subseteq Procs
  /\ heirs \subseteq Procs
  /\ job \in [Procs -> Frame \cup {NoFrame}]
  /\ step \in [Procs -> Steps]
  /\ inbox \in [Procs -> Seq(Frame)]
  /\ outbox \in [Procs -> Seq([id: Nat, owner: Threads, result: Results])]
  /\ lock \in [Artifacts -> Procs \cup {None}]
  /\ fresh \in [Artifacts -> BOOLEAN]
  /\ commits \in [Threads -> Nat]
  /\ faults \in 0 .. MaxFaults

\* A request is answered with the result of its own job, never with what an abandoned
\* attempt of another request produced later on the same pipe.
AnswersAreOwn == \A t \in Threads : answer[t].owner \in {t, None}

\* A request that was retried after its build had been written does not write again: the
\* attempts of an unforced request write the package once at most.
OneCommitPerRequest == \A t \in Threads \ Forced : commits[t] <= 1

\* Every process still running is the warm worker or some thread's cold subprocess; each
\* worker given up was at least signalled.
NoLeakedWorkers ==
  \A p \in Procs : life[p] = "running" => p = proc \/ \E t \in Threads : cold[t] = p /\ at[t] = "coldwait"

\* A thread with the mutex closes the stderr of a worker whose pool lives on.
Stuck == reaping \in heirs

\* Every request returns, however often its processes die, wedge or fail to start; unless, for
\* good, one of them waits in _reap() for the pool of a dead worker.
EveryRequestReturns ==
  (\A t \in Threads : <>(at[t] = "returned")) \/ <>[]Stuck
=============================================================================
