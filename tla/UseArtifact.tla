----------------------------- MODULE UseArtifact -----------------------------
(***************************************************************************)
(* One model open in the browser: the useArtifact hook of each tab, the    *)
(* artifact routes of the backend it calls, and the other processes that   *)
(* build or export the same model.                                         *)
(*                                                                         *)
(* A tab runs the hook's effect again whenever the selection or the        *)
(* freshness key changes.  Within an effect several coroutines interleave: *)
(* a resolve(), the one long POST it may be waiting in, and chains of      *)
(* progress polls kept alive by timers.  A request occupies a slot from    *)
(* the fetch until its continuation runs; the server's part of it consists *)
(* of the steps between which other requests and builds interleave.        *)
(***************************************************************************)
EXTENDS Integers

CONSTANTS
  Tabs,        \* browser tabs that have the model open
  Peers,       \* builds started outside the viewer (cad gen in a terminal)
  Nobody,      \* stands for "no run holds the write lock"
  MaxEffects,  \* bound on how often a tab's effect starts
  MaxRequests, \* bound on the requests in flight together
  MaxEdits,    \* bound on how often the source is edited
  Exporter,    \* stands for an export that holds the write lock
  MaxEvents    \* bound on what else happens: edits, failures, builds and exports beside the POSTs

Slots == 1 .. MaxRequests

ASSUME BoundsAssumption == MaxEffects \in Nat /\ MaxRequests \in Nat /\ MaxEdits \in Nat /\ MaxEvents \in Nat
ASSUME PeersAssumption ==
  /\ Peers \cap Slots = {}
  /\ Nobody \notin Peers \cup Slots
  /\ Exporter \notin Peers \cup Slots \cup {Nobody}

VARIABLES
  model,     \* what the model is, a "drawing" or a "solid"; never changes
  source,    \* the version of the model's source
  package,   \* the source version the render package records
  content,   \* the source version the render package was made of
  writer,    \* who holds the write lock: a peer, a POST's slot, Exporter or Nobody
  stage,     \* how far the writer is, "none" without one
  executed,  \* the source version the writer has executed
  terminal,  \* the export in a terminal, of the generator lock
  export,    \* the export of the viewer: "before", its lock and whether it has it, "after"
  peers,     \* peers that have not started yet
  events,    \* how much of that has happened so far
  request,   \* the requests in flight
  effect,    \* per tab: number of the effect that is current, 0 before the first
  attached,  \* per tab: the current effect watches a build it did not start
  timer,     \* per tab: pollTimer names a timer that is still armed
  loose,     \* per tab: armed timers that pollTimer does not name any more
  shown,     \* per tab: the state set last, and the effect that set it
  opened     \* per tab: the source version when the current effect started (history)

packageVars == <<package, content>>
writerVars == <<writer, stage, executed>>
serverVars == <<model, source, packageVars, writerVars, terminal, export, peers, events>>
tabVars == <<effect, attached, timer, loose, shown, opened>>
vars == <<serverVars, request, tabVars>>

-----------------------------------------------------------------------------

Fresh == package = source

\* What a request is for: resolve()'s status check, its POST, or a progress poll.
Kinds == {"resolve", "post", "poll"}
Answers == {"none", "ready", "generating", "blocked", "needs-build", "error", "failed"}

Idle == [kind |-> "none", tab |-> "none", effect |-> 0, at |-> "none", answer |-> "none"]
Requests ==
  [kind: Kinds, tab: Tabs, effect: 1 .. MaxEffects, answer: Answers,
   at: {"sent", "idle", "busy", "queued", "building", "answered"}]

Init ==
  /\ model \in {"drawing", "solid"}
  /\ source = 0
  /\ package \in {-1, 0} /\ content = package
  /\ writer = Nobody /\ stage = "none" /\ executed = 0
  /\ terminal = "before" /\ export = "before"
  /\ peers = Peers
  /\ events = 0
  /\ request = [i \in Slots |-> Idle]
  /\ effect = [t \in Tabs |-> 0]
  /\ attached = [t \in Tabs |-> FALSE]
  /\ timer = [t \in Tabs |-> FALSE]
  /\ loose = [t \in Tabs |-> 0]
  /\ shown = [t \in Tabs |-> [effect |-> 0, status |-> "ready"]]
  /\ opened = [t \in Tabs |-> 0]

-----------------------------------------------------------------------------
(* The model's other processes.                                            *)

\* An edit, a failure, a terminal's build or an export: at most MaxEvents of them together.
Event == events < MaxEvents /\ events' = events + 1

Edit ==
  /\ source < MaxEdits
  /\ source' = source + 1
  /\ Event
  /\ UNCHANGED <<model, packageVars, writerVars, terminal, export, peers, request, tabVars>>

\* Whoever builds does so under the write lock: a terminal, a POST, the export of a drawing.
Lock(w) ==
  /\ writer = Nobody
  /\ writer' = w
  /\ stage' = "locked"
  /\ UNCHANGED executed

\* The writer executes the sources; while it does they may be edited.
Execute ==
  /\ stage = "locked"
  /\ stage' = "executed"
  /\ executed' = source
  /\ UNCHANGED <<model, source, packageVars, writer, terminal, export, peers, events, request, tabVars>>

\* What was executed is hashed, and the package written.  An edit between the two is the same
\* as one after them.
Commit ==
  /\ stage = "executed"
  /\ package' = source /\ content' = executed
  /\ UNCHANGED events

\* A package that is current under the lock is left as it is, except by a forced build.
KeepPackage == stage = "locked" /\ Fresh /\ UNCHANGED <<packageVars, events>>

\* A writer returns, and its lock goes with all it kept.
Unlock == writer' = Nobody /\ stage' = "none" /\ executed' = 0
Built == (Commit \/ KeepPackage) /\ Unlock
Failed == Event /\ UNCHANGED packageVars /\ Unlock

\* A CLI build waits for the lock without a deadline.
PeerStarts(p) ==
  /\ p \in peers
  /\ Lock(p)
  /\ peers' = peers \ {p}
  /\ Event
  /\ UNCHANGED <<model, source, packageVars, terminal, export, request, tabVars>>

PeerEnds(p) ==
  /\ writer = p
  /\ Built \/ Failed
  /\ UNCHANGED <<model, source, terminal, export, peers, request, tabVars>>

\* An export in a terminal holds the generator lock; that of a drawing is one of the builds.
TerminalExports ==
  /\ model # "drawing"
  /\ terminal = "before" /\ export # "generates"
  /\ terminal' = "generates"
  /\ Event
  /\ UNCHANGED <<model, source, packageVars, writerVars, export, peers, request, tabVars>>

TerminalEnds ==
  /\ terminal = "generates"
  /\ terminal' = "after"
  /\ UNCHANGED <<model, source, packageVars, writerVars, export, peers, events, request, tabVars>>

\* An export of the viewer that waits for its lock, in the viewer's worker.
Parked == export \in {"wants-generator", "wants-lock"}

\* The one serial worker of the backend is free for a build or an export.
WorkerFree ==
  /\ \A i \in Slots : request[i].at # "building"
  /\ ~ Parked /\ export \notin {"generates", "builds"}

\* The viewer sends an export to its worker, where it waits, without a deadline, for the
\* generator lock; that of a drawing, a build that copies a file at its end, for the write
\* lock.
StartExport ==
  /\ export = "before" /\ WorkerFree
  /\ export' = IF model = "drawing" THEN "wants-lock" ELSE "wants-generator"
  /\ Event
  /\ UNCHANGED <<model, source, packageVars, writerVars, terminal, peers, request, tabVars>>

LockExport ==
  /\ \/ /\ export = "wants-generator" /\ terminal # "generates"
        /\ export' = "generates"
        /\ UNCHANGED writerVars
     \/ export = "wants-lock" /\ export' = "builds" /\ Lock(Exporter)
  /\ UNCHANGED <<model, source, packageVars, terminal, peers, events, request, tabVars>>

EndExport ==
  /\ \/ export = "generates" /\ UNCHANGED <<packageVars, writerVars, events>>
     \/ export = "builds" /\ (Built \/ Failed)
  /\ export' = "after"
  /\ UNCHANGED <<model, source, terminal, peers, request, tabVars>>

-----------------------------------------------------------------------------
(* The backend: GET and POST /__cad/artifact.                              *)

To(i, at, answer) ==
  request' = [request EXCEPT ![i].at = at, ![i].answer = answer]

\* artifact_status(), first half: the snapshot decides "generating".
Probe(i) ==
  /\ request[i].kind \in {"resolve", "poll"} /\ request[i].at = "sent"
  /\ IF writer # Nobody THEN To(i, "answered", "generating")
     ELSE To(i, IF "generates" \in {terminal, export} THEN "busy" ELSE "idle", "none")
  /\ UNCHANGED <<serverVars, tabVars>>

\* artifact_status(), second half: the package is validated against the source.
Validate(i) ==
  /\ request[i].at \in {"idle", "busy"}
  /\ To(i, "answered", IF Fresh THEN "ready"
                       ELSE IF request[i].at = "busy" THEN "blocked" ELSE "needs-build")
  /\ UNCHANGED <<serverVars, tabVars>>

\* The status route answers with an error (the source is gone) or not at all; a POST
\* fails before it builds.
Refuse(i) ==
  /\ request[i].at = "sent"
  /\ Event
  /\ \/ To(i, "answered", "failed")
     \/ request[i].kind # "post" /\ To(i, "answered", "error")
  /\ UNCHANGED <<model, source, packageVars, writerVars, terminal, export, peers, tabVars>>

\* resolve_artifact(): a snapshot that finds a writer answers at once.
CheckBeforeBuild(i) ==
  /\ request[i].kind = "post" /\ request[i].at = "sent"
  /\ IF writer # Nobody THEN To(i, "answered", "generating") ELSE To(i, "queued", "none")
  /\ UNCHANGED <<serverVars, tabVars>>

Acquire(i) ==
  /\ request[i].at = "queued" /\ WorkerFree
  /\ Lock(i)
  /\ To(i, "building", "none")
  /\ UNCHANGED <<model, source, packageVars, terminal, export, peers, events, tabVars>>

\* Mutant: a build without --lock-timeout waits the peer out.
ContendNever(i) == FALSE /\ UNCHANGED vars

\* Mutant: the contended result counts as a built one.
ContendAsReady(i) ==
  /\ request[i].at = "queued" /\ WorkerFree
  /\ writer # Nobody
  /\ To(i, "answered", "ready")
  /\ UNCHANGED <<serverVars, tabVars>>

\* The bounded acquire hits its deadline: "contended", reported as generating.
Contend(i) ==
  /\ request[i].at = "queued" /\ WorkerFree
  /\ writer # Nobody
  /\ To(i, "answered", "generating")
  /\ UNCHANGED <<serverVars, tabVars>>

FinishBuild(i) ==
  /\ request[i].at = "building"
  /\ \/ Built /\ To(i, "answered", "ready")
     \/ Failed /\ To(i, "answered", "failed")
  /\ UNCHANGED <<model, source, terminal, export, peers, tabVars>>

-----------------------------------------------------------------------------
(* The hook.                                                               *)

RoomToSend == \E i \in Slots : request[i] = Idle
Slot == CHOOSE i \in Slots : request[i] = Idle

Sent(kind, t, e) == [kind |-> kind, tab |-> t, effect |-> e, at |-> "sent", answer |-> "none"]

\* window.setTimeout into pollTimer: a timer it named before stays armed.
Arm(t) ==
  /\ loose' = [loose EXCEPT ![t] = IF timer[t] THEN @ + 1 ELSE @]
  /\ timer' = [timer EXCEPT ![t] = TRUE]

StopPolling(t) == timer' = [timer EXCEPT ![t] = FALSE] /\ UNCHANGED loose

\* stopPolling() and then setTimeout.
Rearm(t) == timer' = [timer EXCEPT ![t] = TRUE] /\ UNCHANGED loose

\* Mutant: the answer of the server becomes the state as it is.
SettleWithAnswer(i, status) ==
  shown' = [shown EXCEPT ![request[i].tab] =
              [effect |-> request[i].effect, status |-> request[i].answer]]

\* settle(): the state and the key it is for.
Settle(i, status) ==
  shown' = [shown EXCEPT ![request[i].tab] = [effect |-> request[i].effect, status |-> status]]

\* The continuation of a request runs, and its effect is still the current one.
Live(i) == request[i].at = "answered" /\ request[i].effect = effect[request[i].tab]

\* The selection or the freshness key changed: clean up, then run the effect anew.
Restart(t) ==
  /\ effect[t] < MaxEffects
  /\ RoomToSend
  /\ effect' = [effect EXCEPT ![t] = @ + 1]
  /\ attached' = [attached EXCEPT ![t] = FALSE]
  /\ timer' = [timer EXCEPT ![t] = FALSE]
  /\ loose' = [loose EXCEPT ![t] = 0]
  /\ opened' = [opened EXCEPT ![t] = source]
  /\ request' = [request EXCEPT ![Slot] = Sent("resolve", t, effect[t] + 1)]
  /\ UNCHANGED <<serverVars, shown>>

\* Aborted, or answered after the effect ended: nothing happens.
Discard(i) ==
  /\ request[i].at = "answered" /\ ~ Live(i)
  /\ request' = [request EXCEPT ![i] = Idle]
  /\ UNCHANGED <<serverVars, tabVars>>

\* resolve(): ready or error settles.
Resolved(i) ==
  /\ request[i].kind = "resolve" /\ Live(i)
  /\ request[i].answer \in {"ready", "error", "failed"}
  /\ Settle(i, IF request[i].answer = "ready" THEN "ready" ELSE "error")
  /\ IF request[i].answer = "failed" THEN StopPolling(request[i].tab)
     ELSE UNCHANGED <<timer, loose>>
  /\ request' = [request EXCEPT ![i] = Idle]
  /\ UNCHANGED <<serverVars, effect, attached, opened>>

\* resolve(): somebody else builds or occupies the generator; watch.
Attach(i) ==
  /\ request[i].kind = "resolve" /\ Live(i)
  /\ request[i].answer \in {"generating", "blocked"}
  /\ Settle(i, "generating")
  /\ attached' = [attached EXCEPT ![request[i].tab] = TRUE]
  /\ Arm(request[i].tab)
  /\ request' = [request EXCEPT ![i] = Idle]
  /\ UNCHANGED <<serverVars, effect, opened>>

\* resolve(): needs-build; send the POST and poll beside it.
Post(i) ==
  /\ request[i].kind = "resolve" /\ Live(i)
  /\ request[i].answer = "needs-build"
  /\ Settle(i, "generating")
  /\ attached' = [attached EXCEPT ![request[i].tab] = FALSE]
  /\ Arm(request[i].tab)
  /\ request' = [request EXCEPT ![i] = Sent("post", request[i].tab, request[i].effect)]
  /\ UNCHANGED <<serverVars, effect, opened>>

\* Mutant: the contended answer does not attach.
HandOffWithoutAttach(i) ==
  /\ request[i].kind = "post" /\ Live(i)
  /\ request[i].answer = "generating"
  /\ Settle(i, "generating")
  /\ Rearm(request[i].tab)
  /\ request' = [request EXCEPT ![i] = Idle]
  /\ UNCHANGED <<serverVars, effect, attached, opened>>

\* The POST was handed off to a peer's run: attach to it.
HandOff(i) ==
  /\ request[i].kind = "post" /\ Live(i)
  /\ request[i].answer = "generating"
  /\ Settle(i, "generating")
  /\ attached' = [attached EXCEPT ![request[i].tab] = TRUE]
  /\ Rearm(request[i].tab)
  /\ request' = [request EXCEPT ![i] = Idle]
  /\ UNCHANGED <<serverVars, effect, opened>>

\* The POST built the artifact or failed.  A poll in flight is not stopped.
Posted(i) ==
  /\ request[i].kind = "post" /\ Live(i)
  /\ request[i].answer \in {"ready", "failed"}
  /\ Settle(i, IF request[i].answer = "ready" THEN "ready" ELSE "error")
  /\ StopPolling(request[i].tab)
  /\ request' = [request EXCEPT ![i] = Idle]
  /\ UNCHANGED <<serverVars, effect, attached, opened>>

\* A timer fires: pollProgress() asks for the status.
Poll(t) ==
  /\ RoomToSend
  /\ \/ timer[t] /\ StopPolling(t)
     \/ loose[t] > 0 /\ loose' = [loose EXCEPT ![t] = @ - 1] /\ UNCHANGED timer
  /\ request' = [request EXCEPT ![Slot] = Sent("poll", t, effect[t])]
  /\ UNCHANGED <<serverVars, effect, attached, shown, opened>>

\* What ends an attachment: any state other than generating; a failed poll reports none.
RunIsOver(i) ==
  /\ attached[request[i].tab]
  /\ request[i].answer \notin {"generating", "failed"}

\* Mutant: a poll that failed ends its chain.
KeepPollingUnlessFailed(i) ==
  /\ request[i].kind = "poll" /\ Live(i)
  /\ ~ RunIsOver(i)
  /\ IF request[i].answer = "failed" THEN UNCHANGED <<timer, loose>> ELSE Arm(request[i].tab)
  /\ request' = [request EXCEPT ![i] = Idle]
  /\ UNCHANGED <<serverVars, effect, attached, shown, opened>>

KeepPolling(i) ==
  /\ request[i].kind = "poll" /\ Live(i)
  /\ ~ RunIsOver(i)
  /\ Arm(request[i].tab)
  /\ request' = [request EXCEPT ![i] = Idle]
  /\ UNCHANGED <<serverVars, effect, attached, shown, opened>>

ResolveAgain(i) ==
  /\ request[i].kind = "poll" /\ Live(i)
  /\ RunIsOver(i)
  /\ StopPolling(request[i].tab)
  /\ request' = [request EXCEPT ![i] = Sent("resolve", request[i].tab, request[i].effect)]
  /\ UNCHANGED <<serverVars, effect, attached, shown, opened>>

-----------------------------------------------------------------------------
(* The specification.                                                      *)

Serve(i) ==
  \/ Probe(i) \/ Validate(i) \/ Refuse(i)
  \/ CheckBeforeBuild(i) \/ Acquire(i) \/ Contend(i) \/ FinishBuild(i)

Continue(i) ==
  \/ Discard(i) \/ Resolved(i) \/ Attach(i) \/ Post(i) \/ HandOff(i) \/ Posted(i)
  \/ KeepPolling(i) \/ ResolveAgain(i)

Next ==
  \/ Edit \/ Execute \/ TerminalExports \/ TerminalEnds \/ StartExport \/ LockExport \/ EndExport
  \/ \E p \in Peers : PeerStarts(p) \/ PeerEnds(p)
  \/ \E i \in Slots : Serve(i) \/ Continue(i)
  \/ \E t \in Tabs : Restart(t) \/ Poll(t)

Spec == Init /\ [][Next]_vars

\* Requests and the viewer's own builds and export are served, continuations run and timers
\* fire.  Nothing makes a user select a model, an editor save or a terminal's program end.
ViewerFairness ==
  /\ WF_vars(writer \notin Peers /\ Execute) /\ WF_vars(EndExport) /\ SF_vars(LockExport)
  /\ \A i \in Slots : WF_vars(Serve(i)) /\ WF_vars(Continue(i))
  /\ \A t \in Tabs : WF_vars(Poll(t))

\* Builds and exports in a terminal end: they are programs that terminate or are killed.  No
\* part of the specification; LoadingEnds assumes it.
PeerFairness == WF_vars(Execute) /\ WF_vars(TerminalEnds) /\ \A p \in Peers : WF_vars(PeerEnds(p))

FairSpec == Spec /\ ViewerFairness

-----------------------------------------------------------------------------
(* Properties.                                                             *)

TypeOK ==
  /\ model \in {"drawing", "solid"}
  /\ source \in 0 .. MaxEdits /\ executed \in 0 .. MaxEdits
  /\ package \in -1 .. MaxEdits /\ content \in -1 .. MaxEdits
  /\ writer \in Peers \cup Slots \cup {Exporter, Nobody}
  /\ stage \in {"none", "locked", "executed"}
  /\ terminal \in {"before", "generates", "after"}
  /\ export \in {"before", "wants-generator", "generates", "wants-lock", "builds", "after"}
  /\ peers \subseteq Peers
  /\ events \in 0 .. MaxEvents
  /\ request \in [Slots -> Requests \cup {Idle}]
  /\ effect \in [Tabs -> 0 .. MaxEffects]
  /\ attached \in [Tabs -> BOOLEAN]
  /\ timer \in [Tabs -> BOOLEAN]
  /\ loose \in [Tabs -> Nat]
  /\ shown \in [Tabs -> [effect: 0 .. MaxEffects, status: {"ready", "generating", "error"}]]
  /\ opened \in [Tabs -> 0 .. MaxEdits]

\* What the user sees: the last state, if the current effect set it.
Shows(t, status) == shown[t] = [effect |-> effect[t], status |-> status]

\* The requests of a tab's current effect.
Pending(t, kinds) ==
  {i \in Slots : request[i].kind \in kinds /\ request[i].tab = t /\ request[i].effect = effect[t]}

Armed(t) == timer[t] \/ loose[t] > 0

\* No lost wake-up: a tab that shows a loading state has a timer armed or a request in
\* flight that will end it ("Nothing else will tell us it finished").
LoadingIsWatched ==
  \A t \in Tabs : Shows(t, "generating") => Armed(t) \/ Pending(t, Kinds) # {}

\* The package records a source that it was not made of, as the source was edited after the
\* build had executed it (Coordination's FreshMeansBuiltFromSource is violated by this).
EditedDuringBuild == content # package

\* A tab that shows the model as ready shows one made of the source that was there when it was
\* opened, or of a newer one ("a missing or stale cache ... triggers a build").  The one way out
\* is an edit during the build, and even then what the package records is not older.
ReadyIsNotStale ==
  \A t \in Tabs : effect[t] > 0 /\ Shows(t, "ready") =>
    content >= opened[t] \/ (EditedDuringBuild /\ package >= opened[t])

\* The claim of resolve_artifact(), "A POST NEVER BLOCKS ON A PEER": also when no peer
\* ever ends, a POST is soon answered or building.
PostsNeverBlock ==
  \A i \in Slots :
    request[i].kind = "post" /\ request[i].at \in {"sent", "queued"}
      ~> request[i].at \in {"building", "answered"}

\* What does hold, although the terminal may build or export for ever: only an export of the
\* viewer that waits for the terminal holds up a POST.
PostsAreServed ==
  \A i \in Slots :
    request[i].kind = "post" /\ request[i].at \in {"sent", "queued"}
      ~> Parked \/ request[i].at \in {"building", "answered"}

\* A loading state ends, whoever builds and whichever of them is killed, as long as every
\* build and export outside the viewer does.
LoadingEnds ==
  PeerFairness => \A t \in Tabs : Shows(t, "generating") ~> ~ Shows(t, "generating")
=============================================================================
