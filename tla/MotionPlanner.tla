---------------------------- MODULE MotionPlanner ----------------------------
(***************************************************************************)
(* Robot poses in one browser tab: the sliders, the MoveIt2 requests and   *)
(* the animations of CadWorkspace.js, the websocket they share             *)
(* (moveit2ServerClient.js), the server behind it (moveit2_server) and     *)
(* the per-file session storage that is written and read when another      *)
(* file is selected.                                                       *)
(*                                                                         *)
(* JavaScript runs an event and the promise continuations it settles to    *)
(* the end: an event is one step.  A pose is the default one, one that was *)
(* set by hand, or the result of a request.  Frames before the last of an  *)
(* animation write values in between and are left out; so are a change of  *)
(* the server's url and the interval of the probe.                         *)
(***************************************************************************)
EXTENDS Integers, Sequences

CONSTANTS
  Files,         \* robot descriptions
  EndEffectors,
  Nobody,        \* no file, end effector, socket or request
  MaxRequests,   \* bound on the requests
  MaxSockets,    \* bound on the sockets opened for requests
  MaxStops       \* bound on the times the server goes down or drops a connection

Requests == 1 .. MaxRequests
Sockets == 1 .. MaxSockets
DefaultPose == 0
ByHand == MaxRequests + 1
Poses == Requests \cup {DefaultPose, ByHand}

ASSUME NobodyAssumption == Nobody \notin Files \cup EndEffectors \cup Int
ASSUME BoundsAssumption == MaxRequests \in Nat /\ MaxSockets \in Nat /\ MaxStops \in Nat

VARIABLES
  selected,   \* the file that is shown
  pose,       \* jointValuesByFileRef
  solving,    \* per file: solvingEndEffectorName
  saved,      \* per file: the joint values in session storage
  saveTimer,  \* a save of the selected file is scheduled
  trajectory, \* urdfTrajectoryPlaybackRef: the file and its last pose, or Idle
  joint,      \* urdfJointAnimationRef: the same, with its mode
  live,       \* moveit2ServerLive
  req,        \* per request: the file and end effector captured, and where it is
  pending,    \* pendingRequests
  via,        \* per request: the socket it was sent on
  current,    \* the module's `socket`
  state,      \* per socket: "unborn", "connecting", "open", "cut", "closing", "closed"
  unsent,     \* per socket: requests that wait for its "open" event
  wire,       \* per socket: requests the server has not read
  replies,    \* per socket: answers the client has not read
  up,         \* the server accepts connections
  planning,   \* the request the server is executing, or Nobody
  stops       \* how often the server went down or dropped a connection

viewVars == <<selected, saved, saveTimer>>
motionVars == <<pose, trajectory, joint>>
clientVars == <<pending, via, current, unsent>>
serverVars == <<wire, replies, planning>>
hostVars == <<up, stops>>
vars == <<viewVars, motionVars, live, clientVars, serverVars, hostVars, solving, req, state>>

Idle == [file |-> Nobody, to |-> DefaultPose, mode |-> "none"]
Loop(f, to, mode) == [file |-> f, to |-> to, mode |-> mode]
Loops ==
  [file: Files \cup {Nobody}, to: Poses, mode: {"none", "play", "animate", "follow"}]
Unsent == [file |-> Nobody, ee |-> Nobody, at |-> "new"]

Init ==
  /\ selected \in Files
  /\ pose = [f \in Files |-> DefaultPose]
  /\ saved = [f \in Files |-> DefaultPose]
  /\ saveTimer = FALSE
  /\ solving = [f \in Files |-> Nobody]
  /\ trajectory = Idle /\ joint = Idle
  /\ live = FALSE
  /\ req = [r \in Requests |-> Unsent]
  /\ pending = {} /\ current = Nobody
  /\ via = [r \in Requests |-> Nobody]
  /\ state = [s \in Sockets |-> "unborn"]
  /\ unsent = [s \in Sockets |-> <<>>]
  /\ wire = [s \in Sockets |-> <<>>]
  /\ replies = [s \in Sockets |-> <<>>]
  /\ up = TRUE /\ planning = Nobody /\ stops = 0

-----------------------------------------------------------------------------
(* Poses and animations.                                                   *)

\* The session effect: any change of what is saved schedules a save.
ScheduleSave == saveTimer' = (saveTimer \/ pose'[selected] # pose[selected])

\* cancelUrdfTrajectoryPlayback(), then animateUrdfJointValues(): no frames
\* where nothing moves.
Animate(f, from, to) ==
  /\ trajectory' = Idle
  /\ IF from = to
       THEN pose' = [pose EXCEPT ![f] = to] /\ joint' = Idle
       ELSE joint' = Loop(f, to, "animate") /\ UNCHANGED pose

\* followUrdfJointValues(): a slider being dragged retargets its own animation.
Follow(f, from, to) ==
  /\ trajectory' = Idle
  /\ IF from = to
       THEN pose' = [pose EXCEPT ![f] = to] /\ joint' = Idle
       ELSE joint' = Loop(f, to, "follow") /\ UNCHANGED pose

Play(f, to) == trajectory' = Loop(f, to, "play") /\ joint' = Idle /\ UNCHANGED pose

\* The last frame of a trajectory, of a joint animation.
EndTrajectory ==
  /\ trajectory # Idle
  /\ pose' = [pose EXCEPT ![trajectory.file] = trajectory.to]
  /\ trajectory' = Idle
  /\ ScheduleSave
  /\ UNCHANGED <<joint, selected, saved, live, clientVars, serverVars, hostVars, solving, req, state>>

EndJointAnimation ==
  /\ joint # Idle
  /\ pose' = [pose EXCEPT ![joint.file] = joint.to]
  /\ joint' = Idle
  /\ ScheduleSave
  /\ UNCHANGED <<trajectory, selected, saved, live, clientVars, serverVars, hostVars, solving, req, state>>

\* handleUrdfJointValueChange(): dragged (scrub) or typed.
Slide ==
  LET to == IF pose[selected] = ByHand THEN DefaultPose ELSE ByHand IN
  /\ \/ Follow(selected, pose[selected], to)
     \/ Animate(selected, pose[selected], to)
  /\ ScheduleSave
  /\ UNCHANGED <<selected, saved, live, clientVars, serverVars, hostVars, solving, req, state>>

ResetPose ==
  /\ Animate(selected, pose[selected], DefaultPose)
  /\ ScheduleSave
  /\ UNCHANGED <<selected, saved, live, clientVars, serverVars, hostVars, solving, req, state>>

\* A named group state: one more pose that is set by hand.
SelectGroupState ==
  /\ Animate(selected, pose[selected], ByHand)
  /\ ScheduleSave
  /\ UNCHANGED <<selected, saved, live, clientVars, serverVars, hostVars, solving, req, state>>

-----------------------------------------------------------------------------
(* Session storage.                                                        *)

WriteSession ==
  /\ saveTimer
  /\ saved' = [saved EXCEPT ![selected] = pose[selected]]
  /\ saveTimer' = FALSE
  /\ UNCHANGED <<selected, motionVars, live, clientVars, serverVars, hostVars, solving, req, state>>

\* flushActiveFileSession()
Flush == saved' = [saved EXCEPT ![selected] = pose[selected]]

\* Mutant: an absent slice is put in place as it is (null).
RestoreAsIs(f) ==
  /\ pose' = [pose EXCEPT ![f] = IF saved[f] = DefaultPose THEN -1 ELSE saved[f]]
  /\ solving' = [solving EXCEPT ![f] = Nobody]

\* applyEntrySessionState(): joint values from storage; what the schema of the
\* slice does not name, solvingEndEffectorName among it, is dropped.
Restore(f) ==
  /\ pose' = [pose EXCEPT ![f] = saved[f]]
  /\ solving' = [solving EXCEPT ![f] = Nobody]

\* activateEntryTab(): the probe effect starts anew, a running animation goes on.
Select(f) ==
  /\ f # selected
  /\ Flush /\ Restore(f)
  /\ selected' = f
  /\ saveTimer' = TRUE
  /\ live' = FALSE
  /\ UNCHANGED <<trajectory, joint, clientVars, serverVars, hostVars, req, state>>

-----------------------------------------------------------------------------
(* The probe: a socket of its own, within 750 ms.                          *)

\* The server's event loop accepts nothing while it plans.  The effect of the
\* selected file repeats this every few seconds.
Probe ==
  /\ live' = (up /\ planning = Nobody)
  /\ UNCHANGED <<viewVars, motionVars, clientVars, serverVars, hostVars, solving, req, state>>

-----------------------------------------------------------------------------
(* Requests.                                                               *)

Cleared(shown, R) ==
  [f \in Files |->
    IF \E r \in R : req[r].file = f /\ req[r].ee = shown[f] THEN Nobody ELSE shown[f]]

\* Promises are rejected: handleApplyUrdfMotionTarget()'s `catch` and `finally`.
Reject(R) ==
  /\ req' = [r \in Requests |-> IF r \in R THEN [req[r] EXCEPT !.at = "done"] ELSE req[r]]
  /\ solving' = Cleared(solving, R)

\* Mutant: a closed socket is forgotten, the requests sent on it are not.
ResetKeepingRequests == current' = Nobody /\ UNCHANGED <<pending, req, solving>>

\* resetSocket()
Reset ==
  /\ current' = Nobody
  /\ pending' = {}
  /\ Reject(pending)

Reusable == current # Nobody /\ state[current] \in {"connecting", "open", "cut"}

\* Mutant: what waits for a socket that is going away is kept.
KeptAll == pending

\* ensureMoveIt2ServerSocket(): a socket that is going away is replaced, and what
\* waits for it rejected.
Kept == IF Reusable THEN pending ELSE {}

Fresh(s) == state[s] = "unborn" /\ \A o \in Sockets : o < s => state[o] # "unborn"

SocketFor(s) ==
  /\ current' = s
  /\ IF Reusable THEN s = current /\ UNCHANGED state
                 ELSE Fresh(s) /\ state' = [state EXCEPT ![s] = "connecting"]

\* sendWhenOpen(): what is sent on a socket that is cut is lost.
SendWhenOpen(r, s) ==
  /\ wire' = IF state[s] = "open" THEN [wire EXCEPT ![s] = Append(@, r)] ELSE wire
  /\ unsent' = IF state[s] \in {"open", "cut"} THEN unsent ELSE [unsent EXCEPT ![s] = Append(@, r)]

\* requestMoveIt2Server()
Request(r, s) == SocketFor(s) /\ SendWhenOpen(r, s) /\ via' = [via EXCEPT ![r] = s]

\* handleApplyUrdfMotionTarget() up to its `await`.
Apply(r, ee, s) ==
  /\ live /\ solving[selected] = Nobody
  /\ req[r].at = "new" /\ \A q \in Requests : q < r => req[q].at # "new"
  /\ trajectory' = Idle /\ joint' = Idle
  /\ Request(r, s)
  /\ LET rejected == pending \ Kept
         asked == [file |-> selected, ee |-> ee, at |-> "pending"] IN
     /\ pending' = Kept \cup {r}
     /\ req' = [q \in Requests |-> IF q = r THEN asked
                ELSE IF q \in rejected THEN [req[q] EXCEPT !.at = "done"] ELSE req[q]]
     /\ solving' = Cleared([solving EXCEPT ![selected] = ee], rejected)
  /\ UNCHANGED <<viewVars, pose, live, replies, planning, hostVars>>

\* The request's timer.
Expire(r) ==
  /\ r \in pending
  /\ pending' = pending \ {r}
  /\ Reject({r})
  /\ UNCHANGED <<viewVars, motionVars, live, via, current, unsent, serverVars, hostVars, state>>

\* An answer without a result, or to a request that does not wait any more.
Refused(s) ==
  /\ replies[s] # <<>> /\ state[s] \in {"open", "cut", "closing"}
  /\ replies' = [replies EXCEPT ![s] = Tail(@)]
  /\ pending' = pending \ {Head(replies[s])}
  /\ Reject({Head(replies[s])} \cap pending)
  /\ UNCHANGED <<viewVars, motionVars, live, via, current, unsent, wire, planning, hostVars, state>>

\* An answer with joint values, or a trajectory, whatever file is selected now;
\* its pose differs from the one the request was sent with.
Answered(s) ==
  /\ replies[s] # <<>> /\ state[s] \in {"open", "cut", "closing"}
  /\ LET r == Head(replies[s]) IN
     /\ r \in pending
     /\ \/ Play(req[r].file, r)
        \/ Animate(req[r].file, DefaultPose, r)
     /\ pending' = pending \ {r}
     /\ req' = [req EXCEPT ![r].at = "done"]
     /\ solving' = Cleared(solving, {r})
  /\ replies' = [replies EXCEPT ![s] = Tail(@)]
  /\ ScheduleSave
  /\ UNCHANGED <<selected, saved, live, via, current, unsent, wire, planning, hostVars, state>>

-----------------------------------------------------------------------------
(* Sockets and server.                                                     *)

Opened(s) ==
  /\ state[s] = "connecting" /\ up /\ planning = Nobody
  /\ state' = [state EXCEPT ![s] = "open"]
  /\ wire' = [wire EXCEPT ![s] = unsent[s]]
  /\ unsent' = [unsent EXCEPT ![s] = <<>>]
  /\ UNCHANGED <<viewVars, motionVars, live, pending, via, current, replies, planning, hostVars, solving, req>>

\* readyState becomes CLOSING with the server's close frame.
StartClosing(s) ==
  /\ state[s] = "cut"
  /\ state' = [state EXCEPT ![s] = "closing"]
  /\ UNCHANGED <<viewVars, motionVars, live, clientVars, serverVars, hostVars, solving, req>>

\* "close", of whichever socket; "error" before it when the connection failed.
Closed(s) ==
  /\ \/ state[s] \in {"cut", "closing"}
     \/ state[s] = "connecting" /\ ~ up
  /\ state' = [state EXCEPT ![s] = "closed"]
  /\ Reset
  /\ unsent' = [unsent EXCEPT ![s] = <<>>]
  /\ replies' = [replies EXCEPT ![s] = <<>>]
  /\ UNCHANGED <<viewVars, motionVars, live, via, wire, planning, hostVars>>

\* handle_client(), handle_message(): one message of all clients at a time.  What the server
\* has read from a connection that dropped is planned as well.
Plan(s) ==
  /\ up /\ planning = Nobody /\ wire[s] # <<>>
  /\ planning' = Head(wire[s])
  /\ wire' = [wire EXCEPT ![s] = Tail(@)]
  /\ UNCHANGED <<viewVars, motionVars, live, clientVars, replies, hostVars, solving, req, state>>

\* dispatch() returns or raises: either way an answer is sent, while the connection is there.
Reply ==
  /\ planning # Nobody
  /\ replies' = IF state[via[planning]] = "open"
                  THEN [replies EXCEPT ![via[planning]] = Append(@, planning)] ELSE replies
  /\ planning' = Nobody
  /\ UNCHANGED <<viewVars, motionVars, live, clientVars, wire, hostVars, solving, req, state>>

\* The server is stopped or killed, and started again.
Stop ==
  /\ up /\ stops < MaxStops
  /\ up' = FALSE /\ stops' = stops + 1
  /\ planning' = Nobody /\ wire' = [s \in Sockets |-> <<>>]
  /\ state' = [s \in Sockets |-> IF state[s] = "open" THEN "cut" ELSE state[s]]
  /\ UNCHANGED <<viewVars, motionVars, live, clientVars, replies, solving, req>>

\* A server that stays up closes one connection, by its keepalive or because the network did.
Drop(s) ==
  /\ state[s] = "open" /\ stops < MaxStops
  /\ state' = [state EXCEPT ![s] = "cut"]
  /\ stops' = stops + 1
  /\ UNCHANGED <<viewVars, motionVars, live, clientVars, serverVars, up, solving, req>>

Start ==
  /\ ~ up
  /\ up' = TRUE
  /\ UNCHANGED <<stops, viewVars, motionVars, live, clientVars, serverVars, solving, req, state>>

View == Slide \/ ResetPose \/ SelectGroupState \/ \E f \in Files : Select(f)
Frame == EndTrajectory \/ EndJointAnimation
Timer == WriteSession \/ Probe \/ \E r \in Requests : Expire(r)
Event(s) == Opened(s) \/ Closed(s) \/ Answered(s) \/ Refused(s)

Next ==
  \/ View \/ Frame \/ Timer
  \/ \E r \in Requests, ee \in EndEffectors, s \in Sockets : Apply(r, ee, s)
  \/ \E s \in Sockets : Event(s) \/ StartClosing(s) \/ Plan(s) \/ Drop(s)
  \/ Reply \/ Stop \/ Start

Spec == Init /\ [][Next]_vars

\* Events are delivered and a running server answers; the user and the server's
\* operator do what they like, and the timers of requests are not counted on.
FairSpec ==
  /\ Spec
  /\ WF_vars(Reply)
  /\ \A s \in Sockets : WF_vars(Plan(s)) /\ WF_vars(Opened(s)) /\ WF_vars(Closed(s))
                       /\ WF_vars(Answered(s) \/ Refused(s))

-----------------------------------------------------------------------------
(* Properties.                                                             *)

Ids(q) == {q[i] : i \in 1 .. Len(q)}

\* Every variable keeps its type.
TypeOK ==
  /\ selected \in Files /\ saveTimer \in BOOLEAN
  /\ pose \in [Files -> Poses] /\ saved \in [Files -> Poses]
  /\ solving \in [Files -> EndEffectors \cup {Nobody}]
  /\ trajectory \in Loops /\ joint \in Loops
  /\ live \in BOOLEAN
  /\ req \in [Requests -> [file: Files \cup {Nobody}, ee: EndEffectors \cup {Nobody},
                          at: {"new", "pending", "done"}]]
  /\ pending \subseteq Requests
  /\ via \in [Requests -> Sockets \cup {Nobody}] /\ current \in Sockets \cup {Nobody}
  /\ state \in [Sockets -> {"unborn", "connecting", "open", "cut", "closing", "closed"}]
  /\ {unsent, wire, replies} \subseteq [Sockets -> Seq(Requests)]
  /\ up \in BOOLEAN /\ planning \in Requests \cup {Nobody} /\ stops \in 0 .. MaxStops

\* Its answer, or the end of the current socket, is still to come.
HasAPath(r) ==
  /\ via[r] = current
  /\ \/ state[current] = "connecting" /\ r \in Ids(unsent[current])
     \/ state[current] = "open" /\ r \in {planning} \cup Ids(wire[current]) \cup Ids(replies[current])
     \/ state[current] \in {"cut", "closing"}

\* The "solving" state that disables a file's motion controls is shown only while a request
\* of that file and end effector is in flight, and nothing but its answer or the end of its
\* socket stands between, although answers, rejections, timeouts, replaced sockets and
\* restored sessions come in any order.
SolvingIsInFlight ==
  \A f \in Files : solving[f] # Nobody =>
    \E r \in pending : req[r].file = f /\ req[r].ee = solving[f] /\ HasAPath(r)

\* Every request is answered or rejected, without the help of its 60 s timer.
EveryRequestSettles == \A r \in Requests : req[r].at = "pending" ~> req[r].at = "done"
=============================================================================
