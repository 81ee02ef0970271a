------------------------- MODULE MotionPlannerProofs -------------------------
(* What holds of MotionPlanner for every set of robots and end effectors and every number of
   requests, sockets and stops of the server. *)
EXTENDS MotionPlanner, SequenceTheorems, TLAPS

\* A pending request has its file and end effector, and its answer or the end of the current
\* socket is still to come.
PendingInv ==
  \A r \in pending :
    /\ req[r].at = "pending" /\ req[r].file \in Files
    /\ current \in Sockets
    /\ HasAPath(r)

IInv == TypeOK /\ PendingInv /\ SolvingIsInFlight

-----------------------------------------------------------------------------
\* What stands in a queue: behind it, and when its first is taken.
LEMMA IdsFacts ==
  ASSUME NEW q \in Seq(Requests)
  PROVE  /\ Ids(q) \subseteq Requests
         /\ \A r \in Requests : /\ Append(q, r) \in Seq(Requests)
                                /\ Ids(Append(q, r)) = Ids(q) \cup {r}
         /\ q # <<>> => /\ Head(q) \in Requests /\ Tail(q) \in Seq(Requests)
                        /\ Ids(q) \subseteq {Head(q)} \cup Ids(Tail(q))
<1>1. Len(q) \in Nat /\ \A i \in 1 .. Len(q) : q[i] \in Requests
  BY LenProperties, ElementOfSeq
<1>2. ASSUME NEW r \in Requests
      PROVE  Append(q, r) \in Seq(Requests) /\ Ids(Append(q, r)) = Ids(q) \cup {r}
  <2>1. /\ Append(q, r) \in Seq(Requests) /\ Len(Append(q, r)) = Len(q) + 1
        /\ \A i \in 1 .. Len(q) : Append(q, r)[i] = q[i]
        /\ Append(q, r)[Len(q) + 1] = r
    BY AppendProperties
  <2>2. 1 .. Len(q) + 1 = (1 .. Len(q)) \cup {Len(q) + 1}
    BY <1>1
  <2> QED
    BY <2>1, <2>2 DEF Ids
<1>3. ASSUME q # <<>>
      PROVE  /\ Head(q) \in Requests /\ Tail(q) \in Seq(Requests)
             /\ Ids(q) \subseteq {Head(q)} \cup Ids(Tail(q))
  <2>1. /\ Head(q) \in Requests /\ Head(q) = q[1] /\ Tail(q) \in Seq(Requests)
        /\ Len(Tail(q)) = Len(q) - 1
        /\ \A i \in 1 .. Len(Tail(q)) : Tail(q)[i] = q[i + 1]
    BY <1>3, HeadTailProperties
  <2>2. ASSUME NEW i \in 1 .. Len(q), i # 1 PROVE q[i] \in Ids(Tail(q))
    <3>1. i - 1 \in 1 .. Len(Tail(q)) /\ Tail(q)[i - 1] = q[i]
      BY <1>1, <2>1, <2>2
    <3> QED
      BY <3>1 DEF Ids
  <2> QED
    BY <2>1, <2>2 DEF Ids
<1> QED
  BY <1>1, <1>2, <1>3 DEF Ids

LEMMA NobodyFacts ==
  /\ Nobody \notin Files /\ Nobody \notin EndEffectors /\ Nobody \notin Requests
  /\ Nobody \notin Sockets
BY NobodyAssumption DEF Requests, Sockets

LEMMA PoseFacts == DefaultPose \in Poses /\ ByHand \in Poses /\ Requests \subseteq Poses
BY DEF Poses

\* The robots' motions.
LEMMA MotionTypes ==
  ASSUME TypeOK, NEW f \in Files, NEW from, NEW to \in Poses,
         Animate(f, from, to) \/ Follow(f, from, to) \/ Play(f, to)
  PROVE  pose' \in [Files -> Poses] /\ trajectory' \in Loops /\ joint' \in Loops
<1>1. pose \in [Files -> Poses]
  BY DEF TypeOK
<1>2. Idle \in Loops /\ \A mode \in {"play", "animate", "follow"} : Loop(f, to, mode) \in Loops
  BY PoseFacts DEF Idle, Loop, Loops
<1> QED
  BY <1>1, <1>2 DEF Animate, Follow, Play

LEMMA ClearedTypes ==
  ASSUME NEW shown \in [Files -> EndEffectors \cup {Nobody}], NEW R
  PROVE  /\ Cleared(shown, R) \in [Files -> EndEffectors \cup {Nobody}]
         /\ \A f \in Files : Cleared(shown, R)[f] # Nobody =>
              /\ Cleared(shown, R)[f] = shown[f]
              /\ \A r \in R : ~ (req[r].file = f /\ req[r].ee = shown[f])
BY DEF Cleared

\* Requests whose promises are settled.
Done(R, now) ==
  /\ now \in [Requests -> [file: Files \cup {Nobody}, ee: EndEffectors \cup {Nobody},
                           at: {"new", "pending", "done"}]]
  /\ \A r \in Requests : now[r].file = req[r].file /\ now[r].ee = req[r].ee
  /\ \A r \in Requests \ R : now[r].at = req[r].at

LEMMA RejectFacts ==
  ASSUME TypeOK, NEW R, Reject(R)
  PROVE  Done(R, req') /\ solving' = Cleared(solving, R)
BY DEF Reject, Done, TypeOK

-----------------------------------------------------------------------------
\* Nothing is asked at first.
LEMMA InitIInv == Init => IInv
<1> SUFFICES ASSUME Init PROVE IInv
  OBVIOUS
<1>1. TypeOK
  <2>1. trajectory \in Loops /\ joint \in Loops
    BY PoseFacts DEF Init, Idle, Loops
  <2>2. {unsent, wire, replies} \subseteq [Sockets -> Seq(Requests)]
    BY EmptySeq DEF Init
  <2>3. req \in [Requests -> [file: Files \cup {Nobody}, ee: EndEffectors \cup {Nobody},
                              at: {"new", "pending", "done"}]]
    BY DEF Init, Unsent
  <2>4. /\ selected \in Files /\ saveTimer \in BOOLEAN /\ live \in BOOLEAN
        /\ pose \in [Files -> Poses] /\ saved \in [Files -> Poses]
        /\ solving \in [Files -> EndEffectors \cup {Nobody}]
    BY PoseFacts DEF Init
  <2>5. /\ pending \subseteq Requests /\ via \in [Requests -> Sockets \cup {Nobody}]
        /\ current \in Sockets \cup {Nobody}
        /\ state \in [Sockets -> {"unborn", "connecting", "open", "cut", "closing", "closed"}]
        /\ up \in BOOLEAN /\ planning \in Requests \cup {Nobody} /\ stops \in 0 .. MaxStops
    BY BoundsAssumption DEF Init
  <2> QED
    BY <2>1, <2>2, <2>3, <2>4, <2>5 DEF TypeOK
<1>2. PendingInv /\ SolvingIsInFlight
  BY DEF Init, PendingInv, SolvingIsInFlight
<1> QED
  BY <1>1, <1>2 DEF IInv

-----------------------------------------------------------------------------
\* The steps that leave requests and sockets alone: poses, saves, the probe.
MotionStep ==
  \/ Slide \/ ResetPose \/ SelectGroupState \/ EndTrajectory \/ EndJointAnimation
  \/ WriteSession \/ Probe \/ Start

LEMMA MotionKeeps ==
  ASSUME IInv, MotionStep
  PROVE  IInv'
<1>1. /\ selected \in Files /\ pose \in [Files -> Poses] /\ saved \in [Files -> Poses]
      /\ trajectory \in Loops /\ joint \in Loops /\ saveTimer \in BOOLEAN /\ live \in BOOLEAN
      /\ up \in BOOLEAN /\ pose[selected] \in Poses
  BY DEF IInv, TypeOK
<1> DEFINE Moved == /\ UNCHANGED <<selected, clientVars, serverVars, stops, solving, req, state>>
                    /\ pose' \in [Files -> Poses] /\ saved' \in [Files -> Poses]
                    /\ trajectory' \in Loops /\ joint' \in Loops
                    /\ saveTimer' \in BOOLEAN /\ live' \in BOOLEAN /\ up' \in BOOLEAN
           Turned == \E to \in Poses :
                       Animate(selected, pose[selected], to) \/ Follow(selected, pose[selected], to)
<1>2. ASSUME Turned, ScheduleSave,
             UNCHANGED <<selected, saved, live, clientVars, serverVars, hostVars, solving, req, state>>
      PROVE  Moved
  <2>1. pose' \in [Files -> Poses] /\ trajectory' \in Loops /\ joint' \in Loops
    BY <1>1, <1>2, MotionTypes DEF IInv
  <2>2. saveTimer' \in BOOLEAN
    BY <1>2 DEF ScheduleSave
  <2> QED
    BY <1>1, <1>2, <2>1, <2>2 DEF hostVars
<1>3. ASSUME Slide PROVE Moved
  <2>1. Turned
    BY <1>3, PoseFacts DEF Slide
  <2> QED
    BY <1>2, <1>3, <2>1 DEF Slide
<1>4. ASSUME ResetPose \/ SelectGroupState PROVE Moved
  <2>1. Turned
    BY <1>4, PoseFacts DEF ResetPose, SelectGroupState
  <2> QED
    BY <1>2, <1>4, <2>1 DEF ResetPose, SelectGroupState
<1>5. Idle \in Loops /\ \A loop \in Loops : loop.to \in Poses
  BY PoseFacts DEF Idle, Loops
<1>6. ASSUME EndTrajectory \/ EndJointAnimation PROVE Moved
  BY <1>1, <1>5, <1>6 DEF EndTrajectory, EndJointAnimation, ScheduleSave, hostVars
<1>7. ASSUME WriteSession \/ Probe \/ Start PROVE Moved
  BY <1>1, <1>7 DEF WriteSession, Probe, Start, viewVars, motionVars, hostVars
<1>8. Moved
  BY <1>3, <1>4, <1>6, <1>7 DEF MotionStep
<1> HIDE DEF Moved
<1>9. TypeOK'
  BY <1>8 DEF Moved, IInv, TypeOK, clientVars, serverVars
<1>10. PendingInv'
  BY <1>8 DEF Moved, IInv, PendingInv, HasAPath, Ids, clientVars, serverVars
<1>11. SolvingIsInFlight'
  BY <1>8 DEF Moved, IInv, SolvingIsInFlight, HasAPath, Ids, clientVars, serverVars
<1> QED
  BY <1>9, <1>10, <1>11 DEF IInv

\* Another file: its "solving" state is not restored.
LEMMA SelectKeeps ==
  ASSUME IInv, NEW f \in Files, Select(f)
  PROVE  IInv'
<1>1. /\ selected \in Files /\ pose \in [Files -> Poses] /\ saved \in [Files -> Poses]
      /\ solving \in [Files -> EndEffectors \cup {Nobody}]
  BY DEF IInv, TypeOK
<1>2. /\ saved' \in [Files -> Poses] /\ pose' \in [Files -> Poses]
      /\ solving' \in [Files -> EndEffectors \cup {Nobody}]
      /\ selected' \in Files /\ saveTimer' \in BOOLEAN /\ live' \in BOOLEAN
      /\ \A g \in Files : solving'[g] # Nobody => solving'[g] = solving[g]
  BY <1>1 DEF Select, Flush, Restore
<1>3. UNCHANGED <<trajectory, joint, clientVars, serverVars, hostVars, req, state>>
  BY DEF Select
<1>4. TypeOK'
  BY <1>2, <1>3 DEF IInv, TypeOK, clientVars, serverVars, hostVars
<1>5. PendingInv'
  BY <1>3 DEF IInv, PendingInv, HasAPath, Ids, clientVars, serverVars
<1>6. SolvingIsInFlight'
  BY <1>2, <1>3 DEF IInv, SolvingIsInFlight, HasAPath, Ids, clientVars, serverVars
<1> QED
  BY <1>4, <1>5, <1>6 DEF IInv

-----------------------------------------------------------------------------
\* Requests that end, whatever becomes of their promises: the "solving" state they set goes
\* with them, and who stays pending has its path.
LEMMA SettleKeeps ==
  ASSUME IInv, NEW R, pending' = pending \ R, Done(R \cap pending, req'),
         solving' = Cleared(solving, R \cap pending), UNCHANGED <<via, current>>,
         PendingInv'
  PROVE  solving' \in [Files -> EndEffectors \cup {Nobody}] /\ SolvingIsInFlight'
<1>1. solving \in [Files -> EndEffectors \cup {Nobody}] /\ pending \subseteq Requests
  BY DEF IInv, TypeOK
<1>2. /\ solving' \in [Files -> EndEffectors \cup {Nobody}]
      /\ \A f \in Files : solving'[f] # Nobody =>
           /\ solving'[f] = solving[f]
           /\ \A r \in R \cap pending : ~ (req[r].file = f /\ req[r].ee = solving[f])
  BY <1>1, ClearedTypes
<1>3. SolvingIsInFlight'
  <2> SUFFICES ASSUME NEW f \in Files, solving'[f] # Nobody
               PROVE  \E r \in pending' : req'[r].file = f /\ req'[r].ee = solving'[f] /\ HasAPath(r)'
    BY DEF SolvingIsInFlight
  <2>1. PICK r \in pending : req[r].file = f /\ req[r].ee = solving[f]
    BY <1>2 DEF IInv, SolvingIsInFlight
  <2>2. r \in pending' /\ r \in Requests
    BY <1>1, <1>2, <2>1
  <2>3. HasAPath(r)'
    BY <2>2 DEF PendingInv
  <2> QED
    BY <1>2, <2>1, <2>2, <2>3 DEF Done
<1> QED
  BY <1>2, <1>3

\* The request's timer.
LEMMA ExpireKeeps ==
  ASSUME IInv, NEW r \in Requests, Expire(r)
  PROVE  IInv'
<1>1. /\ r \in pending /\ pending' = pending \ {r} /\ {r} \cap pending = {r}
      /\ UNCHANGED <<viewVars, motionVars, live, via, current, unsent, serverVars, hostVars, state>>
  BY DEF Expire
<1>2. Done({r}, req') /\ solving' = Cleared(solving, {r})
  BY RejectFacts DEF Expire, IInv
<1>3. PendingInv'
  <2> SUFFICES ASSUME NEW q \in pending, q # r
               PROVE  /\ req'[q].at = "pending" /\ req'[q].file \in Files
                      /\ current \in Sockets /\ HasAPath(q)'
    BY <1>1 DEF PendingInv
  <2>1. q \in Requests
    BY DEF IInv, TypeOK
  <2> QED
    BY <1>1, <1>2, <2>1 DEF Done, IInv, PendingInv, HasAPath, Ids, serverVars
<1>4. solving' \in [Files -> EndEffectors \cup {Nobody}] /\ SolvingIsInFlight'
  BY <1>1, <1>2, <1>3, SettleKeeps
<1>5. TypeOK'
  BY <1>1, <1>2, <1>4 DEF IInv, TypeOK, Done, viewVars, motionVars, serverVars, hostVars
<1> QED
  BY <1>3, <1>4, <1>5 DEF IInv

\* An answer is taken from a queue: the other requests keep their path.
LEMMA TakeAnswerKeeps ==
  ASSUME IInv, NEW s \in Sockets, replies[s] # <<>>, replies' = [replies EXCEPT ![s] = Tail(@)],
         pending' = pending \ {Head(replies[s])}, Done({Head(replies[s])} \cap pending, req'),
         solving' = Cleared(solving, {Head(replies[s])} \cap pending),
         pose' \in [Files -> Poses], trajectory' \in Loops, joint' \in Loops,
         saveTimer' \in BOOLEAN,
         UNCHANGED <<selected, saved, live, via, current, unsent, wire, planning, hostVars, state>>
  PROVE  IInv'
<1> DEFINE h == Head(replies[s])
<1>1. replies \in [Sockets -> Seq(Requests)] /\ replies[s] \in Seq(Requests)
  BY DEF IInv, TypeOK
<1>2. /\ h \in Requests /\ Tail(replies[s]) \in Seq(Requests)
      /\ Ids(replies[s]) \subseteq {h} \cup Ids(Tail(replies[s]))
  BY <1>1, IdsFacts
<1>3. /\ replies' \in [Sockets -> Seq(Requests)]
      /\ \A o \in Sockets : Ids(replies[o]) \subseteq {h} \cup Ids(replies'[o])
  BY <1>1, <1>2
<1> HIDE DEF h
<1>4. pending' = pending \ {h} /\ Done({h} \cap pending, req')
  BY DEF h
<1>5. PendingInv'
  <2> SUFFICES ASSUME NEW q \in pending, q # h
               PROVE  /\ req'[q].at = "pending" /\ req'[q].file \in Files
                      /\ current \in Sockets /\ HasAPath(q)'
    BY <1>4 DEF PendingInv
  <2>1. q \in Requests
    BY DEF IInv, TypeOK
  <2>2. /\ req[q].at = "pending" /\ req[q].file \in Files
        /\ current \in Sockets /\ HasAPath(q)
    BY DEF IInv, PendingInv
  <2>3. \A o \in Sockets : q \in Ids(replies[o]) => q \in Ids(replies'[o])
    BY <1>3
  <2>4. HasAPath(q)'
    BY <2>2, <2>3 DEF HasAPath
  <2> QED
    BY <1>4, <2>1, <2>2, <2>4 DEF Done
<1>6. solving' \in [Files -> EndEffectors \cup {Nobody}] /\ SolvingIsInFlight'
  BY <1>4, <1>5, SettleKeeps DEF h
<1>7. TypeOK'
  BY <1>3, <1>4, <1>6 DEF IInv, TypeOK, Done, hostVars
<1> QED
  BY <1>5, <1>6, <1>7 DEF IInv

LEMMA RefusedKeeps ==
  ASSUME IInv, NEW s \in Sockets, Refused(s)
  PROVE  IInv'
<1>1. /\ replies[s] # <<>> /\ replies' = [replies EXCEPT ![s] = Tail(@)]
      /\ pending' = pending \ {Head(replies[s])}
      /\ UNCHANGED <<viewVars, motionVars, live, via, current, unsent, wire, planning, hostVars, state>>
  BY DEF Refused
<1>2. /\ Done({Head(replies[s])} \cap pending, req')
      /\ solving' = Cleared(solving, {Head(replies[s])} \cap pending)
  BY RejectFacts DEF Refused, IInv
<1>3. /\ pose' \in [Files -> Poses] /\ trajectory' \in Loops /\ joint' \in Loops
      /\ saveTimer' \in BOOLEAN
  BY <1>1 DEF IInv, TypeOK, viewVars, motionVars
<1> QED
  BY <1>1, <1>2, <1>3, TakeAnswerKeeps DEF viewVars

LEMMA AnsweredKeeps ==
  ASSUME IInv, NEW s \in Sockets, Answered(s)
  PROVE  IInv'
<1> DEFINE r == Head(replies[s])
<1>1. /\ replies[s] # <<>> /\ replies' = [replies EXCEPT ![s] = Tail(@)]
      /\ r \in pending /\ pending' = pending \ {r} /\ {r} \cap pending = {r}
      /\ req' = [req EXCEPT ![r].at = "done"] /\ solving' = Cleared(solving, {r})
      /\ ScheduleSave
      /\ UNCHANGED <<selected, saved, live, via, current, unsent, wire, planning, hostVars, state>>
  BY DEF Answered
<1>2. /\ r \in Requests /\ req[r].at = "pending" /\ req[r].file \in Files
      /\ req \in [Requests -> [file: Files \cup {Nobody}, ee: EndEffectors \cup {Nobody},
                               at: {"new", "pending", "done"}]]
  BY <1>1 DEF IInv, TypeOK, PendingInv
<1>3. Play(req[r].file, r) \/ Animate(req[r].file, DefaultPose, r)
  BY DEF Answered
<1> HIDE DEF r
<1>4. Done({r}, req')
  BY <1>1, <1>2 DEF Done
<1>5. pose' \in [Files -> Poses] /\ trajectory' \in Loops /\ joint' \in Loops
  BY <1>2, <1>3, PoseFacts, MotionTypes DEF IInv
<1>6. saveTimer' \in BOOLEAN
  BY <1>1 DEF ScheduleSave
<1> QED
  BY <1>1, <1>4, <1>5, <1>6, TakeAnswerKeeps DEF r

-----------------------------------------------------------------------------
\* The steps of sockets and server that settle nothing.
LEMMA QuietKeeps ==
  ASSUME IInv,
         {unsent', wire', replies'} \subseteq [Sockets -> Seq(Requests)],
         state' \in [Sockets -> {"unborn", "connecting", "open", "cut", "closing", "closed"}],
         up' \in BOOLEAN, planning' \in Requests \cup {Nobody}, stops' \in 0 .. MaxStops,
         \A r \in pending : HasAPath(r)',
         UNCHANGED <<viewVars, motionVars, live, pending, via, current, solving, req>>
  PROVE  IInv'
<1>1. TypeOK'
  BY DEF IInv, TypeOK, viewVars, motionVars
<1>2. PendingInv'
  BY DEF IInv, PendingInv
<1>3. SolvingIsInFlight'
  <2> SUFFICES ASSUME NEW f \in Files, solving[f] # Nobody
               PROVE  \E r \in pending : req[r].file = f /\ req[r].ee = solving[f] /\ HasAPath(r)'
    BY DEF SolvingIsInFlight
  <2> QED
    BY DEF IInv, SolvingIsInFlight
<1> QED
  BY <1>1, <1>2, <1>3 DEF IInv

LEMMA SocketKeeps ==
  ASSUME IInv, NEW s \in Sockets, Opened(s) \/ StartClosing(s) \/ Plan(s) \/ Drop(s)
  PROVE  IInv'
<1>1. /\ state \in [Sockets -> {"unborn", "connecting", "open", "cut", "closing", "closed"}]
      /\ unsent \in [Sockets -> Seq(Requests)] /\ wire \in [Sockets -> Seq(Requests)]
      /\ replies \in [Sockets -> Seq(Requests)]
      /\ up \in BOOLEAN /\ stops \in 0 .. MaxStops /\ planning \in Requests \cup {Nobody}
      /\ \A r \in pending : current \in Sockets /\ HasAPath(r)
      /\ pending \subseteq Requests
  BY DEF IInv, TypeOK, PendingInv
<1>2. CASE Opened(s)
  <2>1. /\ state[s] = "connecting" /\ state' = [state EXCEPT ![s] = "open"]
        /\ wire' = [wire EXCEPT ![s] = unsent[s]] /\ unsent' = [unsent EXCEPT ![s] = <<>>]
        /\ UNCHANGED <<viewVars, motionVars, live, pending, via, current, replies, planning, hostVars, solving, req>>
    BY <1>2 DEF Opened
  <2>2. /\ wire' \in [Sockets -> Seq(Requests)] /\ unsent' \in [Sockets -> Seq(Requests)]
        /\ wire'[s] = unsent[s] /\ state'[s] = "open"
        /\ state' \in [Sockets -> {"unborn", "connecting", "open", "cut", "closing", "closed"}]
        /\ \A o \in Sockets : o # s =>
             wire'[o] = wire[o] /\ unsent'[o] = unsent[o] /\ state'[o] = state[o]
    BY <1>1, <2>1, EmptySeq
  <2>3. \A r \in pending : HasAPath(r)'
    BY <1>1, <2>1, <2>2 DEF HasAPath
  <2> QED
    BY <1>1, <2>1, <2>2, <2>3, QuietKeeps DEF hostVars
<1>3. CASE StartClosing(s)
  <2>1. /\ state[s] = "cut" /\ state' = [state EXCEPT ![s] = "closing"]
        /\ UNCHANGED <<viewVars, motionVars, live, clientVars, serverVars, hostVars, solving, req>>
    BY <1>3 DEF StartClosing
  <2>2. /\ state' \in [Sockets -> {"unborn", "connecting", "open", "cut", "closing", "closed"}]
        /\ state'[s] = "closing" /\ \A o \in Sockets : o # s => state'[o] = state[o]
    BY <1>1, <2>1
  <2>3. \A r \in pending : HasAPath(r)'
    BY <1>1, <2>1, <2>2 DEF HasAPath, clientVars, serverVars
  <2> QED
    BY <1>1, <2>1, <2>2, <2>3, QuietKeeps DEF hostVars, clientVars, serverVars
<1>4. CASE Plan(s)
  <2>1. /\ planning = Nobody /\ wire[s] # <<>>
        /\ planning' = Head(wire[s]) /\ wire' = [wire EXCEPT ![s] = Tail(@)]
        /\ UNCHANGED <<viewVars, motionVars, live, clientVars, replies, hostVars, solving, req, state>>
    BY <1>4 DEF Plan
  <2>2. /\ Head(wire[s]) \in Requests /\ Tail(wire[s]) \in Seq(Requests)
        /\ Ids(wire[s]) \subseteq {Head(wire[s])} \cup Ids(Tail(wire[s]))
    BY <1>1, <2>1, IdsFacts
  <2>3. /\ wire' \in [Sockets -> Seq(Requests)] /\ planning' \in Requests
        /\ \A o \in Sockets : Ids(wire[o]) \subseteq {planning'} \cup Ids(wire'[o])
    BY <1>1, <2>1, <2>2
  <2>4. \A r \in pending : HasAPath(r)'
    <3> SUFFICES ASSUME NEW r \in pending PROVE HasAPath(r)'
      OBVIOUS
    <3>1. r \in Requests /\ r # planning /\ current \in Sockets /\ HasAPath(r)
      BY <1>1, <2>1, NobodyFacts
    <3>2. r \in Ids(wire[current]) => r \in {planning'} \cup Ids(wire'[current])
      BY <2>3, <3>1
    <3> QED
      BY <2>1, <3>1, <3>2 DEF HasAPath, clientVars
  <2> QED
    BY <1>1, <2>1, <2>3, <2>4, QuietKeeps DEF hostVars, clientVars
<1>5. CASE Drop(s)
  <2>1. /\ state[s] = "open" /\ state' = [state EXCEPT ![s] = "cut"]
        /\ up' \in BOOLEAN /\ stops' \in 0 .. MaxStops
        /\ UNCHANGED <<viewVars, motionVars, live, clientVars, serverVars, solving, req>>
    BY <1>1, <1>5, BoundsAssumption DEF Drop
  <2>2. /\ state' \in [Sockets -> {"unborn", "connecting", "open", "cut", "closing", "closed"}]
        /\ state'[s] = "cut" /\ \A o \in Sockets : o # s => state'[o] = state[o]
    BY <1>1, <2>1
  <2>3. \A r \in pending : HasAPath(r)'
    BY <1>1, <2>1, <2>2 DEF HasAPath, clientVars, serverVars
  <2> QED
    BY <1>1, <2>1, <2>2, <2>3, QuietKeeps DEF clientVars, serverVars
<1> QED
  BY <1>2, <1>3, <1>4, <1>5

LEMMA ServerKeeps ==
  ASSUME IInv, Reply \/ Stop
  PROVE  IInv'
<1>1. /\ state \in [Sockets -> {"unborn", "connecting", "open", "cut", "closing", "closed"}]
      /\ unsent \in [Sockets -> Seq(Requests)] /\ wire \in [Sockets -> Seq(Requests)]
      /\ replies \in [Sockets -> Seq(Requests)]
      /\ up \in BOOLEAN /\ stops \in 0 .. MaxStops /\ planning \in Requests \cup {Nobody}
      /\ \A r \in pending : current \in Sockets /\ HasAPath(r)
      /\ pending \subseteq Requests
  BY DEF IInv, TypeOK, PendingInv
<1>2. CASE Reply
  <2> DEFINE s == via[planning]
  <2>1. /\ planning \in Requests /\ planning' = Nobody
        /\ replies' = IF state[s] = "open" THEN [replies EXCEPT ![s] = Append(replies[s], planning)]
                      ELSE replies
        /\ UNCHANGED <<viewVars, motionVars, live, clientVars, wire, hostVars, solving, req, state>>
    BY <1>1, <1>2 DEF Reply
  <2>2. \A o \in Sockets : /\ Append(replies[o], planning) \in Seq(Requests)
                           /\ Ids(Append(replies[o], planning)) = Ids(replies[o]) \cup {planning}
    BY <1>1, <2>1, IdsFacts
  <2> HIDE DEF s
  <2>3. /\ replies' \in [Sockets -> Seq(Requests)]
        /\ \A o \in Sockets : Ids(replies[o]) \subseteq Ids(replies'[o])
        /\ s \in Sockets /\ state[s] = "open" => planning \in Ids(replies'[s])
    BY <1>1, <2>1, <2>2
  <2>4. \A r \in pending : HasAPath(r)'
    BY <1>1, <2>1, <2>3 DEF HasAPath, clientVars, s
  <2> QED
    BY <1>1, <2>1, <2>3, <2>4, QuietKeeps DEF hostVars, clientVars
<1>3. CASE Stop
  <2>1. /\ up' = FALSE /\ stops' \in 0 .. MaxStops /\ planning' = Nobody
        /\ wire' = [s \in Sockets |-> <<>>]
        /\ state' = [s \in Sockets |-> IF state[s] = "open" THEN "cut" ELSE state[s]]
        /\ UNCHANGED <<viewVars, motionVars, live, clientVars, replies, solving, req>>
    BY <1>1, <1>3, BoundsAssumption DEF Stop
  <2>2. /\ state' \in [Sockets -> {"unborn", "connecting", "open", "cut", "closing", "closed"}]
        /\ wire' \in [Sockets -> Seq(Requests)]
    BY <1>1, <2>1, EmptySeq
  <2>3. \A r \in pending : HasAPath(r)'
    BY <1>1, <2>1 DEF HasAPath, clientVars
  <2> QED
    BY <1>1, <2>1, <2>2, <2>3, QuietKeeps DEF clientVars
<1> QED
  BY <1>2, <1>3

\* A socket closes: everything pending is rejected.
LEMMA ClosedKeeps ==
  ASSUME IInv, NEW s \in Sockets, Closed(s)
  PROVE  IInv'
<1>1. /\ current' = Nobody /\ pending' = {}
      /\ state' = [state EXCEPT ![s] = "closed"] /\ unsent' = [unsent EXCEPT ![s] = <<>>]
      /\ replies' = [replies EXCEPT ![s] = <<>>]
      /\ UNCHANGED <<viewVars, motionVars, live, via, wire, planning, hostVars>>
  BY DEF Closed, Reset
<1>2. Done(pending, req') /\ solving' = Cleared(solving, pending)
  BY RejectFacts DEF Closed, Reset, IInv
<1>3. solving \in [Files -> EndEffectors \cup {Nobody}]
  BY DEF IInv, TypeOK
<1>4. /\ solving' \in [Files -> EndEffectors \cup {Nobody}]
      /\ \A f \in Files : solving'[f] # Nobody =>
           /\ solving'[f] = solving[f]
           /\ \A r \in pending : ~ (req[r].file = f /\ req[r].ee = solving[f])
  BY <1>2, <1>3, ClearedTypes
<1>5. \A f \in Files : solving'[f] = Nobody
  BY <1>4 DEF IInv, SolvingIsInFlight
<1>6. {unsent', wire', replies'} \subseteq [Sockets -> Seq(Requests)]
  BY <1>1, EmptySeq DEF IInv, TypeOK
<1>7. state' \in [Sockets -> {"unborn", "connecting", "open", "cut", "closing", "closed"}]
  BY <1>1 DEF IInv, TypeOK
<1>8. TypeOK'
  BY <1>1, <1>2, <1>4, <1>6, <1>7 DEF IInv, TypeOK, Done, viewVars, motionVars, hostVars
<1>9. PendingInv' /\ SolvingIsInFlight'
  BY <1>1, <1>5 DEF PendingInv, SolvingIsInFlight
<1> QED
  BY <1>8, <1>9 DEF IInv

\* A request: on the socket that is there, or on a new one after all that waited for the old
\* one is rejected.
LEMMA ApplyKeeps ==
  ASSUME IInv, NEW r \in Requests, NEW ee \in EndEffectors, NEW s \in Sockets, Apply(r, ee, s)
  PROVE  IInv'
<1> DEFINE rejected == pending \ Kept
           asked == [file |-> selected, ee |-> ee, at |-> "pending"]
           Reqs == [file: Files \cup {Nobody}, ee: EndEffectors \cup {Nobody},
                    at: {"new", "pending", "done"}]
<1>1. /\ req[r].at = "new" /\ trajectory' = Idle /\ joint' = Idle
      /\ Request(r, s)
      /\ pending' = Kept \cup {r}
      /\ req' = [q \in Requests |-> IF q = r THEN asked
                 ELSE IF q \in rejected THEN [req[q] EXCEPT !.at = "done"] ELSE req[q]]
      /\ solving' = Cleared([solving EXCEPT ![selected] = ee], rejected)
      /\ UNCHANGED <<viewVars, pose, live, replies, planning, hostVars>>
  BY DEF Apply
<1>2. /\ state \in [Sockets -> {"unborn", "connecting", "open", "cut", "closing", "closed"}]
      /\ unsent \in [Sockets -> Seq(Requests)] /\ wire \in [Sockets -> Seq(Requests)]
      /\ via \in [Requests -> Sockets \cup {Nobody}] /\ pending \subseteq Requests
      /\ req \in [Requests -> Reqs] /\ selected \in Files
      /\ solving \in [Files -> EndEffectors \cup {Nobody}]
  BY DEF IInv, TypeOK
<1>3. /\ Kept \subseteq pending /\ r \notin pending
      /\ Kept # {} => Reusable /\ Kept = pending
  BY <1>1 DEF Kept, IInv, PendingInv
<1>4. asked \in Reqs /\ asked.at = "pending" /\ asked.file = selected /\ asked.ee = ee
  BY <1>2
<1> HIDE DEF rejected, asked
<1>5. /\ req' \in [Requests -> Reqs] /\ req'[r] = asked
      /\ \A q \in Requests : q # r => req'[q].file = req[q].file /\ req'[q].ee = req[q].ee
      /\ \A q \in Kept : req'[q] = req[q]
  BY <1>1, <1>2, <1>3, <1>4 DEF rejected
<1>6. /\ current' = s /\ via' \in [Requests -> Sockets \cup {Nobody}] /\ via'[r] = s
      /\ \A q \in Requests : q # r => via'[q] = via[q]
      /\ Reusable => s = current /\ state' = state
      /\ ~ Reusable => state' = [state EXCEPT ![s] = "connecting"] /\ state[s] = "unborn"
  BY <1>1, <1>2 DEF Request, SocketFor, Fresh
<1>7. /\ state' \in [Sockets -> {"unborn", "connecting", "open", "cut", "closing", "closed"}]
      /\ state'[s] \in {"connecting", "open", "cut"}
  BY <1>2, <1>6 DEF Reusable
<1>8. /\ unsent' \in [Sockets -> Seq(Requests)] /\ wire' \in [Sockets -> Seq(Requests)]
      /\ \A o \in Sockets : Ids(unsent[o]) \subseteq Ids(unsent'[o])
      /\ \A o \in Sockets : Ids(wire[o]) \subseteq Ids(wire'[o])
      /\ state[s] = "open" => r \in Ids(wire'[s])
      /\ state[s] \notin {"open", "cut"} => r \in Ids(unsent'[s])
  <2>1. \A o \in Sockets :
          /\ Append(unsent[o], r) \in Seq(Requests) /\ Append(wire[o], r) \in Seq(Requests)
          /\ Ids(Append(unsent[o], r)) = Ids(unsent[o]) \cup {r}
          /\ Ids(Append(wire[o], r)) = Ids(wire[o]) \cup {r}
    BY <1>2, IdsFacts
  <2>2. IF state[s] \in {"open", "cut"}
          THEN /\ wire' = IF state[s] = "cut" THEN wire ELSE [wire EXCEPT ![s] = Append(wire[s], r)]
               /\ UNCHANGED unsent
          ELSE unsent' = [unsent EXCEPT ![s] = Append(unsent[s], r)] /\ UNCHANGED wire
    BY <1>1 DEF Request, SendWhenOpen
  <2> QED
    BY <1>2, <2>1, <2>2
<1>9. PendingInv'
  <2>1. HasAPath(r)'
    BY <1>2, <1>6, <1>7, <1>8 DEF HasAPath
  <2>2. ASSUME NEW q \in Kept PROVE HasAPath(q)'
    <3>1. /\ Reusable /\ q \in pending /\ q \in Requests /\ q # r
          /\ current \in Sockets /\ HasAPath(q)
      BY <1>2, <1>3, <2>2 DEF IInv, PendingInv
    <3> QED
      BY <1>1, <1>6, <1>8, <3>1 DEF HasAPath
  <2>3. ASSUME NEW q \in Kept PROVE req'[q].at = "pending" /\ req'[q].file \in Files
    BY <1>3, <1>5, <2>3 DEF IInv, PendingInv
  <2> QED
    BY <1>1, <1>2, <1>4, <1>5, <1>6, <2>1, <2>2, <2>3 DEF PendingInv
<1> DEFINE now == [solving EXCEPT ![selected] = ee]
<1>10. now \in [Files -> EndEffectors \cup {Nobody}]
  BY <1>2
<1> HIDE DEF now
<1>11. /\ solving' \in [Files -> EndEffectors \cup {Nobody}]
       /\ \A f \in Files : solving'[f] # Nobody =>
            /\ solving'[f] = now[f]
            /\ \A q \in rejected : ~ (req[q].file = f /\ req[q].ee = now[f])
  BY <1>1, <1>10, ClearedTypes DEF now
<1>12. SolvingIsInFlight'
  <2> SUFFICES ASSUME NEW f \in Files, solving'[f] # Nobody
               PROVE  \E q \in pending' : /\ req'[q].file = f /\ req'[q].ee = solving'[f]
                                          /\ HasAPath(q)'
    BY DEF SolvingIsInFlight
  <2>1. CASE f = selected
    <3>1. solving'[f] = ee
      BY <1>2, <1>11, <2>1 DEF now
    <3> QED
      BY <1>1, <1>4, <1>5, <1>9, <2>1, <3>1 DEF PendingInv
  <2>2. CASE f # selected
    <3>1. now[f] = solving[f] /\ solving[f] = solving'[f]
      BY <1>2, <1>11, <2>2 DEF now
    <3>2. PICK q \in pending : req[q].file = f /\ req[q].ee = solving[f]
      BY <3>1 DEF IInv, SolvingIsInFlight
    <3>3. q \in Kept
      BY <1>11, <3>1, <3>2 DEF rejected
    <3> QED
      BY <1>1, <1>5, <1>9, <3>1, <3>2, <3>3 DEF PendingInv
  <2> QED
    BY <2>1, <2>2
<1>13. TypeOK'
  <2>1. Idle \in Loops
    BY PoseFacts DEF Idle, Loops
  <2>2. pending' \subseteq Requests /\ current' \in Sockets \cup {Nobody}
    BY <1>1, <1>2, <1>3, <1>6
  <2> QED
    BY <1>1, <1>5, <1>6, <1>7, <1>8, <1>11, <2>1, <2>2 DEF IInv, TypeOK, viewVars, hostVars
<1> QED
  BY <1>9, <1>12, <1>13 DEF IInv

-----------------------------------------------------------------------------
\* Every step keeps the invariant.
LEMMA NextIInv == IInv /\ [Next]_vars => IInv'
<1> SUFFICES ASSUME IInv, [Next]_vars PROVE IInv'
  OBVIOUS
<1>1. ASSUME NEW f \in Files, Select(f) PROVE IInv'
  BY <1>1, SelectKeeps
<1>2. ASSUME NEW r \in Requests, Expire(r) PROVE IInv'
  BY <1>2, ExpireKeeps
<1>3. ASSUME NEW r \in Requests, NEW ee \in EndEffectors, NEW s \in Sockets, Apply(r, ee, s) PROVE IInv'
  BY <1>3, ApplyKeeps
<1>4. ASSUME NEW s \in Sockets, Event(s) \/ StartClosing(s) \/ Plan(s) \/ Drop(s)
       PROVE IInv'
  BY <1>4, SocketKeeps, ClosedKeeps, AnsweredKeeps, RefusedKeeps DEF Event
<1>5. CASE Reply \/ Stop
  BY <1>5, ServerKeeps
<1>6. CASE MotionStep
  BY <1>6, MotionKeeps
<1>7. CASE UNCHANGED vars
  <2> USE <1>7 DEF IInv, vars, viewVars, motionVars, clientVars, serverVars, hostVars
  <2>1. TypeOK'
    BY DEF TypeOK
  <2>2. PendingInv'
    BY DEF PendingInv, HasAPath
  <2>3. SolvingIsInFlight'
    BY DEF SolvingIsInFlight, HasAPath
  <2> QED
    BY <2>1, <2>2, <2>3
<1> QED
  BY <1>1, <1>2, <1>3, <1>4, <1>5, <1>6, <1>7 DEF Next, View, Frame, Timer, MotionStep

\* Every variable keeps its type, whatever the number of robots, requests and sockets.
THEOREM Types == Spec => []TypeOK
BY InitIInv, NextIInv, PTL DEF Spec, IInv

\* The "solving" state is never left over: as long as it disables a robot's controls, a
\* request of it is in flight, and its answer or the end of its socket is still to come.
THEOREM SolvingStaysInFlight == Spec => []SolvingIsInFlight
BY InitIInv, NextIInv, PTL DEF Spec, IInv

\* No pending request depends on its 60 s timer: it stands in a queue of the socket in use, or
\* the socket is about to close.
THEOREM NothingNeedsTheTimer == Spec => [](\A r \in pending : HasAPath(r))
<1>1. IInv => \A r \in pending : HasAPath(r)
  BY DEF IInv, PendingInv
<1> QED
  BY <1>1, InitIInv, NextIInv, PTL DEF Spec
=============================================================================
