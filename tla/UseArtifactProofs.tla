-------------------------- MODULE UseArtifactProofs --------------------------
(* What holds of UseArtifact for every number of tabs, effects, requests in flight, edits,
   peers and failures. *)
EXTENDS UseArtifact, TLAPS

\* No request, state or timer is ahead of the effect it belongs to; a tab that shows what its
\* current effect set has started one.
Effects ==
  /\ \A i \in Slots : request[i] # Idle => request[i].effect <= effect[request[i].tab]
  /\ \A t \in Tabs : shown[t].effect <= effect[t]
  /\ \A t \in Tabs : Armed(t) => effect[t] > 0

\* Versions only grow: nothing is made of a source that is still to come, and no package of a
\* newer one than it records.
Versions ==
  /\ content <= package /\ package <= source /\ executed <= source
  /\ \A t \in Tabs : opened[t] <= source

\* Who builds has the write lock.
Writers ==
  /\ \A i \in Slots : request[i].at = "building" => writer = i
  /\ export = "builds" => writer = Exporter

\* What a request of the current effect has built or found ready records no older source than
\* what was there when the effect started.
Current(i) == request[i] # Idle /\ request[i].effect = effect[request[i].tab]
Builds ==
  \A i \in Slots :
    Current(i) /\ request[i].answer = "ready" => package >= opened[request[i].tab]

\* A tab that shows the model as ready shows a package that records no older source.
Recorded == \A t \in Tabs : effect[t] > 0 /\ Shows(t, "ready") => package >= opened[t]

IInv ==
  TypeOK /\ Effects /\ Versions /\ Writers /\ Builds /\ LoadingIsWatched /\ Recorded

-----------------------------------------------------------------------------
Ats == {"sent", "idle", "busy", "queued", "building", "answered"}

\* A slot in use holds a request; the free one that RoomToSend promises is taken.
LEMMA InUse ==
  ASSUME TypeOK, NEW i \in Slots
  PROVE  /\ request[i] # Idle => request[i] \in Requests
         /\ request[i] \in Requests => request[i] # Idle
         /\ request[i].kind # "none" \/ request[i].at # "none" => request[i] # Idle
<1>1. request[i] \in Requests \cup {Idle}
  BY DEF TypeOK
<1> QED
  BY <1>1 DEF Requests, Kinds, Idle

LEMMA SlotIsFree ==
  ASSUME RoomToSend
  PROVE  Slot \in Slots /\ request[Slot] = Idle
BY DEF RoomToSend, Slot

\* A step of the server changes where a request is and its answer, nothing else of it.
LEMMA ToFacts ==
  ASSUME TypeOK, NEW i \in Slots, request[i] # Idle, NEW a \in Ats, NEW r \in Answers, To(i, a, r)
  PROVE  /\ request' \in [Slots -> Requests \cup {Idle}]
         /\ \A j \in Slots : j # i => request'[j] = request[j]
         /\ request'[i] # Idle
         /\ request'[i].kind = request[i].kind /\ request'[i].tab = request[i].tab
         /\ request'[i].effect = request[i].effect
         /\ request'[i].at = a /\ request'[i].answer = r
<1>1. request[i] \in Requests /\ request \in [Slots -> Requests \cup {Idle}]
  BY InUse DEF TypeOK
<1>2. request' = [request EXCEPT ![i] = [request[i] EXCEPT !.at = a, !.answer = r]]
  BY <1>1 DEF To
<1>3. [request[i] EXCEPT !.at = a, !.answer = r] \in Requests
  BY <1>1 DEF Requests, Ats
<1>4. request'[i] = [request[i] EXCEPT !.at = a, !.answer = r]
  BY <1>1, <1>2
<1> QED
  BY <1>1, <1>2, <1>3, <1>4 DEF Requests, Kinds, Idle

\* A slot is given a new request, or none.
LEMMA PutFacts ==
  ASSUME TypeOK, NEW i \in Slots, NEW r \in Requests \cup {Idle}, request' = [request EXCEPT ![i] = r]
  PROVE  /\ request' \in [Slots -> Requests \cup {Idle}]
         /\ \A j \in Slots : j # i => request'[j] = request[j]
         /\ request'[i] = r
BY DEF TypeOK

LEMMA SentFacts ==
  ASSUME NEW kind \in Kinds, NEW t \in Tabs, NEW e \in 1 .. MaxEffects
  PROVE  /\ Sent(kind, t, e) \in Requests /\ Sent(kind, t, e) # Idle
         /\ Sent(kind, t, e).kind = kind /\ Sent(kind, t, e).tab = t
         /\ Sent(kind, t, e).effect = e
         /\ Sent(kind, t, e).at = "sent" /\ Sent(kind, t, e).answer = "none"
BY DEF Sent, Requests, Kinds, Answers, Idle

-----------------------------------------------------------------------------
\* The hook loads nothing at first.
LEMMA InitIInv == Init => IInv
<1> SUFFICES ASSUME Init PROVE IInv
  OBVIOUS
<1>1. TypeOK
  BY BoundsAssumption DEF Init, TypeOK
<1>2. Effects /\ Versions /\ Writers /\ Builds /\ LoadingIsWatched /\ Recorded
  BY DEF Init, Effects, Versions, Writers, Builds, Current, LoadingIsWatched, Recorded, Armed, Shows, Idle
<1> QED
  BY <1>1, <1>2 DEF IInv

-----------------------------------------------------------------------------
\* A writer that returns leaves a package of the newest source, or the one there was.
LEMMA EndsTyped ==
  ASSUME TypeOK, Built \/ Failed
  PROVE  /\ package' \in -1 .. MaxEdits /\ content' \in -1 .. MaxEdits
         /\ executed' \in 0 .. MaxEdits /\ events' \in 0 .. MaxEvents
         /\ writer' = Nobody /\ stage' = "none" /\ executed' = 0
         /\ Built => package' = source
         /\ \/ package' = source /\ content' = executed
            \/ package' = package /\ content' = content
BY BoundsAssumption
   DEF TypeOK, Built, Failed, Commit, KeepPackage, Unlock, Event, packageVars, Fresh

-----------------------------------------------------------------------------
ModelStep ==
  \/ Edit \/ Execute \/ TerminalExports \/ TerminalEnds \/ StartExport \/ LockExport \/ EndExport
  \/ \E p \in Peers : PeerStarts(p) \/ PeerEnds(p)

\* The processes beside the viewer: their steps ...
LEMMA ModelTypes == TypeOK /\ ModelStep => TypeOK'
<1> SUFFICES ASSUME TypeOK, ModelStep PROVE TypeOK'
  OBVIOUS
<1> USE BoundsAssumption, PeersAssumption DEF tabVars, packageVars, writerVars, Lock, Event
<1>1. CASE Edit
  BY <1>1 DEF Edit, TypeOK
<1>2. CASE Execute
  BY <1>2 DEF Execute, TypeOK
<1>3. CASE TerminalExports
  BY <1>3 DEF TerminalExports, TypeOK
<1>4. CASE TerminalEnds
  BY <1>4 DEF TerminalEnds, TypeOK
<1>5. CASE StartExport
  BY <1>5 DEF StartExport, TypeOK
<1>6. CASE LockExport
  BY <1>6 DEF LockExport, TypeOK
<1>7. CASE EndExport
  BY <1>7, EndsTyped DEF EndExport, TypeOK
<1>8. ASSUME NEW p \in Peers, PeerStarts(p) PROVE TypeOK'
  BY <1>8 DEF PeerStarts, TypeOK
<1>9. ASSUME NEW p \in Peers, PeerEnds(p) PROVE TypeOK'
  BY <1>9, EndsTyped DEF PeerEnds, TypeOK
<1> QED
  BY <1>1, <1>2, <1>3, <1>4, <1>5, <1>6, <1>7, <1>8, <1>9 DEF ModelStep

\* ... move versions forward, and no request or tab.
LEMMA ModelKeeps ==
  ASSUME IInv, ModelStep
  PROVE  /\ package' >= package /\ Versions' /\ Writers' /\ Builds'
         /\ UNCHANGED <<request, tabVars>>
<1>0. /\ source \in Nat /\ package \in Int /\ content \in Int /\ executed \in Nat
      /\ opened \in [Tabs -> Nat] /\ TypeOK
      /\ \A i \in Slots : request[i] # Idle => request[i].tab \in Tabs
  BY InUse, BoundsAssumption DEF IInv, TypeOK, Requests
<1> DEFINE Forward == /\ package' >= package /\ Versions' /\ Writers'
                      /\ UNCHANGED <<request, tabVars>>
<1> USE <1>0, PeersAssumption DEF IInv, Versions, Writers, tabVars, packageVars, writerVars, Lock
<1>1. ASSUME Edit PROVE Forward
  BY <1>1 DEF Edit
<1>2. ASSUME Execute PROVE Forward
  BY <1>2 DEF Execute
<1>3. ASSUME TerminalExports \/ TerminalEnds PROVE Forward
  BY <1>3 DEF TerminalExports, TerminalEnds
<1>4. ASSUME StartExport PROVE Forward
  BY <1>4 DEF StartExport
<1>5. ASSUME LockExport PROVE Forward
  BY <1>5 DEF LockExport
<1>6. ASSUME EndExport PROVE Forward
  <2>1. CASE export = "generates" /\ UNCHANGED <<packageVars, writerVars, events>>
    BY <1>6, <2>1 DEF EndExport
  <2>2. CASE export = "builds" /\ (Built \/ Failed)
    BY <1>6, <2>2, EndsTyped DEF EndExport
  <2> QED
    BY <1>6, <2>1, <2>2 DEF EndExport
<1>7. ASSUME NEW p \in Peers, PeerStarts(p) PROVE Forward
  BY <1>7 DEF PeerStarts
<1>8. ASSUME NEW p \in Peers, PeerEnds(p) PROVE Forward
  BY <1>8, EndsTyped DEF PeerEnds
<1>9. Forward
  BY <1>1, <1>2, <1>3, <1>4, <1>5, <1>6, <1>7, <1>8 DEF ModelStep
<1>10. package' \in Int
  BY ModelTypes, BoundsAssumption DEF TypeOK
<1>11. Builds'
  BY <1>9, <1>10 DEF Builds, Current
<1> QED
  BY <1>9, <1>11

-----------------------------------------------------------------------------
\* The routes of the backend: the request they serve changes where it is and its answer.
LEMMA ServeFacts ==
  ASSUME TypeOK, NEW i \in Slots, Serve(i)
  PROVE  /\ request[i] # Idle
         /\ \E a \in Ats, r \in Answers : To(i, a, r)
         /\ UNCHANGED <<model, source, terminal, export, peers, tabVars>>
<1> USE InUse DEF Ats, Answers, serverVars, packageVars, writerVars
<1>1. CASE Probe(i)
  BY <1>1 DEF Probe, Kinds
<1>2. CASE Validate(i)
  BY <1>2 DEF Validate
<1>3. CASE Refuse(i)
  BY <1>3 DEF Refuse
<1>4. CASE CheckBeforeBuild(i)
  BY <1>4 DEF CheckBeforeBuild
<1>5. CASE Acquire(i)
  BY <1>5 DEF Acquire
<1>6. CASE Contend(i)
  BY <1>6 DEF Contend
<1>7. CASE FinishBuild(i)
  BY <1>7 DEF FinishBuild
<1> QED
  BY <1>1, <1>2, <1>3, <1>4, <1>5, <1>6, <1>7 DEF Serve

\* Only a build's start takes the lock and only its end replaces the package; "ready" is
\* answered where the package is current, or what the request built.
LEMMA ServeKeeps ==
  ASSUME IInv, NEW i \in Slots, Serve(i)
  PROVE  TypeOK' /\ Versions' /\ Writers' /\ Builds' /\ package' >= package
<1>0. /\ source \in Nat /\ package \in Int /\ content \in Int /\ executed \in Nat
      /\ opened \in [Tabs -> Nat]
      /\ i # Nobody /\ i # Exporter /\ Nobody # Exporter
  BY PeersAssumption, BoundsAssumption DEF IInv, TypeOK
<1>1. /\ request[i] # Idle /\ request[i] \in Requests
      /\ UNCHANGED <<model, source, terminal, export, peers, tabVars>>
  BY InUse, ServeFacts DEF IInv
<1>2. PICK a \in Ats, r \in Answers : To(i, a, r)
  BY ServeFacts DEF IInv
<1>3. /\ request' \in [Slots -> Requests \cup {Idle}]
      /\ \A j \in Slots : j # i => request'[j] = request[j]
      /\ request'[i] # Idle
      /\ request'[i].kind = request[i].kind /\ request'[i].tab = request[i].tab
      /\ request'[i].effect = request[i].effect
      /\ request'[i].at = a /\ request'[i].answer = r
  BY <1>1, <1>2, ToFacts DEF IInv
<1>4. ASSUME NEW a1 \in Ats, NEW r1 \in Answers, To(i, a1, r1) PROVE a1 = a /\ r1 = r
  BY <1>3, <1>4, <1>1, ToFacts DEF IInv
<1>5. \A j \in Slots : request[j] # Idle => request[j].tab \in Tabs
  BY InUse DEF IInv, Requests
<1> DEFINE Step == /\ executed' \in 0 .. MaxEdits /\ executed' <= source
                   /\ package' \in -1 .. MaxEdits /\ package <= package' /\ package' <= source
                   /\ content' \in -1 .. MaxEdits /\ content' <= package'
                   /\ stage' \in {"none", "locked", "executed"}
                   /\ writer' \in {writer, i, Nobody}
                   /\ a = "building" => writer' = i
                   /\ writer' # writer => \A j \in Slots : j # i => request[j].at # "building"
                   /\ writer' # writer => export # "builds"
                   /\ r = "ready" => package' = source
                   /\ events' \in 0 .. MaxEvents
<1>6. Step
  <2> USE <1>0, <1>4 DEF IInv, Versions, Writers, Ats, Answers, serverVars, packageVars, writerVars
  <2>0. /\ events \in 0 .. MaxEvents /\ executed \in 0 .. MaxEdits
        /\ stage \in {"none", "locked", "executed"}
        /\ package \in -1 .. MaxEdits /\ content \in -1 .. MaxEdits
    BY DEF TypeOK
  <2>1. CASE Probe(i)
    BY <1>1, <2>0, <2>1 DEF Probe
  <2>2. CASE Validate(i)
    BY <1>1, <2>0, <2>2 DEF Validate, Fresh
  <2>3. CASE Refuse(i)
    BY <1>1, <2>0, <2>3, BoundsAssumption DEF Refuse, Event
  <2>4. CASE CheckBeforeBuild(i)
    BY <1>1, <2>0, <2>4 DEF CheckBeforeBuild
  <2>5. CASE Acquire(i)
    BY <1>1, <2>0, <2>5, PeersAssumption DEF Acquire, Lock
  <2>6. CASE Contend(i)
    BY <1>1, <2>0, <2>6 DEF Contend
  <2>7. CASE FinishBuild(i)
    <3>1. Built \/ Failed
      BY <2>7 DEF FinishBuild
    <3>2. writer = i /\ export # "builds" /\ \A j \in Slots : j # i => request[j].at # "building"
      BY <1>0, <2>7 DEF FinishBuild
    <3>3. a = "answered" /\ (r = "ready" => Built)
      BY <1>1, <2>7 DEF FinishBuild
    <3> QED
      BY <2>0, <3>1, <3>2, <3>3, EndsTyped
  <2> QED
    BY <2>1, <2>2, <2>3, <2>4, <2>5, <2>6, <2>7 DEF Serve
<1> HIDE DEF Step
<1>7. TypeOK'
  BY <1>0, <1>1, <1>3, <1>6, BoundsAssumption DEF Step, IInv, TypeOK, Versions, tabVars
<1>8. Versions'
  BY <1>0, <1>1, <1>6 DEF Step, IInv, Versions, tabVars
<1>9. Writers'
  BY <1>0, <1>1, <1>3, <1>6 DEF Step, IInv, Writers
<1>10. Builds'
  <2> SUFFICES ASSUME NEW j \in Slots, Current(j)'
               PROVE  /\ request'[j].answer = "ready" => package' >= opened[request[j].tab]
                      /\ request'[j].tab = request[j].tab
    BY <1>1, <1>3 DEF Builds, tabVars
  <2>1. Current(j) /\ request'[j].tab = request[j].tab /\ opened[request[j].tab] \in Nat
        /\ opened[request[j].tab] <= source
    BY <1>0, <1>1, <1>3, <1>5 DEF Current, tabVars, IInv, Versions
  <2>2. CASE j = i
    BY <1>0, <1>3, <1>6, <2>1, <2>2 DEF Step, IInv, Builds
  <2>3. CASE j # i
    BY <1>0, <1>3, <1>6, <2>1, <2>3 DEF Step, IInv, Builds
  <2> QED
    BY <2>2, <2>3, <2>1
<1> QED
  BY <1>6, <1>7, <1>8, <1>9, <1>10 DEF Step

-----------------------------------------------------------------------------
\* The hook. A continuation ends its request or sends another of the same effect; a live one
\* leaves a tab that loads with a timer or a request.
Continued(i, r) ==
  LET t == request[i].tab
      status == shown'[t].status IN
  /\ UNCHANGED <<serverVars, effect, opened>>
  /\ request' = [request EXCEPT ![i] = r]
  /\ r # Idle => /\ Live(i) /\ r.tab = t /\ r.effect = effect[t]
                 /\ r.at = "sent" /\ r.answer = "none"
  /\ attached' \in [Tabs -> BOOLEAN]
  /\ timer' \in [Tabs -> BOOLEAN] /\ loose' \in [Tabs -> Nat]
  /\ \A u \in Tabs : u # t => timer'[u] = timer[u] /\ loose'[u] = loose[u]
  /\ ~ Live(i) => UNCHANGED <<timer, loose, shown>>
  /\ \/ shown' = shown
     \/ /\ shown' = [shown EXCEPT ![t] = [effect |-> effect[t], status |-> status]]
        /\ status \in {"ready", "generating", "error"}
        /\ status = "ready" => request[i].answer = "ready"
  /\ Live(i) => timer'[t] \/ r # Idle \/ status # "generating"

LEMMA ContinueFacts ==
  ASSUME TypeOK, NEW i \in Slots, Continue(i)
  PROVE  /\ request[i] \in Requests /\ request[i] # Idle
         /\ \E r \in Requests \cup {Idle} : Continued(i, r)
<1> DEFINE t == request[i].tab
<1>1. /\ request[i] \in Requests /\ request[i] # Idle
      /\ t \in Tabs /\ request[i].effect \in 1 .. MaxEffects
  <2>1. request[i].at = "answered"
    BY DEF Continue, Discard, Resolved, Attach, Post, HandOff, Posted, KeepPolling, ResolveAgain, Live
  <2> QED
    BY <2>1, InUse DEF Requests
<1>2. /\ timer \in [Tabs -> BOOLEAN] /\ loose \in [Tabs -> Nat]
      /\ attached \in [Tabs -> BOOLEAN]
      /\ shown \in [Tabs -> [effect: 0 .. MaxEffects, status: {"ready", "generating", "error"}]]
  BY DEF TypeOK
<1>3. ASSUME NEW status \in {"ready", "generating", "error"}, Live(i), Settle(i, status)
      PROVE  /\ shown' = [shown EXCEPT ![t] = [effect |-> effect[t], status |-> status]]
             /\ shown'[t].status = status
  BY <1>1, <1>2, <1>3 DEF Settle, Live
<1>4. ASSUME NEW kind \in Kinds
      PROVE  LET r == Sent(kind, t, request[i].effect) IN
             /\ r \in Requests /\ r # Idle /\ r.tab = t /\ r.effect = request[i].effect
             /\ r.at = "sent" /\ r.answer = "none"
  BY <1>1, SentFacts
<1>5. ASSUME Arm(t) \/ Rearm(t) PROVE timer'[t] = TRUE
  BY <1>1, <1>2, <1>5 DEF Arm, Rearm
<1>6. ASSUME Arm(t) \/ Rearm(t) \/ StopPolling(t) \/ UNCHANGED <<timer, loose>>
      PROVE  /\ timer' \in [Tabs -> BOOLEAN] /\ loose' \in [Tabs -> Nat]
             /\ \A u \in Tabs : u # t => timer'[u] = timer[u] /\ loose'[u] = loose[u]
  <2>1. CASE Arm(t)
    <3>1. loose[t] \in Nat /\ loose[t] + 1 \in Nat
      BY <1>1, <1>2
    <3>2. PICK n \in Nat : loose' = [loose EXCEPT ![t] = n]
      BY <2>1, <1>2, <3>1 DEF Arm
    <3>3. timer' = [timer EXCEPT ![t] = TRUE]
      BY <2>1 DEF Arm
    <3> QED
      BY <1>1, <1>2, <3>2, <3>3
  <2>2. CASE Rearm(t) \/ StopPolling(t)
    <3>1. loose' = loose /\ \E bool \in BOOLEAN : timer' = [timer EXCEPT ![t] = bool]
      BY <2>2 DEF Rearm, StopPolling
    <3> QED
      BY <1>1, <1>2, <3>1
  <2> QED
    BY <1>2, <1>6, <2>1, <2>2
<1>a. CASE Discard(i)
  <2>1. Continued(i, Idle)
    BY <1>a, <1>1, <1>2 DEF Discard, Continued, tabVars
  <2> QED
    BY <2>1, <1>1
<1>b. CASE Resolved(i)
  <2> DEFINE status == IF request[i].answer = "ready" THEN "ready" ELSE "error"
  <2>1. Live(i) /\ Settle(i, status) /\ status \in {"ready", "generating", "error"}
    BY <1>b DEF Resolved
  <2>2. StopPolling(t) \/ UNCHANGED <<timer, loose>>
    BY <1>b DEF Resolved
  <2>3. Continued(i, Idle)
    BY <1>b, <1>2, <1>3, <1>6, <2>1, <2>2 DEF Resolved, Continued
  <2> QED
    BY <2>3, <1>1
<1>c. CASE Attach(i)
  <2>1. Live(i) /\ Settle(i, "generating") /\ Arm(t)
    BY <1>c DEF Attach
  <2>2. Continued(i, Idle)
    BY <1>c, <1>1, <1>2, <1>3, <1>5, <1>6, <2>1 DEF Attach, Continued
  <2> QED
    BY <2>2, <1>1
<1>d. CASE Post(i)
  <2>1. Live(i) /\ Settle(i, "generating") /\ Arm(t)
    BY <1>d DEF Post
  <2>2. Continued(i, Sent("post", t, request[i].effect))
    BY <1>d, <1>1, <1>2, <1>3, <1>4, <1>5, <1>6, <2>1 DEF Post, Continued, Kinds, Live
  <2> QED
    BY <2>2, <1>1, <1>4 DEF Kinds
<1>e. CASE HandOff(i)
  <2>1. Live(i) /\ Settle(i, "generating") /\ Rearm(t)
    BY <1>e DEF HandOff
  <2>2. Continued(i, Idle)
    BY <1>e, <1>1, <1>2, <1>3, <1>5, <1>6, <2>1 DEF HandOff, Continued
  <2> QED
    BY <2>2, <1>1
<1>f. CASE Posted(i)
  <2> DEFINE status == IF request[i].answer = "ready" THEN "ready" ELSE "error"
  <2>1. Live(i) /\ Settle(i, status) /\ status \in {"ready", "generating", "error"} /\ StopPolling(t)
    BY <1>f DEF Posted
  <2>2. Continued(i, Idle)
    BY <1>f, <1>2, <1>3, <1>6, <2>1 DEF Posted, Continued
  <2> QED
    BY <2>2, <1>1
<1>g. CASE KeepPolling(i)
  <2>1. Live(i) /\ Arm(t) /\ shown' = shown
    BY <1>g DEF KeepPolling
  <2>2. Continued(i, Idle)
    BY <1>g, <1>1, <1>2, <1>5, <1>6, <2>1 DEF KeepPolling, Continued
  <2> QED
    BY <2>2, <1>1
<1>h. CASE ResolveAgain(i)
  <2>1. Live(i) /\ StopPolling(t) /\ shown' = shown
    BY <1>h DEF ResolveAgain
  <2>2. Continued(i, Sent("resolve", t, request[i].effect))
    BY <1>h, <1>1, <1>2, <1>4, <1>6, <2>1 DEF ResolveAgain, Continued, Kinds, Live
  <2> QED
    BY <2>2, <1>1, <1>4 DEF Kinds
<1> QED
  BY <1>a, <1>b, <1>c, <1>d, <1>e, <1>f, <1>g, <1>h DEF Continue

LEMMA ContinueKeeps ==
  ASSUME IInv, NEW i \in Slots, Continue(i)
  PROVE  /\ TypeOK' /\ Effects' /\ Builds' /\ LoadingIsWatched' /\ Recorded'
         /\ UNCHANGED <<serverVars, opened>>
<1> DEFINE t == request[i].tab
<1>1. /\ request[i] \in Requests /\ request[i] # Idle /\ t \in Tabs
      /\ request[i].effect \in 1 .. MaxEffects
  BY ContinueFacts DEF IInv, Requests
<1>2. PICK r \in Requests \cup {Idle} : Continued(i, r)
  BY ContinueFacts DEF IInv
<1>3. /\ request' \in [Slots -> Requests \cup {Idle}]
      /\ \A j \in Slots : j # i => request'[j] = request[j]
      /\ request'[i] = r
  BY <1>2, PutFacts DEF IInv, Continued
<1>4. /\ UNCHANGED <<serverVars, effect, opened>>
      /\ effect \in [Tabs -> 0 .. MaxEffects] /\ effect[t] \in 0 .. MaxEffects
      /\ package \in Int /\ opened \in [Tabs -> Int]
      /\ shown \in [Tabs -> [effect: 0 .. MaxEffects, status: {"ready", "generating", "error"}]]
  BY <1>1, <1>2, BoundsAssumption DEF IInv, TypeOK, Continued
<1>5. \A j \in Slots : request[j] # Idle =>
        request[j].tab \in Tabs /\ request[j].effect \in 1 .. MaxEffects
  BY InUse DEF IInv, Requests
<1>6. /\ \A u \in Tabs : u # t => shown'[u] = shown[u]
      /\ \/ shown'[t] = shown[t]
         \/ shown'[t] = [effect |-> effect[t], status |-> shown'[t].status]
      /\ shown' \in [Tabs -> [effect: 0 .. MaxEffects, status: {"ready", "generating", "error"}]]
  BY <1>1, <1>2, <1>4 DEF Continued
<1>7. TypeOK'
  BY <1>2, <1>3, <1>4, <1>6 DEF IInv, TypeOK, Continued, serverVars, packageVars, writerVars
<1>8. Effects'
  <2>1. \A j \in Slots : request'[j] # Idle => request'[j].effect <= effect[request'[j].tab]
    BY <1>2, <1>3, <1>4 DEF IInv, Effects, Continued
  <2>2. \A u \in Tabs : shown'[u].effect <= effect[u]
    BY <1>4, <1>6 DEF IInv, Effects
  <2>3. \A u \in Tabs : Armed(u)' => effect[u] > 0
    <3>1. CASE Live(i)
      BY <3>1, <1>1, <1>2, <1>4 DEF IInv, Effects, Armed, Continued, Live
    <3>2. CASE ~ Live(i)
      BY <3>2, <1>2, <1>4 DEF IInv, Effects, Armed, Continued
    <3> QED
      BY <3>1, <3>2
  <2> QED
    BY <1>4, <2>1, <2>2, <2>3 DEF Effects
<1>9. Builds'
  BY <1>2, <1>3, <1>4 DEF IInv, Builds, Current, Continued, serverVars, packageVars, writerVars
<1>10. LoadingIsWatched'
  <2> SUFFICES ASSUME NEW u \in Tabs, Shows(u, "generating")'
               PROVE  Armed(u)' \/ \E j \in Slots : j \in Pending(u, Kinds)'
    BY DEF LoadingIsWatched
  <2>1. CASE u # t \/ ~ Live(i)
    <3>1. Shows(u, "generating") /\ (Armed(u) => Armed(u)')
      BY <2>1, <1>2, <1>4, <1>6 DEF Shows, Armed, Continued
    <3>2. i \notin Pending(u, Kinds)
      <4>1. request[i].at = "answered"
        BY DEF Continue, Discard, Resolved, Attach, Post, HandOff, Posted, KeepPolling, ResolveAgain, Live
      <4> QED
        BY <4>1, <2>1 DEF Pending, Live
    <3>3. \A j \in Pending(u, Kinds) : j \in Pending(u, Kinds)'
      BY <3>2, <1>3, <1>4 DEF Pending
    <3> QED
      BY <3>1, <3>3 DEF IInv, LoadingIsWatched, Pending
  <2>2. CASE u = t /\ Live(i)
    <3>1. shown'[t].status = "generating"
      BY <2>2 DEF Shows
    <3>2. CASE timer'[t]
      BY <3>2, <2>2 DEF Armed
    <3>3. CASE r # Idle
      <4>1. r \in Requests /\ r.kind \in Kinds
        BY <3>3 DEF Requests
      <4>2. i \in Pending(u, Kinds)'
        BY <3>3, <4>1, <2>2, <1>2, <1>3, <1>4 DEF Pending, Continued
      <4> QED
        BY <4>2
    <3> QED
      BY <3>1, <3>2, <3>3, <2>2, <1>2 DEF Continued
  <2> QED
    BY <2>1, <2>2
<1>11. Recorded'
  <2> SUFFICES ASSUME NEW u \in Tabs, effect[u] > 0, Shows(u, "ready")'
               PROVE  package >= opened[u]
    BY <1>4 DEF Recorded, serverVars, packageVars, writerVars
  <2>1. CASE shown'[u] = shown[u]
    BY <2>1, <1>4 DEF IInv, Recorded, Shows
  <2>2. CASE u = t /\ shown' # shown
    <3>1. Live(i) /\ request[i].answer = "ready"
      BY <2>2, <1>2 DEF Continued, Shows
    <3> QED
      BY <3>1, <2>2, <1>1 DEF IInv, Builds, Current, Live
  <2> QED
    BY <2>1, <2>2, <1>6
<1> QED
  BY <1>4, <1>7, <1>8, <1>9, <1>10, <1>11

\* A new effect is ahead of every request and of what is shown; a poll takes the place of
\* the timer that fired.
LEMMA TabKeeps ==
  ASSUME IInv, NEW t \in Tabs, Restart(t) \/ Poll(t)
  PROVE  /\ TypeOK' /\ Effects' /\ Versions' /\ Builds' /\ LoadingIsWatched' /\ Recorded'
         /\ UNCHANGED serverVars
         /\ \A j \in Slots : request'[j].at = "building" => request[j].at = "building"
<1>1. /\ effect \in [Tabs -> 0 .. MaxEffects] /\ effect[t] \in 0 .. MaxEffects
      /\ timer \in [Tabs -> BOOLEAN] /\ loose \in [Tabs -> Nat] /\ loose[t] \in Nat
      /\ attached \in [Tabs -> BOOLEAN]
      /\ shown \in [Tabs -> [effect: 0 .. MaxEffects, status: {"ready", "generating", "error"}]]
      /\ opened \in [Tabs -> 0 .. MaxEdits] /\ source \in 0 .. MaxEdits /\ package \in Int
      /\ MaxEffects \in Nat /\ MaxEdits \in Nat
  BY BoundsAssumption DEF IInv, TypeOK
<1>2. \A j \in Slots : request[j] # Idle =>
        request[j].tab \in Tabs /\ request[j].effect \in 1 .. MaxEffects
  BY InUse DEF IInv, Requests
<1> DEFINE s == Slot
<1>3. s \in Slots /\ request[s] = Idle
  BY SlotIsFree DEF Restart, Poll
<1> HIDE DEF s
<1>4. CASE Restart(t)
  <2> DEFINE e == effect[t] + 1
             r == Sent("resolve", t, e)
  <2>1. e \in 1 .. MaxEffects
    BY <1>1, <1>4 DEF Restart
  <2>2. /\ UNCHANGED <<serverVars, shown>>
        /\ effect' = [effect EXCEPT ![t] = e]
        /\ attached' = [attached EXCEPT ![t] = FALSE]
        /\ timer' = [timer EXCEPT ![t] = FALSE] /\ loose' = [loose EXCEPT ![t] = 0]
        /\ opened' = [opened EXCEPT ![t] = source]
        /\ request' = [request EXCEPT ![s] = r]
    BY <1>4 DEF Restart, s
  <2>3. /\ r \in Requests /\ r # Idle /\ r.tab = t /\ r.effect = e
        /\ r.at = "sent" /\ r.answer = "none"
    BY <2>1, SentFacts DEF Kinds
  <2> HIDE DEF r, e
  <2>4. /\ request' \in [Slots -> Requests \cup {Idle}]
        /\ \A j \in Slots : j # s => request'[j] = request[j]
        /\ request'[s] = r
    BY <1>3, <2>2, <2>3, PutFacts DEF IInv
  <2>5. effect[t] < e
    BY <1>1 DEF e
  <2>6. /\ effect' \in [Tabs -> 0 .. MaxEffects] /\ effect'[t] = e
        /\ \A u \in Tabs : effect[u] <= effect'[u] /\ (u # t => effect'[u] = effect[u])
        /\ timer' \in [Tabs -> BOOLEAN] /\ loose' \in [Tabs -> Nat]
        /\ opened' \in [Tabs -> 0 .. MaxEdits] /\ opened'[t] = source
        /\ \A u \in Tabs : u # t => /\ opened'[u] = opened[u] /\ timer'[u] = timer[u]
                                    /\ loose'[u] = loose[u]
        /\ ~ timer'[t] /\ loose'[t] = 0
    BY <1>1, <2>1, <2>2, <2>5
  <2>7. TypeOK'
    BY <1>1, <2>2, <2>4, <2>6 DEF IInv, TypeOK, serverVars, packageVars, writerVars
  <2>8. Effects'
    BY <1>1, <1>2, <2>1, <2>2, <2>3, <2>4, <2>6 DEF IInv, Effects, Armed
  <2>9. Versions'
    BY <1>1, <2>2, <2>6 DEF IInv, Versions, serverVars, packageVars, writerVars
  <2>10. \A j \in Slots : j # s /\ Current(j)' => request[j].tab # t /\ Current(j)
    BY <1>1, <1>2, <2>4, <2>5, <2>6 DEF IInv, Effects, Current
  <2>11. Builds'
    BY <1>2, <2>2, <2>3, <2>4, <2>6, <2>10 DEF IInv, Builds, serverVars, packageVars, writerVars
  <2>12. ~ Shows(t, "generating")' /\ ~ Shows(t, "ready")'
    BY <1>1, <2>2, <2>5, <2>6 DEF IInv, Effects, Shows
  <2>13. LoadingIsWatched'
    <3> SUFFICES ASSUME NEW u \in Tabs, Shows(u, "generating")', u # t
                 PROVE  Armed(u)' \/ Pending(u, Kinds)' # {}
      BY <2>12 DEF LoadingIsWatched
    <3>1. Shows(u, "generating") /\ (Armed(u) => Armed(u)')
      BY <2>2, <2>6 DEF Shows, Armed
    <3>2. \A j \in Pending(u, Kinds) : j \in Pending(u, Kinds)'
      BY <1>3, <2>4, <2>6 DEF Pending, Idle, Kinds
    <3> QED
      BY <3>1, <3>2 DEF IInv, LoadingIsWatched
  <2>14. Recorded'
    BY <2>2, <2>6, <2>12 DEF IInv, Recorded, Shows, serverVars, packageVars, writerVars
  <2> QED
    BY <2>2, <2>3, <2>4, <2>7, <2>8, <2>9, <2>11, <2>13, <2>14
<1>5. CASE Poll(t)
  <2> DEFINE r == Sent("poll", t, effect[t])
  <2>1. effect[t] \in 1 .. MaxEffects
    BY <1>1, <1>5 DEF Poll, IInv, Effects, Armed
  <2>2. /\ UNCHANGED <<serverVars, effect, attached, shown, opened>>
        /\ request' = [request EXCEPT ![s] = r]
    BY <1>5 DEF Poll, s
  <2>3. /\ r \in Requests /\ r # Idle /\ r.tab = t /\ r.effect = effect[t] /\ r.kind \in Kinds
        /\ r.at = "sent" /\ r.answer = "none"
    BY <2>1, SentFacts DEF Kinds
  <2> HIDE DEF r
  <2>4. /\ request' \in [Slots -> Requests \cup {Idle}]
        /\ \A j \in Slots : j # s => request'[j] = request[j]
        /\ request'[s] = r
    BY <1>3, <2>2, <2>3, PutFacts DEF IInv
  <2>5. /\ timer' \in [Tabs -> BOOLEAN] /\ loose' \in [Tabs -> Nat]
        /\ \A u \in Tabs : u # t => timer'[u] = timer[u] /\ loose'[u] = loose[u]
    <3>1. CASE timer[t] /\ StopPolling(t)
      BY <3>1, <1>1 DEF StopPolling
    <3>2. CASE loose[t] > 0 /\ loose' = [loose EXCEPT ![t] = @ - 1] /\ UNCHANGED timer
      BY <3>2, <1>1
    <3> QED
      BY <3>1, <3>2, <1>5 DEF Poll
  <2>6. TypeOK'
    BY <2>2, <2>4, <2>5 DEF IInv, TypeOK, serverVars, packageVars, writerVars
  <2>7. Effects'
    <3>1. \A u \in Tabs : Armed(u)' => effect[u] > 0
      BY <2>1, <2>5 DEF IInv, Effects, Armed
    <3> QED
      BY <1>1, <2>2, <2>3, <2>4, <3>1 DEF IInv, Effects
  <2>8. Versions'
    BY <2>2 DEF IInv, Versions, serverVars, packageVars, writerVars
  <2>9. Builds'
    BY <2>2, <2>3, <2>4 DEF IInv, Builds, Current, serverVars, packageVars, writerVars
  <2>10. LoadingIsWatched'
    <3> SUFFICES ASSUME NEW u \in Tabs, Shows(u, "generating")'
                 PROVE  Armed(u)' \/ Pending(u, Kinds)' # {}
      BY DEF LoadingIsWatched
    <3>1. CASE u = t
      <4>1. s \in Pending(u, Kinds)'
        BY <3>1, <1>3, <2>2, <2>3, <2>4 DEF Pending
      <4> QED
        BY <4>1
    <3>2. CASE u # t
      <4>1. Shows(u, "generating") /\ (Armed(u) => Armed(u)')
        BY <3>2, <2>2, <2>5 DEF Shows, Armed
      <4>2. \A j \in Pending(u, Kinds) : j \in Pending(u, Kinds)'
        BY <1>3, <2>2, <2>4 DEF Pending, Idle, Kinds
      <4> QED
        BY <4>1, <4>2 DEF IInv, LoadingIsWatched
    <3> QED
      BY <3>1, <3>2
  <2>11. Recorded'
    BY <2>2 DEF IInv, Recorded, Shows, serverVars, packageVars, writerVars
  <2> QED
    BY <2>2, <2>3, <2>4, <2>6, <2>7, <2>8, <2>9, <2>10, <2>11
<1> QED
  BY <1>4, <1>5

-----------------------------------------------------------------------------
\* Every step keeps the invariant.
LEMMA NextIInv == IInv /\ [Next]_vars => IInv'
<1> SUFFICES ASSUME IInv, [Next]_vars PROVE IInv'
  OBVIOUS
<1>1. package \in Int /\ opened \in [Tabs -> Int]
  BY BoundsAssumption DEF IInv, TypeOK
<1>2. ASSUME ModelStep PROVE IInv'
  <2>1. TypeOK' /\ package' \in Int
    BY <1>2, ModelTypes, BoundsAssumption DEF IInv, TypeOK
  <2>2. package' >= package /\ Versions' /\ Writers' /\ Builds' /\ UNCHANGED <<request, tabVars>>
    BY <1>2, ModelKeeps
  <2>3. Effects' /\ LoadingIsWatched'
    BY <2>2 DEF IInv, Effects, LoadingIsWatched, Armed, Shows, Pending, tabVars
  <2>4. Recorded'
    BY <1>1, <2>1, <2>2 DEF IInv, Recorded, Shows, tabVars
  <2> QED
    BY <2>1, <2>2, <2>3, <2>4 DEF IInv
<1>3. ASSUME NEW i \in Slots, Serve(i) PROVE IInv'
  <2>1. TypeOK' /\ Versions' /\ Writers' /\ Builds' /\ package' >= package /\ package' \in Int
    BY <1>3, ServeKeeps, BoundsAssumption DEF TypeOK
  <2>2. request[i] # Idle /\ UNCHANGED <<model, source, terminal, export, peers, tabVars>>
    BY <1>3, ServeFacts DEF IInv
  <2>3. PICK a \in Ats, r \in Answers : To(i, a, r)
    BY <1>3, ServeFacts DEF IInv
  <2>4. /\ \A j \in Slots : j # i => request'[j] = request[j]
        /\ request'[i] # Idle /\ request'[i].kind = request[i].kind
        /\ request'[i].tab = request[i].tab /\ request'[i].effect = request[i].effect
    BY <2>2, <2>3, ToFacts DEF IInv
  <2>5. Effects'
    BY <2>2, <2>4 DEF IInv, Effects, Armed, tabVars
  <2>6. LoadingIsWatched'
    <3>1. \A t \in Tabs : Pending(t, Kinds)' = Pending(t, Kinds)
      BY <2>2, <2>4 DEF Pending, tabVars
    <3> QED
      BY <2>2, <3>1 DEF IInv, LoadingIsWatched, Armed, Shows, tabVars
  <2>7. Recorded'
    BY <1>1, <2>1, <2>2 DEF IInv, Recorded, Shows, tabVars
  <2> QED
    BY <2>1, <2>5, <2>6, <2>7 DEF IInv
<1>4. ASSUME NEW i \in Slots, Continue(i) PROVE IInv'
  <2>1. /\ TypeOK' /\ Effects' /\ Builds' /\ LoadingIsWatched' /\ Recorded'
        /\ UNCHANGED <<serverVars, opened>>
    BY <1>4, ContinueKeeps
  <2>2. PICK r \in Requests \cup {Idle} : Continued(i, r)
    BY <1>4, ContinueFacts DEF IInv
  <2>3. \A j \in Slots : request'[j].at = "building" => request[j].at = "building"
    BY <2>2, PutFacts DEF IInv, Continued, Idle
  <2> QED
    BY <2>1, <2>3 DEF IInv, Versions, Writers, serverVars, packageVars, writerVars
<1>5. ASSUME NEW t \in Tabs, Restart(t) \/ Poll(t) PROVE IInv'
  <2>1. /\ TypeOK' /\ Effects' /\ Versions' /\ Builds' /\ LoadingIsWatched' /\ Recorded'
        /\ UNCHANGED serverVars
        /\ \A j \in Slots : request'[j].at = "building" => request[j].at = "building"
    BY <1>5, TabKeeps
  <2> QED
    BY <2>1 DEF IInv, Writers, serverVars, packageVars, writerVars
<1>6. ASSUME UNCHANGED vars PROVE IInv'
  BY <1>6 DEF IInv, TypeOK, Effects, Versions, Writers, Builds, Current, LoadingIsWatched,
              Recorded, Armed, Shows, Pending, Live, vars, serverVars, packageVars, writerVars, tabVars
<1> QED
  BY <1>2, <1>3, <1>4, <1>5, <1>6 DEF Next, ModelStep

\* A package is made of what it records or else was edited while it was built.
LEMMA Shown == IInv => ReadyIsNotStale
<1> SUFFICES ASSUME IInv, NEW t \in Tabs, effect[t] > 0, Shows(t, "ready")
             PROVE  content >= opened[t] \/ (EditedDuringBuild /\ package >= opened[t])
  BY DEF ReadyIsNotStale
<1> QED
  BY DEF IInv, Recorded, EditedDuringBuild

\* Every variable keeps its type, whatever the bounds on effects, requests, edits and events.
THEOREM Types == Spec => []TypeOK
BY InitIInv, NextIInv, PTL DEF Spec, IInv

\* No wake-up is lost: whatever tabs, peers and exports there are and however their requests
\* interleave, a tab that shows a loading state has a timer armed or a request in flight.
THEOREM LoadingStaysWatched == Spec => []LoadingIsWatched
BY InitIInv, NextIInv, PTL DEF Spec, IInv

\* What a tab shows as ready was made of the source that was there when its effect started, or
\* of a newer one, unless that was edited during the build; and the package records no older
\* source even then.  For any number of edits, builds, exports and tabs.
THEOREM ReadyStaysFresh == Spec => []ReadyIsNotStale
BY InitIInv, NextIInv, Shown, PTL DEF Spec
=============================================================================
