-------------------------- MODULE ConnectionProofs --------------------------
(***************************************************************************)
(* Proofs about the two ends of a client's connection: ClientSession in    *)
(* the daemon, for any number of clients, sockets, sessions, requests and  *)
(* keys, and ClientConnection in the client library.                       *)
(***************************************************************************)
EXTENDS ClientSession, ClientConnection, FiniteSetTheorems, SequenceTheorems, TLAPS

(* A socket that said hello belongs to a client; what was never used holds *)
(* nothing.                                                                *)
SocketsTracked ==
  /\ \A w \in Sockets : socket[w] # "new" => owner[w] \in Clients
  /\ \A w \in Sockets : sessions[w] # None => socket[w] = "bound"
  /\ \A s \in Sessions : state[s] = "unused" => client[s] = None /\ sockets[s] = {}

(* The part of TypeOK about sockets and sessions.                          *)
ConnTypeOK ==
  /\ socket \in [Sockets -> {"new", "pending", "bound", "gone"}]
  /\ owner \in [Sockets -> Clients \cup {None}]
  /\ sessions \in [Sockets -> Sessions \cup {None}]
  /\ byClient \in [Clients -> Sessions \cup {None}]
  /\ state \in [Sessions -> {"unused", "open", "ended"}]
  /\ client \in [Sessions -> Clients \cup {None}]
  /\ sockets \in [Sessions -> SUBSET Sockets]
  /\ grace \subseteq Sessions

ConnInv == ConnTypeOK /\ SocketsTracked /\ OneSessionPerClient /\ GraceExact

LEMMA ConnInit == Init => ConnInv
BY SessionAssumption DEF Init, ConnInv, ConnTypeOK, SocketsTracked, OneSessionPerClient, GraceExact

(* A bound socket's session is its client's open session.                  *)
LEMMA BoundIsOpen ==
  ASSUME ConnInv, NEW w \in Sockets, sessions[w] # None
  PROVE  /\ sessions[w] \in Sessions /\ state[sessions[w]] = "open"
         /\ owner[w] \in Clients /\ w \in sockets[sessions[w]]
BY SessionAssumption DEF ConnInv, ConnTypeOK, SocketsTracked, OneSessionPerClient

LEMMA ConnectConn ==
  ASSUME ConnInv, NEW w \in Sockets, NEW c \in Clients, Connect(w, c)
  PROVE  ConnInv'
BY SessionAssumption DEF Connect, ConnInv, ConnTypeOK, SocketsTracked, OneSessionPerClient, GraceExact

LEMMA RejectConn ==
  ASSUME ConnInv, NEW w \in Sockets, Reject(w) \/ PendingLost(w)
  PROVE  ConnInv'
BY SessionAssumption DEF Reject, PendingLost, ConnInv, ConnTypeOK, SocketsTracked, OneSessionPerClient, GraceExact

LEMMA ResumeConn ==
  ASSUME ConnInv, NEW w \in Sockets, HelloResumes(w)
  PROVE  ConnInv'
BY SessionAssumption DEF HelloResumes, Bind, Disarmed, ConnInv, ConnTypeOK, SocketsTracked, OneSessionPerClient, GraceExact

LEMMA CreateConn ==
  ASSUME ConnInv, NEW w \in Sockets, NEW s \in Sessions, HelloCreates(w, s)
  PROVE  ConnInv'
BY SessionAssumption DEF HelloCreates, Bind, ConnInv, ConnTypeOK, SocketsTracked, OneSessionPerClient, GraceExact

LEMMA LostConn ==
  ASSUME ConnInv, NEW w \in Sockets, SocketLost(w)
  PROVE  ConnInv'
BY SessionAssumption DEF SocketLost, Armed, ConnInv, ConnTypeOK, SocketsTracked, OneSessionPerClient, GraceExact

LEMMA GraceConn ==
  ASSUME ConnInv, NEW s \in Sessions, GraceEnds(s)
  PROVE  ConnInv'
BY SessionAssumption DEF GraceEnds, Forgotten, ConnInv, ConnTypeOK, SocketsTracked, OneSessionPerClient, GraceExact

(* No other step touches sockets and sessions.                             *)
LEMMA ConnStep == ConnInv /\ [Next]_vars => ConnInv'
<1> SUFFICES ASSUME ConnInv, [Next]_vars PROVE ConnInv'
  OBVIOUS
<1>1. CASE UNCHANGED connVars
  BY <1>1 DEF connVars, ConnInv, ConnTypeOK, SocketsTracked, OneSessionPerClient, GraceExact
<1>2. ASSUME NEW w \in Sockets, NEW m \in Messages, NEW k \in Keys \cup {None},
             Dispatch(w, m, k) \/ Refuse(w, m, k)
      PROVE  UNCHANGED connVars
  BY <1>2 DEF Dispatch, Refuse
<1>3. ASSUME NEW m \in Messages, Ends(m)
      PROVE  UNCHANGED connVars
  BY <1>3 DEF Ends
<1>4. CASE UNCHANGED vars
  BY <1>1, <1>4 DEF vars
<1> QED
  BY <1>1, <1>2, <1>3, <1>4, ConnectConn, RejectConn, ResumeConn, CreateConn, LostConn, GraceConn
     DEF Next
-----------------------------------------------------------------------------
(* The lanes.                                                              *)

(* The part of TypeOK about requests.                                      *)
LaneTypeOK ==
  /\ inflight \in [Sessions -> 0..Inflight]
  /\ lanes \in [Sessions -> [Keys -> Lane]]
  /\ message \in [Messages -> {"new", "waiting", "handling", "done", "refused"}]
  /\ place \in [Messages -> (Sessions \cup {None}) \X (Keys \cup {None})]

Under(s) == {m \in Messages : place[m][1] = s /\ message[m] \in {"waiting", "handling"}}

(* A queue holds requests that wait in it, each once, behind one that runs. *)
QueueHolds(s, k) ==
  LET q == lanes[s][k].queue IN
  /\ \A i \in 1..Len(q) : message[q[i]] = "waiting" /\ place[q[i]] = <<s, k>>
  /\ \A i, j \in 1..Len(q) : q[i] = q[j] => i = j
  /\ q # <<>> => lanes[s][k].running

(* A lane of an open session runs exactly while one of its requests is      *)
(* handled; a session that is not open has no lane.                        *)
LaneRuns(s, k) ==
  /\ state[s] = "open" => (lanes[s][k].running <=> Of(s, k, "handling") # {})
  /\ state[s] # "open" => lanes[s][k] = Idle

Waits(m) ==
  /\ place[m][1] \in Sessions /\ place[m][2] \in Keys
  /\ \E i \in 1..Len(lanes[place[m][1]][place[m][2]].queue) :
       lanes[place[m][1]][place[m][2]].queue[i] = m

LaneParts ==
  /\ \A s \in Sessions, k \in Keys : QueueHolds(s, k) /\ LaneRuns(s, k)
  /\ \A m \in Messages : message[m] = "waiting" => Waits(m)
  /\ \A m \in Messages : message[m] = "handling" =>
       place[m][1] \in Sessions /\ state[place[m][1]] # "unused"
  /\ \A m, n \in Messages :
       /\ message[m] = "handling" /\ message[n] = "handling"
       /\ place[m] = place[n] /\ place[m][2] # None
       => m = n

Counted == \A s \in Sessions : inflight[s] = Cardinality(Under(s))

LaneInv == LaneTypeOK /\ LaneParts /\ Counted

IInv == ConnInv /\ LaneInv

LEMMA CountedIsExact == Counted <=> InflightExact
BY DEF Counted, InflightExact, Under

LEMMA UnderFinite == \A s : IsFiniteSet(Under(s)) /\ Cardinality(Under(s)) \in Nat
BY SessionAssumption, FS_Subset, FS_CardinalityType DEF Under

LEMMA IdleIsLane == Idle \in Lane
BY DEF Idle, Lane

(* What entering and leaving a lane leave of it.                            *)
LEMMA ScheduledLane ==
  ASSUME NEW l \in Lane, NEW m \in Messages
  PROVE  /\ Scheduled(l, m) \in Lane
         /\ Enters(l) => Scheduled(l, m).running /\ Scheduled(l, m).queue = <<>>
         /\ ~Enters(l) => /\ Scheduled(l, m).running = l.running
                          /\ Scheduled(l, m).queue = Append(l.queue, m)
<1>1. l.running \in BOOLEAN /\ l.queue \in Seq(Messages)
  BY DEF Lane
<1>2. Append(l.queue, m) \in Seq(Messages)
  BY <1>1
<1>3. CASE Enters(l)
  BY <1>1, <1>3 DEF Scheduled, Enters, Lane
<1>4. CASE ~Enters(l)
  BY <1>1, <1>2, <1>4 DEF Scheduled, Lane
<1> QED
  BY <1>3, <1>4

LEMMA ReleasedLane ==
  ASSUME NEW l \in Lane
  PROVE  /\ Released(l) \in Lane
         /\ l.queue = <<>> => Released(l) = Idle
         /\ l.queue # <<>> => /\ Released(l).running = l.running
                             /\ Released(l).queue = Tail(l.queue)
BY HeadTailProperties DEF Released, Idle, Lane

LEMMA LaneInit == Init => LaneInv
<1> SUFFICES ASSUME Init PROVE LaneInv
  OBVIOUS
<1>1. LaneTypeOK
  BY SessionAssumption, IdleIsLane DEF Init, LaneTypeOK
<1>2. LaneParts
  BY SessionAssumption DEF Init, LaneParts, QueueHolds, LaneRuns, Of, Idle
<1>3. \A s \in Sessions : Under(s) = {}
  BY DEF Init, Under
<1>4. Counted
  BY <1>3, FS_EmptySet DEF Init, Counted
<1> QED
  BY <1>1, <1>2, <1>4 DEF LaneInv

(* A step that leaves the requests alone and opens at most a session that   *)
(* was never used keeps the lanes as they were.                            *)
LEMMA OthersLane ==
  ASSUME LaneInv, UNCHANGED laneVars,
         \A s \in Sessions : state'[s] = state[s] \/ (state[s] = "unused" /\ state'[s] = "open")
  PROVE  LaneInv'
<1>1. LaneTypeOK'
  BY DEF LaneInv, LaneTypeOK, laneVars
<1>2. \A s : Under(s)' = Under(s)
  BY DEF Under, laneVars
<1>3. Counted'
  BY <1>2 DEF LaneInv, Counted, laneVars
<1>4. ASSUME NEW s \in Sessions, NEW k \in Keys
      PROVE  QueueHolds(s, k)' /\ LaneRuns(s, k)'
  <2>1. QueueHolds(s, k)'
    BY DEF LaneInv, LaneParts, QueueHolds, laneVars
  <2>2. Of(s, k, "handling")' = Of(s, k, "handling")
    BY DEF Of, laneVars
  <2>3. state[s] = "unused" => Of(s, k, "handling") = {} /\ ~lanes[s][k].running
    BY DEF LaneInv, LaneParts, LaneRuns, Of, Idle
  <2>4. LaneRuns(s, k)'
    BY <2>2, <2>3 DEF LaneInv, LaneParts, LaneRuns, laneVars
  <2> QED
    BY <2>1, <2>4
<1>5. \A m \in Messages : message'[m] = "waiting" => Waits(m)'
  BY DEF LaneInv, LaneParts, Waits, laneVars
<1>6. LaneParts'
  BY <1>4, <1>5 DEF LaneInv, LaneParts, laneVars
<1> QED
  BY <1>1, <1>3, <1>6 DEF LaneInv

(* What a step that handles requests disturbs is one lane of one session.   *)
LEMMA RefuseLane ==
  ASSUME LaneInv, NEW w \in Sockets, NEW m \in Messages, NEW k \in Keys \cup {None},
         Refuse(w, m, k)
  PROVE  LaneInv'
<1>1. LaneTypeOK'
  BY DEF LaneInv, LaneTypeOK, Refuse
<1>2. \A s : Under(s)' = Under(s)
  BY DEF Refuse, Under, LaneInv, LaneTypeOK
<1>3. \A s, j : Of(s, j, "handling")' = Of(s, j, "handling")
  BY DEF Refuse, Of, LaneInv, LaneTypeOK
<1>4. \A s \in Sessions, j \in Keys : QueueHolds(s, j)' /\ LaneRuns(s, j)'
  <2> SUFFICES ASSUME NEW s \in Sessions, NEW j \in Keys
               PROVE  QueueHolds(s, j)' /\ LaneRuns(s, j)'
    OBVIOUS
  <2>1. lanes[s][j].queue \in Seq(Messages)
    BY DEF LaneInv, LaneTypeOK, Lane
  <2>2. QueueHolds(s, j)'
    BY <2>1, ElementOfSeq DEF LaneInv, LaneTypeOK, LaneParts, QueueHolds, Refuse
  <2> QED
    BY <1>3, <2>2 DEF LaneInv, LaneParts, LaneRuns, Refuse, connVars
<1>5. \A n \in Messages : message'[n] = "waiting" => Waits(n)'
  BY DEF LaneInv, LaneTypeOK, LaneParts, Waits, Refuse
<1>6. LaneParts'
  BY <1>4, <1>5 DEF LaneInv, LaneTypeOK, LaneParts, Refuse, connVars
<1>7. Counted'
  BY <1>2 DEF LaneInv, Counted, Refuse
<1> QED
  BY <1>1, <1>6, <1>7 DEF LaneInv

LEMMA DispatchLane ==
  ASSUME ConnInv, LaneInv,
         NEW w \in Sockets, NEW m \in Messages, NEW k \in Keys \cup {None},
         Dispatch(w, m, k)
  PROVE  LaneInv'
<1>1. PICK s \in Sessions : /\ s = sessions[w] /\ state[s] = "open" /\ state' = state /\ s # None
                           /\ message[m] = "new"
  BY BoundIsOpen, SessionAssumption DEF Dispatch, connVars
<1> DEFINE q == lanes[s][k].queue
<1>2. inflight[s] < Inflight /\ inflight' = [inflight EXCEPT ![s] = @ + 1]
  BY <1>1, SessionAssumption DEF Dispatch, Overloaded, LaneInv, LaneTypeOK
<1>3. /\ place' = [place EXCEPT ![m] = <<s, k>>]
      /\ message' = [message EXCEPT ![m] = IF k = None \/ Enters(lanes[s][k]) THEN "handling" ELSE "waiting"]
      /\ lanes' = IF k = None THEN lanes ELSE [lanes EXCEPT ![s][k] = Scheduled(@, m)]
  BY <1>1 DEF Dispatch
<1>k. k # None => k \in Keys
  OBVIOUS
<1>n. None \notin Keys
  BY SessionAssumption
<1>4. ASSUME k # None
      PROVE  /\ lanes[s][k] \in Lane /\ q \in Seq(Messages)
             /\ Scheduled(lanes[s][k], m) \in Lane
             /\ QueueHolds(s, k) /\ LaneRuns(s, k)
  <2>1. k \in Keys /\ lanes[s][k] \in Lane /\ q \in Seq(Messages)
    BY <1>1, <1>4 DEF LaneInv, LaneTypeOK, Lane
  <2>3. Scheduled(lanes[s][k], m) \in Lane
    BY <2>1, ScheduledLane
  <2> QED
    BY <1>1, <2>1, <2>3 DEF LaneInv, LaneParts
<1>5. LaneTypeOK'
  <2>1. inflight' \in [Sessions -> 0..Inflight]
    BY <1>1, <1>2, SessionAssumption DEF LaneInv, LaneTypeOK
  <2>2. lanes' \in [Sessions -> [Keys -> Lane]]
    BY <1>1, <1>3, <1>4 DEF LaneInv, LaneTypeOK
  <2> QED
    BY <1>1, <1>3, <2>1, <2>2 DEF LaneInv, LaneTypeOK
<1>6. Counted'
  <2>1. Under(s)' = Under(s) \cup {m} /\ m \notin Under(s)
    BY <1>1, <1>3 DEF Under, LaneInv, LaneTypeOK
  <2>2. \A t \in Sessions : t # s => Under(t)' = Under(t)
    BY <1>1, <1>3 DEF Under, LaneInv, LaneTypeOK
  <2>3. Cardinality(Under(s)') = Cardinality(Under(s)) + 1
    BY <2>1, UnderFinite, FS_AddElement
  <2> QED
    BY <1>1, <1>2, <2>2, <2>3 DEF Counted, LaneInv, LaneTypeOK
<1>7. ASSUME NEW t \in Sessions, NEW j \in Keys, <<t, j>> # <<s, k>>
      PROVE  lanes'[t][j] = lanes[t][j] /\ Of(t, j, "handling")' = Of(t, j, "handling")
  <2>1. lanes'[t][j] = lanes[t][j]
    BY <1>1, <1>3, <1>7 DEF LaneInv, LaneTypeOK
  <2>2. Of(t, j, "handling")' = Of(t, j, "handling")
    BY <1>1, <1>3, <1>7 DEF LaneInv, LaneTypeOK, Of
  <2> QED
    BY <2>1, <2>2
<1>8. ASSUME NEW t \in Sessions, NEW j \in Keys, <<t, j>> # <<s, k>>
      PROVE  QueueHolds(t, j)' /\ LaneRuns(t, j)'
  <2>1. lanes[t][j].queue \in Seq(Messages)
    BY DEF LaneInv, LaneTypeOK, Lane
  <2>2. QueueHolds(t, j) /\ LaneRuns(t, j)
    BY DEF LaneInv, LaneParts
  <2>3. QueueHolds(t, j)'
    <3> DEFINE p == lanes[t][j].queue
    <3>1. \A i \in 1..Len(p) : p[i] \in Messages /\ p[i] # m
      BY <1>1, <2>1, <2>2, ElementOfSeq DEF QueueHolds
    <3>2. \A i \in 1..Len(p) : message'[p[i]] = "waiting" /\ place'[p[i]] = <<t, j>>
      BY <1>3, <2>2, <3>1 DEF QueueHolds, LaneInv, LaneTypeOK
    <3>3. lanes'[t][j] = lanes[t][j]
      BY <1>7, <1>8
    <3> QED
      BY <2>2, <3>2, <3>3 DEF QueueHolds
  <2>4. LaneRuns(t, j)'
    BY <1>1, <1>7, <1>8, <2>2 DEF LaneRuns
  <2> QED
    BY <2>3, <2>4
<1>9. ASSUME k # None
      PROVE  QueueHolds(s, k)' /\ LaneRuns(s, k)'
  <2>1. lanes'[s][k] = Scheduled(lanes[s][k], m)
    BY <1>1, <1>3, <1>9 DEF LaneInv, LaneTypeOK
  <2>2. CASE Enters(lanes[s][k])
    <3>1. lanes'[s][k].running = TRUE /\ lanes'[s][k].queue = <<>>
      BY <1>4, <1>9, <2>1, <2>2, ScheduledLane
    <3>2. m \in Of(s, k, "handling")'
      BY <1>1, <1>3, <2>2 DEF Of, LaneInv, LaneTypeOK
    <3> QED
      BY <1>1, <3>1, <3>2 DEF QueueHolds, LaneRuns
  <2>3. CASE ~Enters(lanes[s][k])
    <3>1. lanes'[s][k].running = lanes[s][k].running /\ lanes'[s][k].queue = Append(q, m)
      BY <1>4, <1>9, <2>1, <2>3, ScheduledLane
    <3>2. lanes[s][k].running
      BY <1>4, <1>9, <2>3 DEF Enters, QueueHolds
    <3>3. message'[m] = "waiting" /\ place'[m] = <<s, k>>
      BY <1>1, <1>3, <1>9, <2>3 DEF LaneInv, LaneTypeOK
    <3>4. \A i \in 1..Len(q) : q[i] \in Messages /\ q[i] # m
      BY <1>1, <1>4, <1>9, ElementOfSeq DEF QueueHolds
    <3>5. Len(Append(q, m)) = Len(q) + 1 /\ Len(q) \in Nat
      BY <1>4, <1>9
    <3>6. \A i \in 1..Len(q) + 1 : Append(q, m)[i] = IF i = Len(q) + 1 THEN m ELSE q[i]
      BY <1>4, <1>9
    <3>7. QueueHolds(s, k)'
      <4>1. \A i \in 1..Len(q) : message'[q[i]] = "waiting" /\ place'[q[i]] = <<s, k>>
        BY <1>3, <1>4, <1>9, <3>4 DEF QueueHolds, LaneInv, LaneTypeOK
      <4>2. \A i \in 1..Len(q) + 1 : /\ message'[Append(q, m)[i]] = "waiting"
                                    /\ place'[Append(q, m)[i]] = <<s, k>>
        BY <3>3, <3>5, <3>6, <4>1
      <4>3. \A i, j \in 1..Len(q) + 1 : Append(q, m)[i] = Append(q, m)[j] => i = j
        <5> SUFFICES ASSUME NEW i \in 1..Len(q) + 1, NEW j \in 1..Len(q) + 1,
                            Append(q, m)[i] = Append(q, m)[j]
                     PROVE  i = j
          OBVIOUS
        <5>1. \A a, b \in 1..Len(q) : q[a] = q[b] => a = b
          BY <1>4, <1>9 DEF QueueHolds
        <5>2. CASE i = Len(q) + 1 \/ j = Len(q) + 1
          BY <3>4, <3>5, <3>6, <5>2
        <5>3. CASE i \in 1..Len(q) /\ j \in 1..Len(q)
          BY <3>5, <3>6, <5>1, <5>3
        <5> QED
          BY <3>5, <5>2, <5>3
      <4> QED
        BY <3>1, <3>2, <3>5, <4>2, <4>3 DEF QueueHolds
    <3>8. Of(s, k, "handling")' = Of(s, k, "handling")
      BY <1>1, <1>3, <1>9, <2>3 DEF Of, LaneInv, LaneTypeOK
    <3>9. LaneRuns(s, k)'
      BY <1>1, <1>4, <1>9, <3>1, <3>8 DEF LaneRuns
    <3> QED
      BY <3>7, <3>9
  <2> QED
    BY <2>2, <2>3
<1>10. ASSUME NEW n \in Messages, message'[n] = "waiting"
       PROVE  Waits(n)'
  <2>1. CASE n = m
    <3>1. k # None /\ k \in Keys /\ ~Enters(lanes[s][k]) /\ place'[n] = <<s, k>>
      BY <1>1, <1>3, <1>10, <1>k, <2>1 DEF LaneInv, LaneTypeOK
    <3>2. lanes'[s][k].queue = Append(q, m)
      BY <1>1, <1>3, <1>4, <3>1, ScheduledLane DEF LaneInv, LaneTypeOK
    <3>3. Len(Append(q, m)) \in 1..Len(Append(q, m)) /\ Append(q, m)[Len(Append(q, m))] = m
      BY <1>4, <3>1
    <3> QED
      BY <1>1, <2>1, <3>1, <3>2, <3>3 DEF Waits
  <2>2. CASE n # m
    <3> DEFINE t == place[n][1]
               j == place[n][2]
    <3>1. Waits(n) /\ place'[n] = place[n]
      BY <1>3, <1>10, <2>2 DEF LaneInv, LaneTypeOK, LaneParts
    <3>2. t \in Sessions /\ j \in Keys
      BY <3>1 DEF Waits
    <3>3. PICK i \in 1..Len(lanes[t][j].queue) : lanes[t][j].queue[i] = n
      BY <3>1 DEF Waits
    <3>4. lanes[t][j].queue \in Seq(Messages)
      BY <3>2 DEF LaneInv, LaneTypeOK, Lane
    <3>5. CASE <<t, j>> # <<s, k>>
      BY <1>7, <3>1, <3>2, <3>3, <3>5 DEF Waits
    <3>6. CASE <<t, j>> = <<s, k>>
      <4>1. t = s /\ j = k /\ k # None
        BY <3>2, <3>6, <1>n
      <4>2. lanes'[s][k].queue = q \/ lanes'[s][k].queue = Append(q, m)
        <5>1. lanes'[s][k] = Scheduled(lanes[s][k], m)
          BY <1>1, <1>3, <4>1 DEF LaneInv, LaneTypeOK
        <5>2. Enters(lanes[s][k]) => q = <<>>
          BY DEF Enters
        <5>3. lanes[s][k] \in Lane
          BY <1>4, <4>1
        <5>4. CASE Enters(lanes[s][k])
          BY <5>1, <5>2, <5>3, <5>4, ScheduledLane
        <5>5. CASE ~Enters(lanes[s][k])
          BY <5>1, <5>3, <5>5, ScheduledLane
        <5> QED
          BY <5>4, <5>5
      <4>3. i \in 1..Len(q) /\ q[i] = n /\ q \in Seq(Messages)
        BY <3>3, <3>4, <4>1
      <4>4. i \in 1..Len(Append(q, m)) /\ Append(q, m)[i] = n
        BY <4>3
      <4>5. i \in 1..Len(lanes'[s][k].queue) /\ lanes'[s][k].queue[i] = n
        BY <4>2, <4>3, <4>4
      <4> QED
        BY <1>1, <3>1, <3>2, <4>1, <4>5 DEF Waits
    <3> QED
      BY <3>5, <3>6
  <2> QED
    BY <2>1, <2>2
<1>11. \A n \in Messages : message'[n] = "handling" =>
         place'[n][1] \in Sessions /\ state'[place'[n][1]] # "unused"
  BY <1>1, <1>3 DEF LaneInv, LaneTypeOK, LaneParts
<1>12. \A n, o \in Messages :
         /\ message'[n] = "handling" /\ message'[o] = "handling"
         /\ place'[n] = place'[o] /\ place'[n][2] # None
         => n = o
  <2> SUFFICES ASSUME NEW n \in Messages, NEW o \in Messages,
                      message'[n] = "handling", message'[o] = "handling",
                      place'[n] = place'[o], place'[n][2] # None, n # o, n = m \/ o = m
               PROVE  FALSE
    BY <1>3 DEF LaneInv, LaneTypeOK, LaneParts
  <2>1. PICK p \in Messages : p # m /\ message'[p] = "handling" /\ place'[p] = place'[m]
    OBVIOUS
  <2>2. place'[m] = <<s, k>> /\ k # None /\ message'[m] = "handling"
    BY <1>3 DEF LaneInv, LaneTypeOK
  <2>3. Enters(lanes[s][k])
    BY <1>3, <2>2 DEF LaneInv, LaneTypeOK
  <2>4. p \in Of(s, k, "handling")
    BY <1>3, <2>1, <2>2 DEF Of, LaneInv, LaneTypeOK
  <2> QED
    BY <1>1, <1>4, <2>2, <2>3, <2>4 DEF LaneRuns, Enters
<1>13. \A t \in Sessions, j \in Keys : QueueHolds(t, j)' /\ LaneRuns(t, j)'
  <2> SUFFICES ASSUME NEW t \in Sessions, NEW j \in Keys
               PROVE  QueueHolds(t, j)' /\ LaneRuns(t, j)'
    OBVIOUS
  <2>1. CASE <<t, j>> # <<s, k>>
    BY <1>8, <2>1
  <2>2. CASE t = s /\ j = k
    BY <1>9, <1>n, <2>2
  <2> QED
    BY <2>1, <2>2
<1>14. LaneParts'
  BY <1>10, <1>11, <1>12, <1>13 DEF LaneParts
<1> QED
  BY <1>5, <1>6, <1>14 DEF LaneInv

LEMMA EndsLane ==
  ASSUME LaneInv, NEW m \in Messages, Ends(m)
  PROVE  LaneInv'
<1>1. PICK s \in Sessions, k \in Keys \cup {None} : place[m] = <<s, k>> /\ state[s] # "unused"
  BY DEF Ends, LaneInv, LaneTypeOK, LaneParts
<1> DEFINE keyed == k # None /\ state[s] = "open"
           q == lanes[s][k].queue
           next == IF keyed /\ q # <<>> THEN Head(q) ELSE m
<1>2. /\ message[m] = "handling" /\ state' = state /\ place' = place
      /\ inflight' = [inflight EXCEPT ![s] = @ - 1]
      /\ lanes' = IF keyed THEN [lanes EXCEPT ![s][k] = Released(@)] ELSE lanes
      /\ message' = [n \in Messages |-> IF n = m THEN "done"
                                       ELSE IF n = next /\ Released(lanes[s][k]) # Idle THEN "handling"
                                       ELSE message[n]]
  BY <1>1 DEF Ends, connVars
<1>n. None \notin Keys
  BY SessionAssumption
<1>3. ASSUME keyed
      PROVE  /\ k \in Keys /\ lanes[s][k] \in Lane /\ q \in Seq(Messages)
             /\ QueueHolds(s, k) /\ lanes[s][k].running
             /\ Of(s, k, "handling") = {m}
  <2>1. k \in Keys /\ lanes[s][k] \in Lane /\ q \in Seq(Messages)
    BY <1>1, <1>3 DEF LaneInv, LaneTypeOK, Lane
  <2>2. QueueHolds(s, k) /\ LaneRuns(s, k)
    BY <2>1 DEF LaneInv, LaneParts
  <2>3. Of(s, k, "handling") = {m}
    BY <1>1, <1>2, <1>3 DEF LaneInv, LaneParts, Of
  <2> QED
    BY <1>3, <2>1, <2>2, <2>3 DEF LaneRuns
<1>4. ASSUME keyed, q # <<>>
      PROVE  /\ next = q[1] /\ next \in Messages /\ next # m
             /\ message[next] = "waiting" /\ place[next] = <<s, k>>
             /\ Released(lanes[s][k]) # Idle
             /\ Released(lanes[s][k]).running /\ Released(lanes[s][k]).queue = Tail(q)
  <2>1. 1 \in 1..Len(q) /\ Head(q) = q[1] /\ Head(q) \in Messages
    BY <1>3, <1>4, HeadTailProperties, LenProperties
  <2>2. message[q[1]] = "waiting" /\ place[q[1]] = <<s, k>>
    BY <1>3, <1>4, <2>1 DEF QueueHolds
  <2>3. Released(lanes[s][k]).running /\ Released(lanes[s][k]).queue = Tail(q)
    BY <1>3, <1>4, ReleasedLane
  <2> QED
    BY <1>2, <1>4, <2>1, <2>2, <2>3 DEF Idle
<1>5. ASSUME ~(keyed /\ q # <<>>)
      PROVE  next = m
  BY <1>5
<1>6. \A n \in Messages : message'[n] = IF n = m THEN "done"
                                       ELSE IF n = next THEN "handling" ELSE message[n]
  BY <1>2, <1>4, <1>5
<1> HIDE DEF next
<1>7. LaneTypeOK' /\ Counted'
  <2>1. Under(s)' = Under(s) \ {m} /\ m \in Under(s)
    BY <1>1, <1>2, <1>4, <1>5, <1>6 DEF Under
  <2>2. \A t \in Sessions : t # s => Under(t)' = Under(t)
    BY <1>1, <1>2, <1>4, <1>5, <1>6 DEF Under
  <2>3. Cardinality(Under(s)') = Cardinality(Under(s)) - 1 /\ Cardinality(Under(s)) \in Nat
    BY <2>1, UnderFinite, FS_RemoveElement
  <2>4. Cardinality(Under(s)') \in Nat
    BY <2>1, UnderFinite, FS_RemoveElement, FS_CardinalityType
  <2>5. inflight[s] = Cardinality(Under(s)) /\ inflight[s] \in 0..Inflight
    BY <1>1 DEF LaneInv, LaneTypeOK, Counted
  <2>6. inflight[s] - 1 \in 0..Inflight
    BY <2>3, <2>4, <2>5, SessionAssumption
  <2>7. inflight' \in [Sessions -> 0..Inflight]
    BY <1>2, <2>6 DEF LaneInv, LaneTypeOK
  <2>8. lanes' \in [Sessions -> [Keys -> Lane]]
    BY <1>2, <1>3, ReleasedLane DEF LaneInv, LaneTypeOK
  <2>9. message' \in [Messages -> {"new", "waiting", "handling", "done", "refused"}]
    BY <1>2 DEF LaneInv, LaneTypeOK
  <2>10. Counted'
    BY <1>2, <2>2, <2>3, <2>5 DEF LaneInv, LaneTypeOK, Counted
  <2> QED
    BY <1>2, <2>7, <2>8, <2>9, <2>10 DEF LaneInv, LaneTypeOK
<1>8. ASSUME NEW t \in Sessions, NEW j \in Keys, ~(keyed /\ t = s /\ j = k)
      PROVE  QueueHolds(t, j)' /\ LaneRuns(t, j)'
  <2> DEFINE p == lanes[t][j].queue
  <2>1. QueueHolds(t, j) /\ LaneRuns(t, j) /\ p \in Seq(Messages)
    BY DEF LaneInv, LaneParts, LaneTypeOK, Lane
  <2>2. lanes'[t][j] = lanes[t][j]
    BY <1>1, <1>2, <1>8 DEF LaneInv, LaneTypeOK
  <2>3. \A i \in 1..Len(p) : p[i] \in Messages /\ p[i] # m
    BY <1>2, <2>1, ElementOfSeq DEF QueueHolds
  <2>4. \A i \in 1..Len(p) : p[i] # next
    BY <1>3, <1>4, <1>5, <1>8, <2>1, <2>3 DEF QueueHolds
  <2>5. QueueHolds(t, j)'
    <3>1. \A i \in 1..Len(p) : message'[p[i]] = "waiting" /\ place'[p[i]] = <<t, j>>
      BY <1>2, <1>6, <2>1, <2>3, <2>4 DEF QueueHolds
    <3> QED
      BY <2>1, <2>2, <3>1 DEF QueueHolds
  <2>6. CASE state[t] = "open"
    <3>1. ~(t = s /\ j = k)
      BY <1>8, <1>n, <2>6
    <3>2. Of(t, j, "handling")' = Of(t, j, "handling")
      BY <1>1, <1>2, <1>3, <1>4, <1>5, <1>6, <3>1 DEF Of
    <3> QED
      BY <1>2, <2>1, <2>2, <2>5, <2>6, <3>2 DEF LaneRuns
  <2>7. CASE state[t] # "open"
    BY <1>2, <2>1, <2>2, <2>5, <2>7 DEF LaneRuns
  <2> QED
    BY <2>6, <2>7
<1>9. ASSUME keyed
      PROVE  QueueHolds(s, k)' /\ LaneRuns(s, k)'
  <2>1. lanes'[s][k] = Released(lanes[s][k])
    BY <1>2, <1>3, <1>9 DEF LaneInv, LaneTypeOK
  <2>2. CASE q = <<>>
    <3>1. lanes'[s][k] = Idle
      BY <1>3, <1>9, <2>1, <2>2, ReleasedLane
    <3>2. Of(s, k, "handling")' = {}
      BY <1>2, <1>3, <1>5, <1>6, <1>9, <2>2 DEF Of
    <3> QED
      BY <3>1, <3>2 DEF QueueHolds, LaneRuns, Idle
  <2>3. CASE q # <<>>
    <3>1. lanes'[s][k].running /\ lanes'[s][k].queue = Tail(q)
      BY <1>4, <1>9, <2>1, <2>3
    <3>2. next \in Of(s, k, "handling")'
      BY <1>2, <1>4, <1>6, <1>9, <2>3 DEF Of
    <3>3. LaneRuns(s, k)'
      BY <1>2, <1>9, <3>1, <3>2 DEF LaneRuns
    <3>4. /\ Len(Tail(q)) = Len(q) - 1 /\ Len(q) \in Nat
          /\ \A i \in 1..Len(Tail(q)) : Tail(q)[i] = q[i + 1]
      BY <1>3, <1>9, <2>3, HeadTailProperties, LenProperties
    <3>5. \A i \in 1..Len(q) : q[i] \in Messages
      BY <1>3, <1>9, ElementOfSeq
    <3>6. /\ \A i \in 1..Len(q) : message[q[i]] = "waiting" /\ place[q[i]] = <<s, k>>
          /\ \A i, j \in 1..Len(q) : q[i] = q[j] => i = j
      BY <1>3, <1>9 DEF QueueHolds
    <3>7. ASSUME NEW i \in 1..Len(Tail(q))
          PROVE  message'[Tail(q)[i]] = "waiting" /\ place'[Tail(q)[i]] = <<s, k>>
      <4>1. i + 1 \in 1..Len(q) /\ i + 1 # 1 /\ 1 \in 1..Len(q)
        BY <3>4
      <4>2. q[i + 1] # next /\ q[i + 1] # m
        BY <1>2, <1>4, <1>9, <2>3, <3>6, <4>1
      <4> QED
        BY <1>2, <1>6, <3>4, <3>5, <3>6, <4>1, <4>2
    <3>8. ASSUME NEW i \in 1..Len(Tail(q)), NEW j \in 1..Len(Tail(q)), Tail(q)[i] = Tail(q)[j]
          PROVE  i = j
      <4>1. i + 1 \in 1..Len(q) /\ j + 1 \in 1..Len(q)
        BY <3>4
      <4>2. q[i + 1] = q[j + 1]
        BY <3>4, <3>8
      <4> QED
        BY <3>6, <4>1, <4>2
    <3>9. QueueHolds(s, k)'
      BY <3>1, <3>7, <3>8 DEF QueueHolds
    <3> QED
      BY <3>3, <3>9
  <2> QED
    BY <2>2, <2>3
<1>10. ASSUME NEW n \in Messages, message'[n] = "waiting"
       PROVE  Waits(n)'
  <2> DEFINE t == place[n][1]
             j == place[n][2]
  <2>1. Waits(n) /\ n # next /\ n # m /\ place'[n] = place[n]
    BY <1>2, <1>6, <1>10 DEF LaneInv, LaneParts
  <2>2. t \in Sessions /\ j \in Keys /\ lanes[t][j].queue \in Seq(Messages)
    BY <2>1 DEF Waits, LaneInv, LaneTypeOK, Lane
  <2>3. PICK i \in 1..Len(lanes[t][j].queue) : lanes[t][j].queue[i] = n
    BY <2>1 DEF Waits
  <2>4. CASE ~(keyed /\ t = s /\ j = k)
    <3>1. lanes'[t][j] = lanes[t][j]
      BY <1>1, <1>2, <2>2, <2>4 DEF LaneInv, LaneTypeOK
    <3> QED
      BY <2>1, <2>2, <2>3, <3>1 DEF Waits
  <2>5. CASE keyed /\ t = s /\ j = k
    <3>1. q # <<>> /\ i \in 1..Len(q) /\ q[i] = n
      BY <2>2, <2>3, <2>5
    <3>2. i # 1
      BY <1>4, <2>1, <2>5, <3>1
    <3>3. lanes'[s][k].queue = Tail(q)
      BY <1>2, <1>3, <1>4, <2>5, <3>1 DEF LaneInv, LaneTypeOK
    <3>4. i - 1 \in 1..Len(Tail(q)) /\ Tail(q)[i - 1] = n
      BY <1>3, <2>5, <3>1, <3>2, HeadTailProperties, LenProperties
    <3> QED
      BY <2>1, <2>2, <2>5, <3>3, <3>4 DEF Waits
  <2> QED
    BY <2>4, <2>5
<1>11. \A n \in Messages : message'[n] = "handling" =>
         place'[n][1] \in Sessions /\ state'[place'[n][1]] # "unused"
  BY <1>1, <1>2, <1>4, <1>5, <1>6 DEF LaneInv, LaneTypeOK, LaneParts
<1>12. ASSUME NEW n \in Messages, NEW o \in Messages,
              message'[n] = "handling", message'[o] = "handling",
              place'[n] = place'[o], place'[n][2] # None
       PROVE  n = o
  <2>1. n # m /\ o # m
    BY <1>6, <1>12
  <2>2. CASE n # next /\ o # next
    BY <1>2, <1>6, <1>12, <2>1, <2>2 DEF LaneInv, LaneParts
  <2>3. ASSUME NEW p \in Messages, p # m, p # next, message'[p] = "handling",
               place'[p] = place'[next], next # m
        PROVE  FALSE
    <3>1. keyed /\ q # <<>>
      BY <1>5, <2>3
    <3>2. message[p] = "handling" /\ place[p] = <<s, k>> /\ k # None
      BY <1>2, <1>4, <1>6, <2>3, <3>1
    <3> QED
      BY <1>1, <1>2, <2>3, <3>2 DEF LaneInv, LaneParts
  <2> QED
    BY <1>12, <2>1, <2>2, <2>3
<1>13. \A t \in Sessions, j \in Keys : QueueHolds(t, j)' /\ LaneRuns(t, j)'
  BY <1>8, <1>9
<1>14. LaneParts'
  BY <1>10, <1>11, <1>12, <1>13 DEF LaneParts
<1> QED
  BY <1>7, <1>14 DEF LaneInv

LEMMA GraceLane ==
  ASSUME ConnInv, LaneInv, NEW s \in Sessions, GraceEnds(s)
  PROVE  LaneInv'
<1>1. /\ state[s] = "open" /\ state' = [state EXCEPT ![s] = "ended"] /\ place' = place
      /\ lanes' = [lanes EXCEPT ![s] = [k \in Keys |-> Idle]]
      /\ message' = [m \in Messages |-> IF m \in Rejected(s) THEN "refused" ELSE message[m]]
      /\ inflight' = [inflight EXCEPT ![s] = @ - Cardinality(Rejected(s))]
  BY DEF GraceEnds, Uncounted, ConnInv, GraceExact
<1>2. LaneTypeOK' /\ Counted'
  <2>1. Under(s)' = Under(s) \ Rejected(s) /\ Rejected(s) \subseteq Under(s)
    BY <1>1 DEF Under, Rejected
  <2>2. \A t \in Sessions : t # s => Under(t)' = Under(t)
    BY <1>1 DEF Under, Rejected
  <2>3. IsFiniteSet(Rejected(s)) /\ IsFiniteSet(Under(s) \ Rejected(s))
    BY <2>1, UnderFinite, FS_Subset, FS_Difference
  <2>4. Cardinality(Under(s)') = Cardinality(Under(s)) - Cardinality(Rejected(s))
    <3>1. Under(s) \cap Rejected(s) = Rejected(s)
      BY <2>1
    <3> QED
      BY <2>1, <3>1, UnderFinite, FS_Difference
  <2>5. /\ Cardinality(Under(s)') \in Nat /\ Cardinality(Rejected(s)) \in Nat
        /\ inflight[s] = Cardinality(Under(s)) /\ inflight[s] \in 0..Inflight
    BY <2>1, <2>3, FS_CardinalityType DEF LaneInv, LaneTypeOK, Counted
  <2>6. inflight[s] - Cardinality(Rejected(s)) \in 0..Inflight
    BY <2>4, <2>5, SessionAssumption
  <2>7. inflight' \in [Sessions -> 0..Inflight]
    BY <1>1, <2>6 DEF LaneInv, LaneTypeOK
  <2>8. lanes' \in [Sessions -> [Keys -> Lane]]
    BY <1>1, IdleIsLane DEF LaneInv, LaneTypeOK
  <2>9. message' \in [Messages -> {"new", "waiting", "handling", "done", "refused"}]
    BY <1>1 DEF LaneInv, LaneTypeOK
  <2>10. Counted'
    BY <1>1, <2>2, <2>4, <2>5 DEF LaneInv, LaneTypeOK, Counted
  <2> QED
    BY <1>1, <2>7, <2>8, <2>9, <2>10 DEF LaneInv, LaneTypeOK
<1>3. ASSUME NEW t \in Sessions, NEW j \in Keys
      PROVE  QueueHolds(t, j)' /\ LaneRuns(t, j)'
  <2>1. CASE t = s
    <3>1. lanes'[t][j] = Idle /\ state'[t] # "open"
      BY <1>1, <2>1 DEF LaneInv, LaneTypeOK, ConnInv, ConnTypeOK
    <3> QED
      BY <3>1 DEF QueueHolds, LaneRuns, Idle
  <2>2. CASE t # s
    <3> DEFINE p == lanes[t][j].queue
    <3>1. QueueHolds(t, j) /\ LaneRuns(t, j) /\ p \in Seq(Messages)
      BY DEF LaneInv, LaneParts, LaneTypeOK, Lane
    <3>2. lanes'[t][j] = lanes[t][j] /\ state'[t] = state[t]
      BY <1>1, <2>2 DEF LaneInv, LaneTypeOK, ConnInv, ConnTypeOK
    <3>3. \A i \in 1..Len(p) : p[i] \in Messages /\ p[i] \notin Rejected(s)
      <4> SUFFICES ASSUME NEW i \in 1..Len(p) PROVE p[i] \in Messages /\ p[i] \notin Rejected(s)
        OBVIOUS
      <4>1. p[i] \in Messages
        BY <3>1, ElementOfSeq
      <4>2. place[p[i]] = <<t, j>>
        BY <3>1 DEF QueueHolds
      <4> QED
        BY <2>2, <4>1, <4>2 DEF Rejected
    <3>4. \A i \in 1..Len(p) : message'[p[i]] = "waiting" /\ place'[p[i]] = <<t, j>>
      BY <1>1, <3>1, <3>3 DEF QueueHolds
    <3>5. Of(t, j, "handling")' = Of(t, j, "handling")
      BY <1>1 DEF Of, Rejected
    <3>6. QueueHolds(t, j)'
      BY <3>1, <3>2, <3>4 DEF QueueHolds
    <3> QED
      BY <3>1, <3>2, <3>5, <3>6 DEF LaneRuns
  <2> QED
    BY <2>1, <2>2
<1>4. ASSUME NEW n \in Messages, message'[n] = "waiting"
      PROVE  Waits(n)'
  <2>1. message[n] = "waiting" /\ place[n][1] # s /\ place' = place
    BY <1>1, <1>4 DEF Rejected
  <2>2. Waits(n) /\ lanes'[place[n][1]] = lanes[place[n][1]]
    BY <1>1, <2>1 DEF LaneInv, LaneTypeOK, LaneParts, Waits
  <2> QED
    BY <2>1, <2>2 DEF Waits
<1>5. /\ \A n \in Messages : message'[n] = "handling" =>
           place'[n][1] \in Sessions /\ state'[place'[n][1]] # "unused"
      /\ \A n, o \in Messages :
           /\ message'[n] = "handling" /\ message'[o] = "handling"
           /\ place'[n] = place'[o] /\ place'[n][2] # None
           => n = o
  BY <1>1 DEF LaneInv, LaneParts, ConnInv, ConnTypeOK
<1>6. LaneParts'
  BY <1>3, <1>4, <1>5 DEF LaneParts
<1> QED
  BY <1>2, <1>6 DEF LaneInv

LEMMA LaneStep == ConnInv /\ LaneInv /\ [Next]_vars => LaneInv'
<1> SUFFICES ASSUME ConnInv, LaneInv, [Next]_vars PROVE LaneInv'
  OBVIOUS
<1>1. ASSUME UNCHANGED laneVars, UNCHANGED state
      PROVE  LaneInv'
  BY <1>1, OthersLane
<1>2. ASSUME NEW w \in Sockets, NEW s \in Sessions, HelloCreates(w, s)
      PROVE  LaneInv'
  BY <1>2, OthersLane DEF HelloCreates, ConnInv, ConnTypeOK
<1>3. ASSUME NEW w \in Sockets, NEW c \in Clients, Connect(w, c)
      PROVE  LaneInv'
  BY <1>1, <1>3 DEF Connect
<1>4. ASSUME NEW w \in Sockets,
             Reject(w) \/ HelloResumes(w) \/ PendingLost(w) \/ SocketLost(w)
      PROVE  LaneInv'
  BY <1>1, <1>4 DEF Reject, HelloResumes, PendingLost, SocketLost
<1>5. CASE UNCHANGED vars
  BY <1>1, <1>5 DEF vars, connVars
<1> QED
  BY <1>2, <1>3, <1>4, <1>5, RefuseLane, DispatchLane, EndsLane, GraceLane DEF Next
-----------------------------------------------------------------------------
(* The theorems.                                                           *)

(* The inductive invariant.                                                *)
THEOREM InductiveInvariant == Spec => []IInv
<1>1. Init => IInv
  BY ConnInit, LaneInit DEF IInv
<1>2. IInv /\ [Next]_vars => IInv'
  BY ConnStep, LaneStep DEF IInv
<1> QED
  BY <1>1, <1>2, PTL DEF Spec

(* Every variable keeps its type; the count of a session's requests never   *)
(* falls below zero nor rises over MAX_SESSION_INFLIGHT_MESSAGES.          *)
THEOREM TypeCorrect == Spec => []TypeOK
<1>1. IInv => TypeOK
  BY DEF IInv, ConnInv, ConnTypeOK, LaneInv, LaneTypeOK, TypeOK
<1> QED
  BY <1>1, InductiveInvariant, PTL

(* A client has one session, and the maps of the server agree about it.     *)
THEOREM OneSession == Spec => []OneSessionPerClient
<1>1. IInv => OneSessionPerClient
  BY DEF IInv, ConnInv
<1> QED
  BY <1>1, InductiveInvariant, PTL

(* The grace period runs exactly while an open session has no socket.       *)
THEOREM GraceIsExact == Spec => []GraceExact
<1>1. IInv => GraceExact
  BY DEF IInv, ConnInv
<1> QED
  BY <1>1, InductiveInvariant, PTL

(* inflightMessages is the number of requests under way, whatever order     *)
(* they end in, and however many are turned away when the session ends.     *)
THEOREM CountIsExact == Spec => []InflightExact
<1>1. IInv => InflightExact
  BY CountedIsExact DEF IInv, LaneInv
<1> QED
  BY <1>1, InductiveInvariant, PTL

(* Nobody waits in a lane in which nobody runs, and nobody waits twice.     *)
THEOREM WaitersQueued == Spec => []WaitersAreQueued
<1>1. IInv => WaitersAreQueued
  <2> SUFFICES ASSUME IInv, NEW m \in Messages, message[m] = "waiting",
                      NEW s, s = place[m][1], NEW k, k = place[m][2]
               PROVE  /\ state[s] = "open" /\ m \in ToSet(lanes[s][k].queue)
                      /\ Cardinality(Of(s, k, "handling")) = 1
    BY DEF WaitersAreQueued
  <2> DEFINE q == lanes[s][k].queue
  <2>1. s \in Sessions /\ k \in Keys /\ \E i \in 1..Len(q) : q[i] = m
    BY DEF IInv, LaneInv, LaneParts, Waits
  <2>2. q \in Seq(Messages) /\ QueueHolds(s, k) /\ LaneRuns(s, k)
    BY <2>1 DEF IInv, LaneInv, LaneTypeOK, LaneParts, Lane
  <2>3. q # <<>> /\ m \in ToSet(q)
    BY <2>1, <2>2, LenProperties DEF ToSet
  <2>4. state[s] = "open" /\ Of(s, k, "handling") # {}
    <3>1. lanes[s][k].running /\ lanes[s][k] # Idle
      <4>1. lanes[s][k].running
        BY <2>2, <2>3 DEF QueueHolds
      <4>2. Idle.queue = <<>>
        BY DEF Idle
      <4> QED
        BY <2>3, <4>1, <4>2
    <3> QED
      BY <2>2, <3>1 DEF LaneRuns
  <2>5. PICK n : n \in Of(s, k, "handling")
    BY <2>4
  <2>6. \A o \in Of(s, k, "handling") : o = n
    BY <2>1, <2>5, SessionAssumption DEF IInv, LaneInv, LaneParts, Of
  <2>7. Of(s, k, "handling") = {n}
    BY <2>5, <2>6
  <2> QED
    BY <2>3, <2>4, <2>7, FS_Singleton
<1> QED
  BY <1>1, InductiveInvariant, PTL-----------------------------------------------------------------------------
(* The lanes implement KeyedQueue.                                         *)

LEMMA SeqOfNone == SetToSeq({}) = <<>>
<1>1. Cardinality({}) = 0 /\ 1..0 = {}
  BY FS_EmptySet
<1>2. \A f \in [{} -> {}] : f = <<>>
  OBVIOUS
<1>3. <<>> \in [{} -> {}] /\ IsInjective(<<>>)
  BY DEF IsInjective
<1>4. SetToSeq({}) = CHOOSE f \in [{} -> {}] : IsInjective(f)
  BY <1>1 DEF SetToSeq
<1> QED
  BY <1>2, <1>3, <1>4

LEMMA SeqOfOne == \A x : SetToSeq({x}) = <<x>>
<1> SUFFICES ASSUME NEW x PROVE SetToSeq({x}) = <<x>>
  OBVIOUS
<1>1. Cardinality({x}) = 1 /\ 1..1 = {1}
  BY FS_Singleton
<1>2. \A f \in [{1} -> {x}] : f = <<x>>
  OBVIOUS
<1>3. <<x>> \in [{1} -> {x}] /\ IsInjective(<<x>>)
  BY DEF IsInjective
<1>4. SetToSeq({x}) = CHOOSE f \in [{1} -> {x}] : IsInjective(f)
  BY <1>1 DEF SetToSeq
<1> QED
  BY <1>2, <1>3, <1>4

LEMMA HeadOfLine ==
  ASSUME NEW q \in Seq(Messages)
  PROVE  /\ SetToSeq({}) \o q = q
         /\ \A m \in Messages : LET l == SetToSeq({m}) \o q
                               IN l = <<m>> \o q /\ l # <<>> /\ Head(l) = m /\ Tail(l) = q
<1>1. <<>> \o q = q
  BY ConcatEmptySeq
<1>2. ASSUME NEW m \in Messages
      PROVE  <<m>> \o q # <<>> /\ Head(<<m>> \o q) = m /\ Tail(<<m>> \o q) = q
  <2>1. <<m>> \in Seq(Messages) /\ Len(<<m>>) = 1 /\ Len(q) \in Nat
    OBVIOUS
  <2>2. /\ <<m>> \o q \in Seq(Messages) /\ Len(<<m>> \o q) = 1 + Len(q)
        /\ \A i \in 1..1 + Len(q) : (<<m>> \o q)[i] = IF i <= 1 THEN <<m>>[i] ELSE q[i - 1]
    BY <2>1, ConcatProperties
  <2>3. <<m>> \o q # <<>>
    BY <2>1, <2>2
  <2>4. Head(<<m>> \o q) = m
    BY <2>1, <2>2, <2>3
  <2>5. /\ Tail(<<m>> \o q) \in Seq(Messages) /\ Len(Tail(<<m>> \o q)) = Len(q)
        /\ \A i \in 1..Len(q) : Tail(<<m>> \o q)[i] = q[i]
    BY <2>1, <2>2, <2>3, HeadTailProperties
  <2> QED
    BY <2>3, <2>4, <2>5, SeqEqual
<1> QED
  BY <1>1, <1>2, SeqOfNone, SeqOfOne

LEMMA AppendToLine ==
  ASSUME NEW h \in Seq(Messages), NEW q \in Seq(Messages), NEW m \in Messages
  PROVE  h \o Append(q, m) = Append(h \o q, m)
<1>1. h \o q \in Seq(Messages) /\ <<m>> \in Seq(Messages)
  BY ConcatProperties
<1>2. Append(q, m) = q \o <<m>> /\ Append(h \o q, m) = (h \o q) \o <<m>>
  BY <1>1, AppendIsConcat
<1>3. (h \o q) \o <<m>> = h \o (q \o <<m>>)
  BY <1>1, ConcatAssociative
<1> QED
  BY <1>2, <1>3

(* The refinement mapping, named.                                          *)
LineMap == [l \in Sessions \X Keys |-> InLine(l[1], l[2])]
ShutMap == {l \in Sessions \X Keys : state[l[1]] = "ended"}

LEMMA OneLine ==
  ASSUME NEW s \in Sessions, NEW k \in Keys, NEW v,
         \A t \in Sessions, j \in Keys : <<t, j>> # <<s, k>> => InLine(t, j)' = InLine(t, j),
         InLine(s, k)' = v
  PROVE  LineMap' = [LineMap EXCEPT ![<<s, k>>] = v]
<1>1. ASSUME NEW l \in Sessions \X Keys
      PROVE  InLine(l[1], l[2])' = IF l = <<s, k>> THEN v ELSE InLine(l[1], l[2])
  <2>1. PICK t \in Sessions, j \in Keys : l = <<t, j>>
    OBVIOUS
  <2>2. CASE t = s /\ j = k
    BY <2>1, <2>2
  <2>3. CASE ~(t = s /\ j = k)
    BY <2>1, <2>3
  <2> QED
    BY <2>2, <2>3
<1> QED
  BY <1>1 DEF LineMap

LEMMA NoLine ==
  ASSUME \A s \in Sessions, k \in Keys : InLine(s, k)' = InLine(s, k), ShutMap' = ShutMap
  PROVE  UNCHANGED Queue!queueVars
<1>1. LineMap' = LineMap
  BY DEF LineMap
<1> QED
  BY <1>1 DEF Queue!queueVars, LineMap, ShutMap

(* What is at the head of a line: nobody, or the one request handled.       *)
LEMMA LineHead ==
  ASSUME IInv, NEW s \in Sessions, NEW k \in Keys
  PROVE  /\ lanes[s][k].queue \in Seq(Messages)
         /\ \/ Of(s, k, "handling") = {}
            \/ \E m \in Messages : Of(s, k, "handling") = {m}
         /\ ~lanes[s][k].running => lanes[s][k].queue = <<>>
         /\ state[s] = "open" => (lanes[s][k].running <=> Of(s, k, "handling") # {})
         /\ state[s] # "open" => lanes[s][k].queue = <<>>
<1>1. lanes[s][k].queue \in Seq(Messages) /\ QueueHolds(s, k) /\ LaneRuns(s, k)
  BY DEF IInv, LaneInv, LaneTypeOK, LaneParts, Lane
<1>2. \A m, n \in Of(s, k, "handling") : m = n
  BY SessionAssumption DEF IInv, LaneInv, LaneParts, Of
<1>3. Of(s, k, "handling") \subseteq Messages
  BY DEF Of
<1>4. \/ Of(s, k, "handling") = {}
      \/ \E m \in Messages : Of(s, k, "handling") = {m}
  BY <1>2, <1>3
<1> QED
  BY <1>1, <1>4 DEF QueueHolds, LaneRuns, Idle

(* A request that enters a lane or its queue joins the line.                *)
LEMMA DispatchJoins ==
  ASSUME IInv, NEW w \in Sockets, NEW m \in Messages, NEW k \in Keys \cup {None},
         Dispatch(w, m, k)
  PROVE  [Queue!QueueNext]_(Queue!queueVars)
<1>1. PICK s \in Sessions : /\ s = sessions[w] /\ state[s] = "open" /\ state' = state
                           /\ message[m] = "new"
  BY BoundIsOpen, SessionAssumption DEF Dispatch, connVars, IInv
<1>2. /\ place' = [place EXCEPT ![m] = <<s, k>>]
      /\ message' = [message EXCEPT ![m] = IF k = None \/ Enters(lanes[s][k]) THEN "handling" ELSE "waiting"]
      /\ lanes' = IF k = None THEN lanes ELSE [lanes EXCEPT ![s][k] = Scheduled(@, m)]
  BY <1>1 DEF Dispatch
<1>3. ShutMap' = ShutMap
  BY <1>1 DEF ShutMap
<1>4. ASSUME NEW t \in Sessions, NEW j \in Keys, <<t, j>> # <<s, k>>
      PROVE  InLine(t, j)' = InLine(t, j)
  <2>1. lanes'[t][j] = lanes[t][j]
    BY <1>1, <1>2, <1>4 DEF IInv, LaneInv, LaneTypeOK
  <2>2. Of(t, j, "handling")' = Of(t, j, "handling")
    BY <1>1, <1>2, <1>4 DEF IInv, LaneInv, LaneTypeOK, Of
  <2> QED
    BY <2>1, <2>2 DEF InLine
<1>5. CASE k = None
  BY <1>3, <1>4, <1>5, NoLine, SessionAssumption
<1>6. CASE k # None
  <2> DEFINE q == lanes[s][k].queue
  <2>1. k \in Keys /\ lanes[s][k] \in Lane
    BY <1>6 DEF IInv, LaneInv, LaneTypeOK
  <2>2. lanes'[s][k] = Scheduled(lanes[s][k], m)
    BY <1>1, <1>2, <1>6, <2>1 DEF IInv, LaneInv, LaneTypeOK
  <2>3. q \in Seq(Messages)
    BY <2>1, LineHead
  <2>4. InLine(s, k)' = Append(InLine(s, k), m)
    <3>1. CASE Enters(lanes[s][k])
      <4>1. q = <<>> /\ Of(s, k, "handling") = {} /\ lanes'[s][k].queue = <<>>
        BY <1>1, <2>1, <2>2, <3>1, LineHead, ScheduledLane DEF Enters
      <4>2. Of(s, k, "handling")' = {m}
        BY <1>1, <1>2, <3>1, <4>1 DEF IInv, LaneInv, LaneTypeOK, Of
      <4>3. <<>> \o <<>> = <<>> /\ <<m>> \o <<>> = <<m>> /\ Append(<<>>, m) = <<m>>
        OBVIOUS
      <4>4. InLine(s, k) = SetToSeq({}) \o <<>> /\ InLine(s, k)' = SetToSeq({m}) \o <<>>
        BY <4>1, <4>2 DEF InLine
      <4> QED
        BY <4>3, <4>4, SeqOfNone, SeqOfOne
    <3>2. CASE ~Enters(lanes[s][k])
      <4>1. lanes'[s][k].queue = Append(q, m)
        BY <2>1, <2>2, <3>2, ScheduledLane
      <4>2. Of(s, k, "handling")' = Of(s, k, "handling")
        BY <1>1, <1>2, <1>6, <3>2 DEF IInv, LaneInv, LaneTypeOK, Of
      <4> DEFINE h == SetToSeq(Of(s, k, "handling"))
      <4>3. h \in Seq(Messages)
        <5>1. CASE Of(s, k, "handling") = {}
          <6>1. <<>> \in Seq(Messages)
            OBVIOUS
          <6> QED
            BY <5>1, <6>1, SeqOfNone
        <5>2. ASSUME NEW n \in Messages, Of(s, k, "handling") = {n}
              PROVE  h \in Seq(Messages)
          <6>1. <<n>> \in Seq(Messages)
            OBVIOUS
          <6> QED
            BY <5>2, <6>1, SeqOfOne
        <5> QED
          BY <2>1, <5>1, <5>2, LineHead
      <4>4. h \o Append(q, m) = Append(h \o q, m)
        BY <2>3, <4>3, AppendToLine
      <4> QED
        BY <4>1, <4>2, <4>3, <4>4 DEF InLine
    <3> QED
      BY <3>1, <3>2
  <2>5. LineMap' = [LineMap EXCEPT ![<<s, k>>] = Append(InLine(s, k), m)]
    BY <1>4, <2>1, <2>4, OneLine
  <2>6. LineMap[<<s, k>>] = InLine(s, k) /\ <<s, k>> \notin ShutMap /\ <<s, k>> \in Sessions \X Keys
    BY <1>1, <2>1 DEF LineMap, ShutMap
  <2>7. Queue!Join(<<s, k>>, m)
    BY <1>3, <2>5, <2>6 DEF Queue!Join, LineMap, ShutMap
  <2> QED
    BY <2>6, <2>7 DEF Queue!QueueNext
<1> QED
  BY <1>5, <1>6

(* The end of a request serves its line, in an ended session too.           *)
LEMMA EndsServes ==
  ASSUME IInv, IInv', NEW m \in Messages, Ends(m)
  PROVE  [Queue!QueueNext]_(Queue!queueVars)
<1>1. PICK s \in Sessions, k \in Keys \cup {None} : place[m] = <<s, k>> /\ state[s] # "unused"
  BY DEF Ends, IInv, LaneInv, LaneTypeOK, LaneParts
<1> DEFINE keyed == k # None /\ state[s] = "open"
           q == lanes[s][k].queue
           next == IF keyed /\ q # <<>> THEN Head(q) ELSE m
<1>2. /\ message[m] = "handling" /\ state' = state /\ place' = place
      /\ lanes' = IF keyed THEN [lanes EXCEPT ![s][k] = Released(@)] ELSE lanes
      /\ message' = [n \in Messages |-> IF n = m THEN "done"
                                       ELSE IF n = next /\ Released(lanes[s][k]) # Idle THEN "handling"
                                       ELSE message[n]]
  BY <1>1 DEF Ends, connVars
<1>3. ShutMap' = ShutMap
  BY <1>2 DEF ShutMap
<1>4. ASSUME k # None
      PROVE  k \in Keys /\ Of(s, k, "handling") = {m} /\ q \in Seq(Messages) /\ lanes[s][k] \in Lane
  <2>1. k \in Keys
    BY <1>4
  <2>2. m \in Of(s, k, "handling")
    BY <1>1, <1>2 DEF Of
  <2> QED
    BY <2>1, <2>2, LineHead DEF IInv, LaneInv, LaneTypeOK
<1>5. ASSUME keyed, q # <<>>
      PROVE  next = Head(q) /\ next \in Messages /\ next # m /\ place[next] = <<s, k>>
  <2>1. 1 \in 1..Len(q) /\ Head(q) = q[1] /\ Head(q) \in Messages
    BY <1>4, <1>5, HeadTailProperties, LenProperties
  <2>2. QueueHolds(s, k)
    BY <1>4, <1>5 DEF IInv, LaneInv, LaneParts
  <2>3. message[q[1]] = "waiting" /\ place[q[1]] = <<s, k>>
    BY <2>1, <2>2 DEF QueueHolds
  <2> QED
    BY <1>2, <1>5, <2>1, <2>3
<1>6. ASSUME NEW t \in Sessions, NEW j \in Keys, <<t, j>> # <<s, k>>
      PROVE  InLine(t, j)' = InLine(t, j)
  <2>1. lanes'[t][j] = lanes[t][j]
    BY <1>1, <1>2, <1>6 DEF IInv, LaneInv, LaneTypeOK
  <2>2. Of(t, j, "handling")' = Of(t, j, "handling")
    BY <1>1, <1>2, <1>5, <1>6 DEF Of
  <2> QED
    BY <2>1, <2>2 DEF InLine
<1>7. CASE k = None
  BY <1>3, <1>6, <1>7, NoLine, SessionAssumption
<1>8. CASE k # None
  <2>1. InLine(s, k) = <<m>> \o q /\ InLine(s, k) # <<>> /\ Tail(InLine(s, k)) = q
    BY <1>4, <1>8, HeadOfLine DEF InLine
  <2>2. InLine(s, k)' = q
    <3>1. CASE q = <<>>
      <4>1. Of(s, k, "handling")' = {}
        BY <1>2, <1>4, <1>8, <3>1 DEF Of
      <4>2. Idle.queue = <<>>
        BY DEF Idle
      <4>3. lanes'[s][k].queue = <<>>
        BY <1>1, <1>2, <1>4, <1>8, <3>1, <4>2, ReleasedLane DEF IInv, LaneInv, LaneTypeOK
      <4>4. InLine(s, k)' = SetToSeq({}) \o <<>>
        BY <4>1, <4>3 DEF InLine
      <4> QED
        BY <3>1, <4>4, <1>4, <1>8, HeadOfLine
    <3>2. CASE q # <<>>
      <4>1. state[s] = "open"
        BY <1>4, <1>8, <3>2, LineHead
      <4>2. Released(lanes[s][k]).queue = Tail(q) /\ Released(lanes[s][k]).running = lanes[s][k].running
        BY <1>4, <1>8, <3>2, ReleasedLane
      <4>3. lanes'[s][k].queue = Tail(q)
        BY <1>1, <1>2, <1>4, <1>8, <4>1, <4>2 DEF IInv, LaneInv, LaneTypeOK
      <4>4. lanes[s][k].running /\ Idle.running = FALSE
        BY <1>4, <1>8, <4>1, LineHead DEF Idle
      <4>5. Of(s, k, "handling")' = {Head(q)}
        BY <1>1, <1>2, <1>4, <1>5, <1>8, <3>2, <4>1, <4>2, <4>4 DEF Of
      <4>6. InLine(s, k)' = SetToSeq({Head(q)}) \o Tail(q)
        BY <4>3, <4>5 DEF InLine
      <4>7. Head(q) \in Messages /\ Tail(q) \in Seq(Messages)
        BY <1>4, <1>8, <3>2, HeadTailProperties
      <4>8. <<Head(q)>> \o Tail(q) = q
        BY <1>4, <1>8, <3>2
      <4> QED
        BY <4>6, <4>7, <4>8, HeadOfLine
    <3> QED
      BY <3>1, <3>2
  <2>3. LineMap' = [LineMap EXCEPT ![<<s, k>>] = Tail(InLine(s, k))]
    <3>1. k \in Keys /\ InLine(s, k)' = Tail(InLine(s, k))
      BY <1>4, <1>8, <2>1, <2>2
    <3> QED
      BY <1>6, <3>1, OneLine
  <2>4. LineMap[<<s, k>>] = InLine(s, k) /\ <<s, k>> \in Sessions \X Keys
    BY <1>4, <1>8 DEF LineMap
  <2>5. Queue!Served(<<s, k>>)
    BY <1>3, <2>1, <2>3, <2>4 DEF Queue!Served, LineMap, ShutMap
  <2> QED
    BY <2>4, <2>5 DEF Queue!QueueNext
<1> QED
  BY <1>7, <1>8

(* The end of a session shuts its lines: who is handled stays at the head.  *)
LEMMA GraceShuts ==
  ASSUME IInv, NEW s \in Sessions, GraceEnds(s)
  PROVE  [Queue!QueueNext]_(Queue!queueVars)
<1> DEFINE ls == {l \in Sessions \X Keys : l[1] = s}
<1>1. /\ state[s] = "open" /\ state' = [state EXCEPT ![s] = "ended"] /\ place' = place
      /\ lanes' = [lanes EXCEPT ![s] = [k \in Keys |-> Idle]]
      /\ message' = [m \in Messages |-> IF m \in Rejected(s) THEN "refused" ELSE message[m]]
  BY DEF GraceEnds, IInv, ConnInv, GraceExact
<1>2. ShutMap' = ShutMap \cup ls
  BY <1>1 DEF ShutMap, IInv, ConnInv, ConnTypeOK
<1>3. ASSUME NEW t \in Sessions, NEW k \in Keys
      PROVE  Of(t, k, "handling")' = Of(t, k, "handling")
  BY <1>1, <1>3 DEF Of, Rejected
<1>4. ASSUME NEW t \in Sessions, NEW k \in Keys
      PROVE  InLine(t, k)' = IF t = s /\ InLine(t, k) # <<>> THEN <<Head(InLine(t, k))>> ELSE InLine(t, k)
  <2>1. CASE t # s
    <3>1. lanes'[t][k] = lanes[t][k]
      BY <1>1, <2>1 DEF IInv, LaneInv, LaneTypeOK
    <3> QED
      BY <1>3, <2>1, <3>1 DEF InLine
  <2>2. CASE t = s
    <3> DEFINE q == lanes[s][k].queue
    <3>1. lanes'[s][k].queue = <<>>
      BY <1>1 DEF IInv, LaneInv, LaneTypeOK, Idle
    <3>2. q \in Seq(Messages) /\ <<>> \in Seq(Messages)
      BY LineHead
    <3>3. CASE Of(s, k, "handling") = {}
      <4>1. q = <<>>
        BY <1>1, <3>3, LineHead
      <4>2. InLine(s, k)' = SetToSeq({}) \o <<>> /\ InLine(s, k) = SetToSeq({}) \o <<>>
        BY <1>3, <3>1, <3>3, <4>1 DEF InLine
      <4>3. SetToSeq({}) \o <<>> = <<>>
        BY <3>2, HeadOfLine
      <4> QED
        BY <2>2, <4>2, <4>3
    <3>4. ASSUME NEW m \in Messages, Of(s, k, "handling") = {m}
          PROVE  InLine(s, k)' = <<Head(InLine(s, k))>> /\ InLine(s, k) # <<>>
      <4>1. InLine(s, k)' = SetToSeq({m}) \o <<>> /\ InLine(s, k) = SetToSeq({m}) \o q
        BY <1>3, <3>1, <3>4 DEF InLine
      <4>2. SetToSeq({m}) \o <<>> = <<m>>
        <5>1. <<m>> \o <<>> = <<m>>
          OBVIOUS
        <5> QED
          BY <5>1, SeqOfOne
      <4> QED
        BY <3>2, <4>1, <4>2, HeadOfLine
    <3> QED
      BY <2>2, <3>3, <3>4, LineHead
  <2> QED
    BY <2>1, <2>2
<1>5. LineMap' = [l \in Sessions \X Keys |->
                   IF l \in ls /\ LineMap[l] # <<>> THEN <<Head(LineMap[l])>> ELSE LineMap[l]]
  <2>1. ASSUME NEW l \in Sessions \X Keys
        PROVE  InLine(l[1], l[2])' = IF l \in ls /\ InLine(l[1], l[2]) # <<>>
                                     THEN <<Head(InLine(l[1], l[2]))>> ELSE InLine(l[1], l[2])
    <3>1. l[1] \in Sessions /\ l[2] \in Keys /\ (l \in ls <=> l[1] = s)
      OBVIOUS
    <3> QED
      BY <1>4, <3>1
  <2> QED
    BY <2>1 DEF LineMap
<1>6. Queue!Shut(ls)
  BY <1>2, <1>5 DEF Queue!Shut, LineMap, ShutMap
<1> QED
  BY <1>6 DEF Queue!QueueNext

LEMMA QueueStep ==
  ASSUME IInv, IInv', [Next]_vars
  PROVE  [Queue!QueueNext]_(Queue!queueVars)
<1>1. ASSUME \A s \in Sessions, k \in Keys : InLine(s, k)' = InLine(s, k), ShutMap' = ShutMap
      PROVE  [Queue!QueueNext]_(Queue!queueVars)
  BY <1>1, NoLine
<1>2. ASSUME UNCHANGED laneVars, UNCHANGED state
      PROVE  [Queue!QueueNext]_(Queue!queueVars)
  <2>1. \A s \in Sessions, k \in Keys : InLine(s, k)' = InLine(s, k)
    BY <1>2 DEF laneVars, InLine, Of
  <2> QED
    BY <1>1, <1>2, <2>1 DEF ShutMap
<1>3. ASSUME NEW w \in Sockets, NEW s \in Sessions, HelloCreates(w, s)
      PROVE  [Queue!QueueNext]_(Queue!queueVars)
  <2>1. \A t \in Sessions, k \in Keys : InLine(t, k)' = InLine(t, k)
    BY <1>3 DEF HelloCreates, laneVars, InLine, Of
  <2>2. ShutMap' = ShutMap
    BY <1>3 DEF HelloCreates, ShutMap, IInv, ConnInv, ConnTypeOK
  <2> QED
    BY <1>1, <2>1, <2>2
<1>4. ASSUME NEW w \in Sockets, NEW m \in Messages, NEW k \in Keys \cup {None}, Refuse(w, m, k)
      PROVE  [Queue!QueueNext]_(Queue!queueVars)
  <2>1. \A t \in Sessions, j \in Keys : InLine(t, j)' = InLine(t, j)
    BY <1>4 DEF Refuse, InLine, Of, IInv, LaneInv, LaneTypeOK
  <2>2. ShutMap' = ShutMap
    BY <1>4 DEF Refuse, connVars, ShutMap
  <2> QED
    BY <1>1, <2>1, <2>2
<1>5. ASSUME NEW w \in Sockets, NEW c \in Clients, Connect(w, c)
      PROVE  [Queue!QueueNext]_(Queue!queueVars)
  BY <1>2, <1>5 DEF Connect
<1>6. ASSUME NEW w \in Sockets,
             Reject(w) \/ HelloResumes(w) \/ PendingLost(w) \/ SocketLost(w)
      PROVE  [Queue!QueueNext]_(Queue!queueVars)
  BY <1>2, <1>6 DEF Reject, HelloResumes, PendingLost, SocketLost
<1>7. CASE UNCHANGED vars
  BY <1>2, <1>7 DEF vars, connVars
<1> QED
  BY <1>3, <1>4, <1>5, <1>6, <1>7, DispatchJoins, EndsServes, GraceShuts DEF Next

LEMMA QueueStart == Init => Queue!QueueInit
<1> SUFFICES ASSUME Init PROVE Queue!QueueInit
  OBVIOUS
<1>1. \A s \in Sessions, k \in Keys : Of(s, k, "handling") = {} /\ lanes[s][k].queue = <<>>
  BY DEF Init, Of, Idle
<1>2. SetToSeq({}) \o <<>> = <<>>
  <2>1. <<>> \in Seq(Messages)
    OBVIOUS
  <2> QED
    BY <2>1, HeadOfLine
<1>3. \A s \in Sessions, k \in Keys : InLine(s, k) = <<>>
  BY <1>1, <1>2 DEF InLine
<1> QED
  BY <1>3 DEF Init, Queue!QueueInit

(* Requests of one session about one agent, terminal or file are handled    *)
(* one at a time, in the order of their arrival; the end of the session     *)
(* turns away who waits and lets the one being handled finish.             *)
THEOREM LanesImplementQueue == Spec => ImplementsKeyedQueue
<1>1. IInv /\ IInv' /\ [Next]_vars => [Queue!QueueNext]_(Queue!queueVars)
  BY QueueStep
<1> QED
  BY <1>1, QueueStart, InductiveInvariant, PTL DEF Spec, ImplementsKeyedQueue, Queue!QueueSpec
-----------------------------------------------------------------------------
(* The client's end: ClientConnection, for any set of requests, any         *)
(* threshold of the probes and any number of faults and of changes of mind. *)

(* What the named properties rest on: a transport that is being opened has  *)
(* its timer, retries are off only if somebody switched them off, and what  *)
(* is on the wire is neither unsent nor queued.                            *)
Supports ==
  /\ conn = "connecting" /\ link = "opening" => "connect" \in timers
  /\ ~enabled => toggles < Toggles
  /\ \A r \in Requests : r \in onWire => request[r] \notin {"new", "queued"}

ClientInv == ClientTypeOK /\ ClosedIsFinal /\ NeverStuck /\ NobodyStranded /\ Supports

-----------------------------------------------------------------------------
(* Type correctness.                                                       *)

Timers == {"connect", "reconnect", "error", "probe"}

(* The parts of TypeOK that a reset, a retry and a new attempt write.       *)
RequestsTyped ==
  /\ queue \subseteq Requests /\ waiters \subseteq Requests
  /\ request \in [Requests -> {"new", "queued", "sent", "answered", "failed"}]
  /\ onWire \subseteq Requests \cup {Ping}

LinkTyped ==
  /\ conn \in {"idle", "connecting", "connected", "disconnected", "disposed"}
  /\ timers \subseteq Timers

LEMMA RetriedTyped ==
  ASSUME ClientTypeOK, NEW ts \in SUBSET Timers, Retried(ts)
  PROVE  LinkTyped' /\ RequestsTyped'
BY DEF ClientTypeOK, LinkTyped, RequestsTyped, Timers, Retried, Retry, Reset, Unsettled

LEMMA AttemptTyped ==
  ASSUME ClientTypeOK, NEW ts \in SUBSET Timers, AttemptStarts(ts) \/ AttemptFails(ts)
  PROVE  /\ LinkTyped' /\ RequestsTyped' /\ faults' \in 0..Faults
         /\ link' \in {"none", "opening"}
<1>1. CASE AttemptStarts(ts)
  BY <1>1 DEF ClientTypeOK, LinkTyped, RequestsTyped, Timers, AttemptStarts, Disposed
<1>2. CASE AttemptFails(ts)
  <2>1. Disposed(ts) \in SUBSET Timers
    BY DEF Disposed
  <2>2. faults' \in 0..Faults
    BY <1>2, ClientAssumption DEF AttemptFails, Fault, ClientTypeOK
  <2> QED
    BY <1>2, <2>1, <2>2, RetriedTyped DEF AttemptFails
<1> QED
  BY <1>1, <1>2

LEMMA MissedTyped ==
  ASSUME ClientTypeOK, NEW ts \in SUBSET Timers, Missed(ts),
         UNCHANGED <<enabled, toggles, torn>>, faults' \in 0..Faults
  PROVE  ClientTypeOK'
<1>1. CASE Tolerated(misses + 1)
  <2>1. misses' = misses + 1 /\ timers' = ts /\ UNCHANGED <<conn, link, promise, requestVars>>
    BY <1>1 DEF Missed
  <2>2. misses' \in 0..(Threshold - 1)
    BY <1>1, <2>1, ClientAssumption DEF Tolerated, ClientTypeOK
  <2> QED
    BY <2>1, <2>2 DEF ClientTypeOK, Timers, requestVars
<1>2. CASE ~Tolerated(misses + 1)
  <2>1. Disposed(ts) \in SUBSET Timers
    BY DEF Disposed
  <2>2. /\ LinkTyped' /\ RequestsTyped' /\ misses' = 0 /\ link' = "none"
        /\ promise' = Promised(promise)
    BY <1>2, <2>1, RetriedTyped DEF Missed, Rescheduled
  <2> QED
    BY <2>2, ClientAssumption DEF ClientTypeOK, LinkTyped, RequestsTyped, Timers, Promised
<1> QED
  BY <1>1, <1>2

LEMMA ClientTypeStep ==
  ASSUME ClientTypeOK, [ClientNext]_clientVars
  PROVE  ClientTypeOK'
<1>1. CASE EnsureConnected
  <2>1. timers \in SUBSET Timers
    BY DEF ClientTypeOK, Timers
  <2>2. LinkTyped' /\ RequestsTyped' /\ faults' \in 0..Faults /\ link' \in {"none", "opening"}
    BY <1>1, <2>1, AttemptTyped DEF EnsureConnected
  <2> QED
    BY <1>1, <2>2 DEF EnsureConnected, ClientTypeOK, LinkTyped, RequestsTyped, Timers
<1>2. CASE Close
  BY <1>2, ClientAssumption DEF Close, Left, Reset, budgets, Unsettled, ClientTypeOK
<1>3. CASE SetReconnectEnabled
  BY <1>3, ClientAssumption DEF SetReconnectEnabled, requestVars, ClientTypeOK
<1>4. CASE ReconnectFires
  <2>1. timers \ {"reconnect"} \in SUBSET Timers
    BY DEF ClientTypeOK, Timers
  <2>2. torn' \subseteq Requests /\ misses' = misses /\ enabled' = enabled /\ toggles' = toggles
    BY <1>4 DEF ReconnectFires, ClientTypeOK
  <2>3. CASE conn = "connecting"
    BY <1>4, <2>2, <2>3 DEF ReconnectFires, ClientTypeOK, requestVars
  <2>4. CASE conn # "connecting"
    <3>1. LinkTyped' /\ RequestsTyped' /\ faults' \in 0..Faults /\ link' \in {"none", "opening"}
      BY <1>4, <2>1, <2>4, AttemptTyped DEF ReconnectFires
    <3>2. promise' \in {"none", "pending", "rejected"}
      BY <1>4, <2>4 DEF ReconnectFires, ClientTypeOK, Promised
    <3> QED
      BY <2>2, <3>1, <3>2 DEF ClientTypeOK, LinkTyped, RequestsTyped, Timers
  <2> QED
    BY <2>3, <2>4
<1>5. CASE ConnectTimesOut
  <2>1. Disposed(timers) \in SUBSET Timers
    BY DEF ClientTypeOK, Timers, Disposed
  <2>2. faults' \in 0..Faults /\ UNCHANGED <<misses, enabled, toggles, torn>>
    BY <1>5, ClientAssumption DEF ConnectTimesOut, Fault, ClientTypeOK
  <2>3. CASE conn = "connecting"
    <3>1. LinkTyped' /\ RequestsTyped' /\ link' = "none" /\ promise' = Promised(promise)
      BY <1>5, <2>1, <2>3, RetriedTyped DEF ConnectTimesOut, Rescheduled
    <3> QED
      BY <2>2, <3>1 DEF ClientTypeOK, LinkTyped, RequestsTyped, Timers, Promised
  <2>4. CASE conn # "connecting"
    BY <1>5, <2>2, <2>4 DEF ConnectTimesOut, ClientTypeOK, requestVars
  <2> QED
    BY <2>3, <2>4
<1>6. CASE ErrorTimerFires
  BY <1>6, ClientAssumption DEF ErrorTimerFires, Rescheduled, requestVars,
     budgets, Retried, Promised, Retry, Reset, Unsettled, ClientTypeOK
<1>7. CASE Opens
  BY <1>7, ClientAssumption DEF Opens, Fault, requestVars, ClientTypeOK
<1>8. CASE HelloFails
  BY <1>8, ClientAssumption DEF HelloFails, Fault, Rescheduled, Retried, Promised,
     Retry, Reset, Unsettled, ClientTypeOK
<1>9. CASE ServerInfo
  <2>1. request' \in [Requests -> {"new", "queued", "sent", "answered", "failed"}]
    BY <1>9 DEF ServerInfo, ClientTypeOK, requestVars
  <2>2. /\ link' = "ready" /\ misses' = 0 /\ conn' \in {conn, "connected"}
        /\ promise' \in {promise, "none"} /\ timers' \subseteq timers
        /\ queue' \subseteq queue /\ waiters' = waiters /\ onWire' \subseteq onWire \cup queue
        /\ UNCHANGED <<enabled, budgets, torn>>
    BY <1>9 DEF ServerInfo, requestVars
  <2> QED
    BY <2>1, <2>2, ClientAssumption DEF ClientTypeOK, budgets
<1>10. CASE Closes
  BY <1>10, ClientAssumption DEF Closes, Fault, Rescheduled, Disposed, Retried,
     Promised, Retry, Reset, Unsettled, ClientTypeOK
<1>11. CASE Errors
  BY <1>11, ClientAssumption DEF Errors, Fault, Debounced, requestVars, ClientTypeOK
<1>12. CASE ErrorsWithReason
  BY <1>12, ClientAssumption DEF ErrorsWithReason, Fault, Rescheduled, Disposed,
     Retried, Promised, Retry, Reset, Unsettled, ClientTypeOK
<1>13. CASE CheckLiveness
  <2>1. CASE link = "ready"
    BY <1>13, <2>1 DEF CheckLiveness, ClientTypeOK, budgets
  <2>2. CASE link # "ready"
    BY <1>13, <2>2, MissedTyped DEF CheckLiveness, ClientTypeOK, Timers, budgets
  <2> QED
    BY <2>1, <2>2
<1>14. CASE Pong
  BY <1>14, ClientAssumption DEF Pong, budgets, ClientTypeOK
<1>15. CASE ProbeTimesOut
  <2>1. timers \ {"probe"} \in SUBSET Timers
    BY DEF ClientTypeOK, Timers
  <2>2. faults' \in 0..Faults
    BY <1>15, ClientAssumption DEF ProbeTimesOut, Fault, ClientTypeOK
  <2> QED
    BY <1>15, <2>1, <2>2, MissedTyped DEF ProbeTimesOut, ClientTypeOK
<1>16. ASSUME NEW r \in Requests, Request(r)
      PROVE  ClientTypeOK'
  BY <1>16, ClientAssumption DEF Request, linkVars, budgets, ClientTypeOK
<1>17. ASSUME NEW r \in Requests, Answer(r)
      PROVE  ClientTypeOK'
  BY <1>17, ClientAssumption DEF Answer, budgets, ClientTypeOK
<1>18. ASSUME NEW r \in Requests, WaiterTimesOut(r)
      PROVE  ClientTypeOK'
  BY <1>18, ClientAssumption DEF WaiterTimesOut, linkVars, budgets, ClientTypeOK
<1>19. ASSUME NEW r \in Requests, QueueTimesOut(r)
      PROVE  ClientTypeOK'
  BY <1>19, ClientAssumption DEF QueueTimesOut, Dequeued, linkVars, budgets,
     ClientTypeOK
<1>20. CASE UNCHANGED clientVars
  BY <1>20 DEF clientVars, linkVars, requestVars, budgets, ClientTypeOK
<1> QED
  BY <1>1, <1>2, <1>3, <1>4, <1>5, <1>6, <1>7, <1>8, <1>9, <1>10, <1>11, <1>12,
     <1>13, <1>14, <1>15, <1>16, <1>17, <1>18, <1>19, <1>20 DEF ClientNext

-----------------------------------------------------------------------------
(* The connection.                                                         *)

LEMMA LinkStep ==
  ASSUME ClientInv, [ClientNext]_clientVars
  PROVE  ClosedIsFinal' /\ NeverStuck' /\ Supports'
<1>1. CASE EnsureConnected
  BY <1>1, ClientAssumption DEF EnsureConnected, AttemptStarts, AttemptFails, Disposed,
     Fault, Retried, Retry, Reset, Unsettled, ClientInv, ClientTypeOK, ClosedIsFinal,
     NeverStuck, NobodyStranded, Supports
<1>2. CASE Close
  BY <1>2, ClientAssumption DEF Close, Left, Reset, budgets, Unsettled, ClientInv,
     ClientTypeOK, ClosedIsFinal, NeverStuck, NobodyStranded, Supports
<1>3. CASE SetReconnectEnabled
  BY <1>3, ClientAssumption DEF SetReconnectEnabled, requestVars, ClientInv, ClientTypeOK,
     ClosedIsFinal, NeverStuck, NobodyStranded, Supports
<1>4. CASE ReconnectFires
  BY <1>4, ClientAssumption DEF ReconnectFires, requestVars, AttemptStarts,
     AttemptFails, Promised, Disposed, Fault, Retried, Retry, Reset, Unsettled,
     ClientInv, ClientTypeOK, ClosedIsFinal, NeverStuck, NobodyStranded, Supports
<1>5. CASE ConnectTimesOut
  BY <1>5, ClientAssumption DEF ConnectTimesOut, Fault, Rescheduled, Disposed,
     requestVars, Retried, Promised, Retry, Reset, Unsettled, ClientInv, ClientTypeOK,
     ClosedIsFinal, NeverStuck, NobodyStranded, Supports
<1>6. CASE ErrorTimerFires
  BY <1>6, ClientAssumption DEF ErrorTimerFires, Rescheduled, requestVars,
     budgets, Retried, Promised, Retry, Reset, Unsettled, ClientInv, ClientTypeOK,
     ClosedIsFinal, NeverStuck, NobodyStranded, Supports
<1>7. CASE Opens
  BY <1>7, ClientAssumption DEF Opens, Fault, requestVars, ClientInv, ClientTypeOK,
     ClosedIsFinal, NeverStuck, NobodyStranded, Supports
<1>8. CASE HelloFails
  BY <1>8, ClientAssumption DEF HelloFails, Fault, Rescheduled, Retried, Promised,
     Retry, Reset, Unsettled, ClientInv, ClientTypeOK, ClosedIsFinal, NeverStuck,
     NobodyStranded, Supports
<1>9. CASE ServerInfo
  BY <1>9, ClientAssumption DEF ServerInfo, requestVars, budgets, ClientInv, ClientTypeOK,
     ClosedIsFinal, NeverStuck, NobodyStranded, Supports
<1>10. CASE Closes
  BY <1>10, ClientAssumption DEF Closes, Fault, Rescheduled, Disposed, Retried,
     Promised, Retry, Reset, Unsettled, ClientInv, ClientTypeOK, ClosedIsFinal, NeverStuck,
     NobodyStranded, Supports
<1>11. CASE Errors
  BY <1>11, ClientAssumption DEF Errors, Fault, Debounced, requestVars, ClientInv,
     ClientTypeOK, ClosedIsFinal, NeverStuck, NobodyStranded, Supports
<1>12. CASE ErrorsWithReason
  BY <1>12, ClientAssumption DEF ErrorsWithReason, Fault, Rescheduled, Disposed,
     Retried, Promised, Retry, Reset, Unsettled, ClientInv, ClientTypeOK, ClosedIsFinal,
     NeverStuck, NobodyStranded, Supports
<1>13. CASE CheckLiveness
  BY <1>13, ClientAssumption DEF CheckLiveness, Missed, budgets, Tolerated,
     requestVars, Rescheduled, Disposed, Retried, Promised, Retry, Reset,
     Unsettled, ClientInv, ClientTypeOK, ClosedIsFinal, NeverStuck, NobodyStranded, Supports
<1>14. CASE Pong
  BY <1>14, ClientAssumption DEF Pong, budgets, ClientInv, ClientTypeOK, ClosedIsFinal,
     NeverStuck, NobodyStranded, Supports
<1>15. CASE ProbeTimesOut
  BY <1>15, ClientAssumption DEF ProbeTimesOut, Fault, Missed, Tolerated,
     requestVars, Rescheduled, Disposed, Retried, Promised, Retry, Reset,
     Unsettled, ClientInv, ClientTypeOK, ClosedIsFinal, NeverStuck, NobodyStranded, Supports
<1>16. ASSUME NEW r \in Requests, Request(r)
      PROVE  ClosedIsFinal' /\ NeverStuck' /\ Supports'
  BY <1>16, ClientAssumption DEF Request, linkVars, budgets, ClientInv, ClientTypeOK,
     ClosedIsFinal, NeverStuck, NobodyStranded, Supports
<1>17. ASSUME NEW r \in Requests, Answer(r)
      PROVE  ClosedIsFinal' /\ NeverStuck' /\ Supports'
  BY <1>17, ClientAssumption DEF Answer, budgets, ClientInv, ClientTypeOK, ClosedIsFinal,
     NeverStuck, NobodyStranded, Supports
<1>18. ASSUME NEW r \in Requests, WaiterTimesOut(r)
      PROVE  ClosedIsFinal' /\ NeverStuck' /\ Supports'
  BY <1>18, ClientAssumption DEF WaiterTimesOut, linkVars, budgets, ClientInv, ClientTypeOK,
     ClosedIsFinal, NeverStuck, NobodyStranded, Supports
<1>19. ASSUME NEW r \in Requests, QueueTimesOut(r)
      PROVE  ClosedIsFinal' /\ NeverStuck' /\ Supports'
  BY <1>19, ClientAssumption DEF QueueTimesOut, Dequeued, linkVars, budgets, ClientInv,
     ClientTypeOK, ClosedIsFinal, NeverStuck, NobodyStranded, Supports
<1>20. CASE UNCHANGED clientVars
  BY <1>20 DEF clientVars, linkVars, requestVars, budgets, ClientInv, ClientTypeOK, ClosedIsFinal,
     NeverStuck, NobodyStranded, Supports
<1> QED
  BY <1>1, <1>2, <1>3, <1>4, <1>5, <1>6, <1>7, <1>8, <1>9, <1>10, <1>11, <1>12,
     <1>13, <1>14, <1>15, <1>16, <1>17, <1>18, <1>19, <1>20 DEF ClientNext

-----------------------------------------------------------------------------
(* The requests.                                                           *)

LEMMA RequestStep ==
  ASSUME ClientInv, [ClientNext]_clientVars
  PROVE  NobodyStranded'
<1>1. CASE EnsureConnected
  BY <1>1, ClientAssumption DEF EnsureConnected, AttemptStarts, AttemptFails, Disposed,
     Fault, Retried, Retry, Reset, Unsettled, ClientInv, ClientTypeOK, ClosedIsFinal,
     NeverStuck, NobodyStranded, Supports
<1>2. CASE Close
  BY <1>2, ClientAssumption DEF Close, Left, Reset, budgets, Unsettled, ClientInv,
     ClientTypeOK, ClosedIsFinal, NeverStuck, NobodyStranded, Supports
<1>3. CASE SetReconnectEnabled
  BY <1>3, ClientAssumption DEF SetReconnectEnabled, requestVars, ClientInv, ClientTypeOK,
     ClosedIsFinal, NeverStuck, NobodyStranded, Supports
<1>4. CASE ReconnectFires
  BY <1>4, ClientAssumption DEF ReconnectFires, requestVars, AttemptStarts,
     AttemptFails, Promised, Disposed, Fault, Retried, Retry, Reset, Unsettled,
     ClientInv, ClientTypeOK, ClosedIsFinal, NeverStuck, NobodyStranded, Supports
<1>5. CASE ConnectTimesOut
  BY <1>5, ClientAssumption DEF ConnectTimesOut, Fault, Rescheduled, Disposed,
     requestVars, Retried, Promised, Retry, Reset, Unsettled, ClientInv, ClientTypeOK,
     ClosedIsFinal, NeverStuck, NobodyStranded, Supports
<1>6. CASE ErrorTimerFires
  BY <1>6, ClientAssumption DEF ErrorTimerFires, Rescheduled, requestVars,
     budgets, Retried, Promised, Retry, Reset, Unsettled, ClientInv, ClientTypeOK,
     ClosedIsFinal, NeverStuck, NobodyStranded, Supports
<1>7. CASE Opens
  BY <1>7, ClientAssumption DEF Opens, Fault, requestVars, ClientInv, ClientTypeOK,
     ClosedIsFinal, NeverStuck, NobodyStranded, Supports
<1>8. CASE HelloFails
  BY <1>8, ClientAssumption DEF HelloFails, Fault, Rescheduled, Retried, Promised,
     Retry, Reset, Unsettled, ClientInv, ClientTypeOK, ClosedIsFinal, NeverStuck,
     NobodyStranded, Supports
<1>9. CASE ServerInfo
  BY <1>9, ClientAssumption DEF ServerInfo, requestVars, budgets, ClientInv, ClientTypeOK,
     ClosedIsFinal, NeverStuck, NobodyStranded, Supports
<1>10. CASE Closes
  BY <1>10, ClientAssumption DEF Closes, Fault, Rescheduled, Disposed, Retried,
     Promised, Retry, Reset, Unsettled, ClientInv, ClientTypeOK, ClosedIsFinal, NeverStuck,
     NobodyStranded, Supports
<1>11. CASE Errors
  BY <1>11, ClientAssumption DEF Errors, Fault, Debounced, requestVars, ClientInv,
     ClientTypeOK, ClosedIsFinal, NeverStuck, NobodyStranded, Supports
<1>12. CASE ErrorsWithReason
  BY <1>12, ClientAssumption DEF ErrorsWithReason, Fault, Rescheduled, Disposed,
     Retried, Promised, Retry, Reset, Unsettled, ClientInv, ClientTypeOK, ClosedIsFinal,
     NeverStuck, NobodyStranded, Supports
<1>13. CASE CheckLiveness
  BY <1>13, ClientAssumption DEF CheckLiveness, Missed, budgets, Tolerated,
     requestVars, Rescheduled, Disposed, Retried, Promised, Retry, Reset,
     Unsettled, ClientInv, ClientTypeOK, ClosedIsFinal, NeverStuck, NobodyStranded, Supports
<1>14. CASE Pong
  BY <1>14, ClientAssumption DEF Pong, budgets, ClientInv, ClientTypeOK, ClosedIsFinal,
     NeverStuck, NobodyStranded, Supports
<1>15. CASE ProbeTimesOut
  BY <1>15, ClientAssumption DEF ProbeTimesOut, Fault, Missed, Tolerated,
     requestVars, Rescheduled, Disposed, Retried, Promised, Retry, Reset,
     Unsettled, ClientInv, ClientTypeOK, ClosedIsFinal, NeverStuck, NobodyStranded, Supports
<1>16. ASSUME NEW r \in Requests, Request(r)
      PROVE  NobodyStranded'
  BY <1>16, ClientAssumption DEF Request, linkVars, budgets, ClientInv, ClientTypeOK,
     ClosedIsFinal, NeverStuck, NobodyStranded, Supports
<1>17. ASSUME NEW r \in Requests, Answer(r)
      PROVE  NobodyStranded'
  BY <1>17, ClientAssumption DEF Answer, budgets, ClientInv, ClientTypeOK, ClosedIsFinal,
     NeverStuck, NobodyStranded, Supports
<1>18. ASSUME NEW r \in Requests, WaiterTimesOut(r)
      PROVE  NobodyStranded'
  BY <1>18, ClientAssumption DEF WaiterTimesOut, linkVars, budgets, ClientInv, ClientTypeOK,
     ClosedIsFinal, NeverStuck, NobodyStranded, Supports
<1>19. ASSUME NEW r \in Requests, QueueTimesOut(r)
      PROVE  NobodyStranded'
  BY <1>19, ClientAssumption DEF QueueTimesOut, Dequeued, linkVars, budgets, ClientInv,
     ClientTypeOK, ClosedIsFinal, NeverStuck, NobodyStranded, Supports
<1>20. CASE UNCHANGED clientVars
  BY <1>20 DEF clientVars, linkVars, requestVars, budgets, ClientInv, ClientTypeOK, ClosedIsFinal,
     NeverStuck, NobodyStranded, Supports
<1> QED
  BY <1>1, <1>2, <1>3, <1>4, <1>5, <1>6, <1>7, <1>8, <1>9, <1>10, <1>11, <1>12,
     <1>13, <1>14, <1>15, <1>16, <1>17, <1>18, <1>19, <1>20 DEF ClientNext

(* What goes out on the wire was queued or is new.                          *)
LEMMA WireStep ==
  ASSUME ClientInv, [ClientNext]_clientVars
  PROVE  \A r \in Requests : request[r] \in {"failed", "answered"} => r \notin onWire' \ onWire
<1> DEFINE Goal == \A q \in Requests : request[q] \in {"failed", "answered"} => q \notin onWire' \ onWire
<1> SUFFICES Goal
  OBVIOUS
<1>1. CASE EnsureConnected
  BY <1>1, ClientAssumption DEF EnsureConnected, AttemptStarts, AttemptFails, Disposed,
     Fault, Retried, Retry, Reset, Unsettled, ClientInv, ClientTypeOK, NobodyStranded
<1>2. CASE Close
  BY <1>2, ClientAssumption DEF Close, Left, Reset, budgets, Unsettled, ClientInv,
     ClientTypeOK, NobodyStranded
<1>3. CASE SetReconnectEnabled
  BY <1>3, ClientAssumption DEF SetReconnectEnabled, requestVars, ClientInv, ClientTypeOK,
     NobodyStranded
<1>4. CASE ReconnectFires
  BY <1>4, ClientAssumption DEF ReconnectFires, requestVars, AttemptStarts,
     AttemptFails, Promised, Disposed, Fault, Retried, Retry, Reset, Unsettled,
     ClientInv, ClientTypeOK, NobodyStranded
<1>5. CASE ConnectTimesOut
  BY <1>5, ClientAssumption DEF ConnectTimesOut, Fault, Rescheduled, Disposed,
     requestVars, Retried, Promised, Retry, Reset, Unsettled, ClientInv, ClientTypeOK,
     NobodyStranded
<1>6. CASE ErrorTimerFires
  BY <1>6, ClientAssumption DEF ErrorTimerFires, Rescheduled, requestVars,
     budgets, Retried, Promised, Retry, Reset, Unsettled, ClientInv, ClientTypeOK,
     NobodyStranded
<1>7. CASE Opens
  BY <1>7, ClientAssumption DEF Opens, Fault, requestVars, ClientInv, ClientTypeOK,
     NobodyStranded
<1>8. CASE HelloFails
  BY <1>8, ClientAssumption DEF HelloFails, Fault, Rescheduled, Retried, Promised,
     Retry, Reset, Unsettled, ClientInv, ClientTypeOK, NobodyStranded
<1>9. CASE ServerInfo
  BY <1>9, ClientAssumption DEF ServerInfo, requestVars, budgets, ClientInv, ClientTypeOK,
     NobodyStranded
<1>10. CASE Closes
  BY <1>10, ClientAssumption DEF Closes, Fault, Rescheduled, Disposed, Retried,
     Promised, Retry, Reset, Unsettled, ClientInv, ClientTypeOK, NobodyStranded
<1>11. CASE Errors
  BY <1>11, ClientAssumption DEF Errors, Fault, Debounced, requestVars, ClientInv,
     ClientTypeOK, NobodyStranded
<1>12. CASE ErrorsWithReason
  BY <1>12, ClientAssumption DEF ErrorsWithReason, Fault, Rescheduled, Disposed,
     Retried, Promised, Retry, Reset, Unsettled, ClientInv, ClientTypeOK, NobodyStranded
<1>13. CASE CheckLiveness
  BY <1>13, ClientAssumption DEF CheckLiveness, Missed, budgets, Tolerated,
     requestVars, Rescheduled, Disposed, Retried, Promised, Retry, Reset,
     Unsettled, ClientInv, ClientTypeOK, NobodyStranded
<1>14. CASE Pong
  BY <1>14, ClientAssumption DEF Pong, budgets, ClientInv, ClientTypeOK, NobodyStranded
<1>15. CASE ProbeTimesOut
  BY <1>15, ClientAssumption DEF ProbeTimesOut, Fault, Missed, Tolerated,
     requestVars, Rescheduled, Disposed, Retried, Promised, Retry, Reset,
     Unsettled, ClientInv, ClientTypeOK, NobodyStranded
<1>16. ASSUME NEW r \in Requests, Request(r)
      PROVE  Goal
  BY <1>16, ClientAssumption DEF Request, linkVars, budgets, ClientInv, ClientTypeOK,
     NobodyStranded
<1>17. ASSUME NEW r \in Requests, Answer(r)
      PROVE  Goal
  BY <1>17, ClientAssumption DEF Answer, budgets, ClientInv, ClientTypeOK, NobodyStranded
<1>18. ASSUME NEW r \in Requests, WaiterTimesOut(r)
      PROVE  Goal
  BY <1>18, ClientAssumption DEF WaiterTimesOut, linkVars, budgets, ClientInv, ClientTypeOK,
     NobodyStranded
<1>19. ASSUME NEW r \in Requests, QueueTimesOut(r)
      PROVE  Goal
  BY <1>19, ClientAssumption DEF QueueTimesOut, Dequeued, linkVars, budgets, ClientInv,
     ClientTypeOK, NobodyStranded
<1>20. CASE UNCHANGED clientVars
  BY <1>20 DEF clientVars, linkVars, requestVars, budgets, ClientInv, ClientTypeOK, NobodyStranded
<1> QED
  BY <1>1, <1>2, <1>3, <1>4, <1>5, <1>6, <1>7, <1>8, <1>9, <1>10, <1>11, <1>12,
     <1>13, <1>14, <1>15, <1>16, <1>17, <1>18, <1>19, <1>20 DEF ClientNext

-----------------------------------------------------------------------------
(* The theorems.                                                           *)

LEMMA ClientStart == ClientInit => ClientInv
BY ClientAssumption DEF ClientInit, ClientInv, ClientTypeOK, ClosedIsFinal, NeverStuck, NobodyStranded, Supports

(* The inductive invariant.                                                *)
THEOREM ClientInductive == ClientSpec => []ClientInv
<1>1. ClientInv /\ [ClientNext]_clientVars => ClientInv'
  BY ClientTypeStep, LinkStep, RequestStep DEF ClientInv
<1> QED
  BY <1>1, ClientStart, PTL DEF ClientSpec

(* Every variable keeps its type; the count of failed probes stays below    *)
(* the threshold.                                                          *)
THEOREM ClientTypeCorrect == ClientSpec => []ClientTypeOK
<1>1. ClientInv => ClientTypeOK
  BY DEF ClientInv
<1> QED
  BY <1>1, ClientInductive, PTL

(* close() leaves no timer, transport or caller behind.                     *)
THEOREM CloseIsFinal == ClientSpec => []ClosedIsFinal
<1>1. ClientInv => ClosedIsFinal
  BY DEF ClientInv
<1> QED
  BY <1>1, ClientInductive, PTL

(* Whoever waits for the connection has a timer that ends the wait.         *)
THEOREM WaitEnds == ClientSpec => []NeverStuck
<1>1. ClientInv => NeverStuck
  BY DEF ClientInv
<1> QED
  BY <1>1, ClientInductive, PTL

(* A request counts as sent or queued only while its answer or its sending  *)
(* can still come.                                                         *)
THEOREM NoRequestStranded == ClientSpec => []NobodyStranded
<1>1. ClientInv => NobodyStranded
  BY DEF ClientInv
<1> QED
  BY <1>1, ClientInductive, PTL

(* A request whose caller was told is not sent afterwards.                  *)
THEOREM FailedStaysUnsent == ClientSpec => NotSentAfterFailure
<1>1. ClientInv /\ [ClientNext]_clientVars =>
        [\A r \in Requests : request[r] \in {"failed", "answered"} => r \notin onWire' \ onWire]_clientVars
  BY WireStep
<1> QED
  BY <1>1, ClientInductive, PTL DEF ClientSpec, NotSentAfterFailure
=============================================================================
