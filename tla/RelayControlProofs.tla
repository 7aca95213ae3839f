------------------------- MODULE RelayControlProofs -------------------------
(***************************************************************************)
(* Proofs about RelayControl, for any set of connection ids and any pools. *)
(***************************************************************************)
EXTENDS RelayControl, WellFoundedInduction, TLAPS

-----------------------------------------------------------------------------
(* Type correctness.                                                       *)

(* What a control socket and a data socket are.                            *)
ControlSocket == [d : DaemonEnd \ {"closing"}, w : WorkerEnd, live : BOOLEAN]
DataSocket == [d : DaemonEnd, w : WorkerEnd]

LEMMA SocketsTyped ==
  ASSUME TypeOK
  PROVE  /\ control \in [1..Controls -> ControlSocket] /\ data \in [DataSockets -> DataSocket]
         /\ \A k \in 1..Controls : box[k] \in Seq(Message)
BY DEF TypeOK, ControlSocket, DataSocket

LEMMA ControlSet ==
  ASSUME NEW c \in ControlSocket
  PROVE  /\ \A w \in WorkerEnd : [c EXCEPT !.w = w] \in ControlSocket
         /\ \A d \in DaemonEnd \ {"closing"} : [c EXCEPT !.d = d] \in ControlSocket
         /\ [c EXCEPT !.live = FALSE] \in ControlSocket
BY DEF ControlSocket

LEMMA DataSet ==
  ASSUME NEW e \in DataSocket
  PROVE  /\ \A w \in WorkerEnd : [e EXCEPT !.w = w] \in DataSocket
         /\ \A d \in DaemonEnd : [e EXCEPT !.d = d] \in DataSocket
BY DEF DataSocket

LEMMA Ends ==
  /\ {"none", "connecting", "open", "closed"} \subseteq DaemonEnd \ {"closing"}
  /\ "closing" \in DaemonEnd
  /\ {"none", "asked", "open", "closing", "gone"} \subseteq WorkerEnd
BY DEF DaemonEnd, WorkerEnd

LEMMA ConnectedTyped == Connected \in SUBSET Ids
BY DEF Connected

LEMMA MessageTyped ==
  ASSUME NEW ids \in SUBSET Ids, NEW type \in {"sync", "connected", "disconnected", "close"}
  PROVE  [type |-> type, ids |-> ids] \in Message
BY DEF Message

LEMMA NotifyTyped ==
  ASSUME TypeOK, NEW ids \in SUBSET Ids, NEW type \in {"sync", "connected", "disconnected", "close"},
         Notify(type, ids)
  PROVE  box' \in [1..Controls -> Seq(Message)]
<1>1. [type |-> type, ids |-> ids] \in Message
  BY MessageTyped
<1>2. \A k \in 1..Controls : Append(box[k], [type |-> type, ids |-> ids]) \in Seq(Message)
  BY <1>1, SocketsTyped
<1> QED
  BY <1>2, SocketsTyped DEF Notify, Post

LEMMA ClosedTyped ==
  ASSUME TypeOK, NEW K \in SUBSET (1..Controls)
  PROVE  /\ Closed(K) \in [1..Controls -> ControlSocket]
         /\ Told(K) \in [1..Controls -> Seq(Message)]
<1>1. [type |-> "close", ids |-> {}] \in Message
  BY MessageTyped
<1>2. ASSUME NEW k \in 1..Controls
      PROVE  /\ [control[k] EXCEPT !.w = "closing"] \in ControlSocket
             /\ Append(box[k], [type |-> "close", ids |-> {}]) \in Seq(Message)
  <2>1. [control[k] EXCEPT !.w = "closing"] \in ControlSocket
    BY SocketsTyped, ControlSet, Ends
  <2>2. Append(box[k], [type |-> "close", ids |-> {}]) \in Seq(Message)
    BY <1>1, SocketsTyped
  <2> QED
    BY <2>1, <2>2
<1> QED
  BY <1>2, SocketsTyped DEF Closed, Told

LEMMA ClosingTyped ==
  ASSUME TypeOK, NEW s \in DataSockets
  PROVE  Closing(s) \in DataSocket
<1>1. [data[s] EXCEPT !.w = "closing"] \in DataSocket
  BY SocketsTyped, DataSet, Ends
<1> QED
  BY <1>1, SocketsTyped DEF Closing

(* Of the pool of data sockets the first that is free is taken.             *)
LEMMA LeastOf ==
  ASSUME NEW S \in SUBSET (1..Tries), S # {}
  PROVE  Min(S) \in S
<1>1. S \subseteq Nat
  BY RelayAssumption
<1>2. PICK x \in S : \A y \in S : ~(<<y, x>> \in OpToRel(<, Nat))
  BY <1>1, NatLessThanWellFounded, WFMin
<1>3. \A y \in S : ~(y < x)
  BY <1>1, <1>2, Zenon DEF OpToRel
<1>4. \A y \in S : x <= y
  BY <1>1, <1>3
<1> QED
  BY <1>4 DEF Min

LEMMA AcquireTyped ==
  ASSUME TypeOK, NEW ids \in SUBSET Ids, Acquire(ids)
  PROVE  /\ data' \in [DataSockets -> DataSocket] /\ held' \in [Ids -> 0..Tries]
         /\ skipped' \subseteq Ids
<1> DEFINE fresh(id) == {n \in 1..Tries : Free(data[<<id, n>>])}
<1>1. PICK A \in SUBSET Ids :
        /\ \A id \in A : fresh(id) # {}
        /\ held' = [id \in Ids |-> IF id \in A THEN Min(fresh(id)) ELSE held[id]]
        /\ data' = [s \in DataSockets |->
                      IF s[1] \in A /\ s[2] = Min(fresh(s[1])) THEN Asked ELSE data[s]]
        /\ skipped' = (skipped \cup {id \in ids : held[id] = 0}) \ A
  BY DEF Acquire
<1>2. \A id \in A : Min(fresh(id)) \in 1..Tries
  BY <1>1, LeastOf
<1>3. Asked \in DataSocket
  BY DEF Asked, DataSocket, DaemonEnd, WorkerEnd
<1> QED
  BY <1>1, <1>2, <1>3, SocketsTyped, RelayAssumption DEF TypeOK

(* An id that has a socket, open or not yet closed, gets no other one.      *)
LEMMA AcquireOne ==
  ASSUME TypeOK, OneDataSocket, ~stopped, stopped' = stopped,
         NEW ids \in SUBSET Ids, Acquire(ids)
  PROVE  OneDataSocket'
<1> DEFINE fresh(id) == {n \in 1..Tries : Free(data[<<id, n>>])}
<1>1. PICK A \in SUBSET {id \in ids : held[id] = 0} :
        /\ \A id \in A : fresh(id) # {}
        /\ held' = [id \in Ids |-> IF id \in A THEN Min(fresh(id)) ELSE held[id]]
        /\ data' = [s \in DataSockets |->
                      IF s[1] \in A /\ s[2] = Min(fresh(s[1])) THEN Asked ELSE data[s]]
  BY DEF Acquire
<1>2. SUFFICES ASSUME NEW s \in DataSockets, data'[s].d \in {"connecting", "open", "closing"}
               PROVE  held'[s[1]] = s[2]
  BY DEF OneDataSocket
<1>3. s[1] \in Ids /\ s[2] \in 1..Tries
  BY DEF DataSockets
<1>4. CASE s[1] \notin A
  BY <1>1, <1>2, <1>3, <1>4 DEF OneDataSocket
<1>5. CASE s[1] \in A /\ s[2] = Min(fresh(s[1]))
  BY <1>1, <1>3, <1>5
<1>6. CASE s[1] \in A /\ s[2] # Min(fresh(s[1]))
  <2>1. data[s].d \in {"connecting", "open", "closing"} /\ held[s[1]] = 0
    BY <1>1, <1>2, <1>6
  <2> QED
    BY <1>3, <2>1, RelayAssumption DEF OneDataSocket
<1> QED
  BY <1>4, <1>5, <1>6

LEMMA ControlClosedTyped ==
  ASSUME TypeOK, NEW k \in 1..Controls, ControlClosed(k), faults' \in 0..Faults
  PROVE  TypeOK'
<1> DEFINE w == IF control[k].w = "asked" THEN "asked" ELSE "gone"
<1>1. [control[k] EXCEPT !.d = "closed", !.live = FALSE, !.w = w] \in ControlSocket
  BY SocketsTyped, ControlSet, Ends
<1>2. control' = [control EXCEPT ![k] = [control[k] EXCEPT !.d = "closed", !.live = FALSE, !.w = w]]
  BY SocketsTyped DEF ControlClosed, ControlSocket
<1>3. control' \in [1..Controls -> ControlSocket]
  BY <1>1, <1>2, SocketsTyped
<1> QED
  BY <1>3, RelayAssumption DEF ControlClosed, ScheduleReconnect, TypeOK, worker, ControlSocket


LEMMA TypeStep ==
  ASSUME TypeOK, [Next]_vars
  PROVE  TypeOK'
<1>1. ASSUME NEW id \in Ids, ClientConnects(id)
      PROVE  TypeOK'
  <2>1. box' \in [1..Controls -> Seq(Message)]
    BY <1>1, NotifyTyped DEF ClientConnects
  <2> QED
    BY <1>1, <2>1 DEF ClientConnects, TypeOK, daemon
<1>2. ASSUME NEW id \in Ids, ClientGone(id)
      PROVE  TypeOK'
  <2>1. box' \in [1..Controls -> Seq(Message)]
    BY <1>2, NotifyTyped DEF ClientGone
  <2>2. data' \in [DataSockets -> DataSocket]
    BY <1>2, SocketsTyped, ClosingTyped DEF ClientGone
  <2> QED
    BY <1>2, <2>1, <2>2 DEF ClientGone, TypeOK, daemon, DataSocket
<1>3. ASSUME NEW id \in Ids, NudgeFires(id)
      PROVE  TypeOK'
  <2>1. /\ nudge' \in [Ids -> {"none", "first", "second", "done"}]
        /\ UNCHANGED <<client, data, daemon, faults>>
    BY <1>3 DEF NudgeFires, TypeOK
  <2>2. \/ Notify("sync", Connected) /\ UNCHANGED control
        \/ control' = Closed(1..Controls) /\ box' = Told(1..Controls)
        \/ UNCHANGED <<control, box>>
    BY <1>3 DEF NudgeFires
  <2>3. control' \in [1..Controls -> ControlSocket] /\ box' \in [1..Controls -> Seq(Message)]
    <3>1. CASE Notify("sync", Connected) /\ UNCHANGED control
      BY <3>1, SocketsTyped, ConnectedTyped, NotifyTyped
    <3>2. CASE control' = Closed(1..Controls) /\ box' = Told(1..Controls)
      BY <3>2, ClosedTyped
    <3>3. CASE UNCHANGED <<control, box>>
      BY <3>3, SocketsTyped DEF TypeOK
    <3> QED
      BY <2>2, <3>1, <3>2, <3>3
  <2> QED
    BY <2>1, <2>3 DEF TypeOK, daemon, ControlSocket
<1>4. ASSUME NEW k \in 1..Controls, AcceptControl(k)
      PROVE  TypeOK'
  <2> DEFINE others == (1..Controls) \ {k}
  <2>1. Closed(others) \in [1..Controls -> ControlSocket] /\ Told(others) \in [1..Controls -> Seq(Message)]
    BY ClosedTyped
  <2>2. control' = [Closed(others) EXCEPT ![k].w = "open"]
    BY <1>4 DEF AcceptControl
  <2>3. [Closed(others)[k] EXCEPT !.w = "open"] \in ControlSocket
    BY <2>1, ControlSet, Ends
  <2>4. control' \in [1..Controls -> ControlSocket]
    BY <2>1, <2>2, <2>3
  <2>5. <<[type |-> "sync", ids |-> Connected]>> \in Seq(Message)
    <3>1. [type |-> "sync", ids |-> Connected] \in Message
      BY ConnectedTyped, MessageTyped
    <3> QED
      BY <3>1
  <2>6. box' \in [1..Controls -> Seq(Message)]
    <3> DEFINE first == IF control[k].live THEN <<[type |-> "sync", ids |-> Connected]>> ELSE <<>>
    <3>1. box' = [Told(others) EXCEPT ![k] = first]
      BY <1>4 DEF AcceptControl
    <3>2. first \in Seq(Message)
      BY <2>5
    <3> HIDE DEF first
    <3> QED
      BY <2>1, <3>1, <3>2
  <2> QED
    BY <1>4, <2>4, <2>6 DEF AcceptControl, TypeOK, worker, daemon, ControlSocket
<1>5. ASSUME NEW k \in 1..Controls, ControlGone(k)
      PROVE  TypeOK'
  BY <1>5, RelayAssumption DEF ControlGone, worker, daemon, TypeOK, DaemonEnd,
     WorkerEnd
<1>6. ASSUME NEW k \in 1..Controls, ControlMessage(k)
      PROVE  TypeOK'
  <2>1. box[k] \in Seq(Message) /\ box[k] # <<>> /\ Head(box[k]) \in Message
    BY <1>6, SocketsTyped DEF ControlMessage
  <2>2. box' \in [1..Controls -> Seq(Message)]
    BY <1>6, <2>1, SocketsTyped DEF ControlMessage, TypeOK
  <2>3. [control[k] EXCEPT !.d = "open"] \in ControlSocket
    BY SocketsTyped, ControlSet, Ends
  <2>4. control' \in [1..Controls -> ControlSocket]
    BY <1>6, <2>3, SocketsTyped DEF ControlMessage
  <2>5. Head(box[k]).ids \in SUBSET Ids
    BY <2>1 DEF Message
  <2>6. /\ data' \in [DataSockets -> DataSocket] /\ held' \in [Ids -> 0..Tries]
        /\ skipped' \subseteq Ids
    <3>1. ASSUME Release(Head(box[k]).ids)
          PROVE  /\ data' \in [DataSockets -> DataSocket] /\ held' \in [Ids -> 0..Tries]
                 /\ skipped' \subseteq Ids
      <4>1. \A s \in DataSockets : [data[s] EXCEPT !.d = "closing"] \in DataSocket
        BY SocketsTyped, DataSet, Ends
      <4> QED
        BY <3>1, <4>1, SocketsTyped DEF Release, TypeOK
    <3>2. ASSUME Acquire(Head(box[k]).ids)
          PROVE  /\ data' \in [DataSockets -> DataSocket] /\ held' \in [Ids -> 0..Tries]
                 /\ skipped' \subseteq Ids
      BY <2>5, <3>2, AcquireTyped
    <3> QED
      BY <1>6, <3>1, <3>2 DEF ControlMessage
  <2> QED
    BY <1>6, <2>2, <2>4, <2>6 DEF ControlMessage, TypeOK, worker, ControlSocket, DataSocket
<1>7. ASSUME NEW k \in 1..Controls, WorkerCloses(k)
      PROVE  TypeOK'
  BY <1>7, ControlClosedTyped, RelayAssumption DEF WorkerCloses, TypeOK
<1>8. ASSUME NEW k \in 1..Controls, Terminate(k)
      PROVE  TypeOK'
  <2>1. faults' \in 0..Faults
    BY <1>8, RelayAssumption DEF Terminate, Fault, TypeOK
  <2> QED
    BY <1>8, <2>1, ControlClosedTyped DEF Terminate
<1>9. ASSUME NEW k \in 1..Controls, LoseControl(k)
      PROVE  TypeOK'
  <2>1. faults' \in 0..Faults
    BY <1>9, RelayAssumption DEF LoseControl, Fault, TypeOK
  <2>2. [control[k] EXCEPT !.live = FALSE] \in ControlSocket
    BY SocketsTyped, ControlSet, Ends
  <2>3. control' \in [1..Controls -> ControlSocket]
    BY <1>9, <2>2, SocketsTyped DEF LoseControl
  <2> QED
    BY <1>9, <2>1, <2>3 DEF LoseControl, TypeOK, worker, daemon, ControlSocket
<1>10. ASSUME NEW s \in DataSockets, AcceptData(s)
      PROVE  TypeOK'
  BY <1>10, RelayAssumption DEF AcceptData, DataSockets, Closing, worker, daemon,
     TypeOK, DaemonEnd, WorkerEnd
<1>11. ASSUME NEW s \in DataSockets, DataGone(s)
      PROVE  TypeOK'
  BY <1>11, RelayAssumption DEF DataGone, daemon, TypeOK, DaemonEnd, WorkerEnd
<1>12. ASSUME NEW s \in DataSockets, DataOpens(s)
      PROVE  TypeOK'
  BY <1>12, RelayAssumption DEF DataOpens, Listed, worker, daemon, TypeOK,
     DaemonEnd, WorkerEnd
<1>13. ASSUME NEW s \in DataSockets, DataClosed(s)
      PROVE  TypeOK'
  <2>1. [data[s] EXCEPT !.d = "closed"] \in DataSocket
    BY SocketsTyped, DataSet, Ends
  <2>2. data' \in [DataSockets -> DataSocket]
    BY <1>13, <2>1, SocketsTyped DEF DataClosed
  <2>3. held' \in [Ids -> 0..Tries]
    <3>1. 0 \in 0..Tries
      BY RelayAssumption
    <3> QED
      BY <1>13, <3>1 DEF DataClosed, TypeOK
  <2> QED
    BY <1>13, <2>2, <2>3 DEF DataClosed, TypeOK, worker, DataSocket
<1>14. ASSUME NEW s \in DataSockets, BreakData(s)
      PROVE  TypeOK'
  <2>1. faults' \in 0..Faults
    BY <1>14, RelayAssumption DEF BreakData, Fault, TypeOK
  <2>2. [data[s] EXCEPT !.d = "closing"] \in DataSocket
    BY SocketsTyped, DataSet, Ends
  <2>3. data' \in [DataSockets -> DataSocket]
    BY <1>14, <2>2, SocketsTyped DEF BreakData
  <2> QED
    BY <1>14, <2>1, <2>3 DEF BreakData, TypeOK, worker, daemon, DataSocket
<1>15. CASE ReconnectFires
  <2>1. PICK k \in 1..Controls : cur' = k /\ control' = [control EXCEPT ![k] = Connecting]
    BY <1>15 DEF ReconnectFires
  <2>2. Connecting \in ControlSocket
    BY DEF Connecting, ControlSocket, DaemonEnd, WorkerEnd
  <2>3. control' \in [1..Controls -> ControlSocket]
    BY <2>1, <2>2, SocketsTyped
  <2>4. cur' \in 0..Controls /\ timer' = FALSE /\ later' = TRUE
    BY <1>15, <2>1, RelayAssumption DEF ReconnectFires
  <2>5. UNCHANGED <<worker, box, data, held, skipped, stopped, faults>>
    BY <1>15 DEF ReconnectFires
  <2> QED
    BY <2>3, <2>4, <2>5 DEF TypeOK, worker, ControlSocket
<1>16. CASE Stop
  <2>1. control' \in [1..Controls -> ControlSocket]
    BY <1>16, SocketsTyped, ControlSet DEF Stop, DaemonEnd, WorkerEnd
  <2>2. data' \in [DataSockets -> DataSocket]
    BY <1>16, SocketsTyped, DataSet DEF Stop, DaemonEnd, WorkerEnd
  <2>3. /\ cur' \in 0..Controls /\ held' \in [Ids -> 0..Tries]
        /\ box' \in [1..Controls -> Seq(Message)]
    <3>1. cur' = 0 /\ held' = [id \in Ids |-> 0] /\ box' = [j \in 1..Controls |-> <<>>]
      BY <1>16 DEF Stop
    <3>2. 0 \in 0..Controls /\ 0 \in 0..Tries /\ <<>> \in Seq(Message)
      BY RelayAssumption
    <3> QED
      BY <3>1, <3>2
  <2>4. stopped' = TRUE /\ timer' = FALSE /\ UNCHANGED <<worker, skipped, later, faults>>
    BY <1>16 DEF Stop
  <2> QED
    BY <2>1, <2>2, <2>3, <2>4 DEF TypeOK, worker, ControlSocket, DataSocket
<1>17. CASE UNCHANGED vars
  BY <1>17 DEF vars, TypeOK
<1> QED
  BY <1>1, <1>2, <1>3, <1>4, <1>5, <1>6, <1>7, <1>8, <1>9, <1>10, <1>11, <1>12,
     <1>13, <1>14, <1>15, <1>16, <1>17 DEF Next, ControlStep, DataStep


LEMMA KeptStep ==
  ASSUME TypeOK, ControlKept, [Next]_vars
  PROVE  ControlKept'
<1>1. ASSUME NEW id \in Ids, ClientConnects(id)
      PROVE  ControlKept'
  BY <1>1, RelayAssumption DEF ClientConnects, Notify, daemon, Post, ControlKept
<1>2. ASSUME NEW id \in Ids, ClientGone(id)
      PROVE  ControlKept'
  BY <1>2, RelayAssumption DEF ClientGone, HasClient, DataSockets, Closing,
     Notify, daemon, Listed, Post, ControlKept
<1>3. ASSUME NEW id \in Ids, NudgeFires(id)
      PROVE  ControlKept'
  BY <1>3, RelayAssumption DEF NudgeFires, HasClient, HasServerData, Notify,
     Connected, Closed, Told, daemon, Listed, Post, ControlKept
<1>4. ASSUME NEW k \in 1..Controls, AcceptControl(k)
      PROVE  ControlKept'
  BY <1>4, RelayAssumption DEF AcceptControl, Connected, Closed, Told, worker,
     daemon, HasClient, Listed, ControlKept
<1>5. ASSUME NEW k \in 1..Controls, ControlGone(k)
      PROVE  ControlKept'
  BY <1>5, RelayAssumption DEF ControlGone, worker, daemon, ControlKept
<1>6. ASSUME NEW k \in 1..Controls, ControlMessage(k)
      PROVE  ControlKept'
  BY <1>6, RelayAssumption DEF ControlMessage, Heads, Release, Acquire, worker,
     DataSockets, Free, Asked, ControlKept, daemon
<1>7. ASSUME NEW k \in 1..Controls, WorkerCloses(k)
      PROVE  ControlKept'
  BY <1>7, RelayAssumption DEF WorkerCloses, Heads, ControlClosed,
     ScheduleReconnect, worker, ControlKept, daemon
<1>8. ASSUME NEW k \in 1..Controls, Terminate(k)
      PROVE  ControlKept'
  BY <1>8, RelayAssumption DEF Terminate, Fault, ControlClosed, ScheduleReconnect,
     worker, ControlKept, daemon
<1>9. ASSUME NEW k \in 1..Controls, LoseControl(k)
      PROVE  ControlKept'
  BY <1>9, RelayAssumption DEF LoseControl, Fault, worker, daemon, ControlKept
<1>10. ASSUME NEW s \in DataSockets, AcceptData(s)
      PROVE  ControlKept'
  BY <1>10, RelayAssumption DEF AcceptData, DataSockets, Closing, worker, daemon,
     ControlKept
<1>11. ASSUME NEW s \in DataSockets, DataGone(s)
      PROVE  ControlKept'
  BY <1>11, RelayAssumption DEF DataGone, daemon, ControlKept
<1>12. ASSUME NEW s \in DataSockets, DataOpens(s)
      PROVE  ControlKept'
  BY <1>12, RelayAssumption DEF DataOpens, Listed, worker, daemon, ControlKept
<1>13. ASSUME NEW s \in DataSockets, DataClosed(s)
      PROVE  ControlKept'
  BY <1>13, RelayAssumption DEF DataClosed, worker, ControlKept, daemon
<1>14. ASSUME NEW s \in DataSockets, BreakData(s)
      PROVE  ControlKept'
  BY <1>14, RelayAssumption DEF BreakData, Fault, worker, daemon, ControlKept
<1>15. CASE ReconnectFires
  BY <1>15, RelayAssumption DEF ReconnectFires, Free, Connecting, worker,
     ControlKept, daemon
<1>16. CASE Stop
  BY <1>16, RelayAssumption DEF Stop, DataSockets, worker, ControlKept, daemon
<1>17. CASE UNCHANGED vars
  BY <1>17 DEF vars, ControlKept
<1> QED
  BY <1>1, <1>2, <1>3, <1>4, <1>5, <1>6, <1>7, <1>8, <1>9, <1>10, <1>11, <1>12,
     <1>13, <1>14, <1>15, <1>16, <1>17 DEF Next, ControlStep, DataStep


LEMMA SocketStep ==
  ASSUME TypeOK, ControlKept, OneDataSocket, [Next]_vars
  PROVE  OneDataSocket'
<1>1. ASSUME NEW id \in Ids, ClientConnects(id)
      PROVE  OneDataSocket'
  BY <1>1, RelayAssumption DEF ClientConnects, Notify, daemon, Post, TypeOK,
     ControlKept, OneDataSocket
<1>2. ASSUME NEW id \in Ids, ClientGone(id)
      PROVE  OneDataSocket'
  BY <1>2, RelayAssumption DEF ClientGone, HasClient, DataSockets, Closing,
     Notify, daemon, Listed, Post, TypeOK, ControlKept, OneDataSocket
<1>3. ASSUME NEW id \in Ids, NudgeFires(id)
      PROVE  OneDataSocket'
  BY <1>3, RelayAssumption DEF NudgeFires, HasClient, HasServerData, Notify,
     Connected, Closed, Told, daemon, Listed, Post, TypeOK, ControlKept,
     OneDataSocket
<1>4. ASSUME NEW k \in 1..Controls, AcceptControl(k)
      PROVE  OneDataSocket'
  BY <1>4, RelayAssumption DEF AcceptControl, Connected, Closed, Told, worker,
     daemon, HasClient, Listed, TypeOK, ControlKept, OneDataSocket
<1>5. ASSUME NEW k \in 1..Controls, ControlGone(k)
      PROVE  OneDataSocket'
  BY <1>5, RelayAssumption DEF ControlGone, worker, daemon, TypeOK, ControlKept,
     OneDataSocket
<1>6. ASSUME NEW k \in 1..Controls, ControlMessage(k)
      PROVE  OneDataSocket'
  <2>1. CASE Release(Head(box[k]).ids)
    BY <1>6, <2>1 DEF ControlMessage, Release, TypeOK, OneDataSocket, ControlKept
  <2>2. CASE Acquire(Head(box[k]).ids)
    <3>1. ~stopped /\ stopped' = stopped
      BY <1>6, RelayAssumption DEF ControlMessage, ControlKept, TypeOK
    <3>2. box[k] \in Seq(Message) /\ box[k] # <<>> /\ Head(box[k]) \in Message
      BY <1>6, SocketsTyped DEF ControlMessage
    <3>3. Head(box[k]).ids \in SUBSET Ids
      BY <3>2 DEF Message
    <3> QED
      BY <2>2, <3>1, <3>3, AcquireOne
  <2> QED
    BY <1>6, <2>1, <2>2 DEF ControlMessage
<1>7. ASSUME NEW k \in 1..Controls, WorkerCloses(k)
      PROVE  OneDataSocket'
  BY <1>7, RelayAssumption DEF WorkerCloses, Heads, ControlClosed,
     ScheduleReconnect, worker, TypeOK, ControlKept, OneDataSocket, daemon
<1>8. ASSUME NEW k \in 1..Controls, Terminate(k)
      PROVE  OneDataSocket'
  BY <1>8, RelayAssumption DEF Terminate, Fault, ControlClosed, ScheduleReconnect,
     worker, TypeOK, ControlKept, OneDataSocket, daemon
<1>9. ASSUME NEW k \in 1..Controls, LoseControl(k)
      PROVE  OneDataSocket'
  BY <1>9, RelayAssumption DEF LoseControl, Fault, worker, daemon, TypeOK,
     ControlKept, OneDataSocket
<1>10. ASSUME NEW s \in DataSockets, AcceptData(s)
      PROVE  OneDataSocket'
  BY <1>10, RelayAssumption DEF AcceptData, DataSockets, Closing, worker, daemon,
     TypeOK, ControlKept, OneDataSocket
<1>11. ASSUME NEW s \in DataSockets, DataGone(s)
      PROVE  OneDataSocket'
  BY <1>11, RelayAssumption DEF DataGone, daemon, TypeOK, ControlKept,
     OneDataSocket
<1>12. ASSUME NEW s \in DataSockets, DataOpens(s)
      PROVE  OneDataSocket'
  BY <1>12, RelayAssumption DEF DataOpens, Listed, worker, daemon, TypeOK,
     ControlKept, OneDataSocket
<1>13. ASSUME NEW s \in DataSockets, DataClosed(s)
      PROVE  OneDataSocket'
  <2>1. data'[s].d = "closed" /\ \A t \in DataSockets \ {s} : data'[t] = data[t]
    BY <1>13 DEF DataClosed, TypeOK
  <2>2. /\ held' = IF held[s[1]] = s[2] THEN [held EXCEPT ![s[1]] = 0] ELSE held
        /\ stopped' = stopped
    BY <1>13 DEF DataClosed
  <2>3. s[1] \in Ids /\ s[2] \in 1..Tries /\ s = <<s[1], s[2]>>
    BY DEF DataSockets
  <2>4. ASSUME NEW t \in DataSockets, data'[t].d \in {"connecting", "open", "closing"}, ~stopped
        PROVE  held'[t[1]] = t[2]
    <3>1. t # s /\ data'[t] = data[t] /\ held[t[1]] = t[2]
      BY <2>1, <2>4 DEF OneDataSocket
    <3>2. t[1] \in Ids /\ t[2] \in 1..Tries /\ t = <<t[1], t[2]>>
      BY DEF DataSockets
    <3> QED
      BY <2>2, <2>3, <3>1, <3>2 DEF TypeOK
  <2> QED
    BY <2>2, <2>4 DEF OneDataSocket
<1>14. ASSUME NEW s \in DataSockets, BreakData(s)
      PROVE  OneDataSocket'
  BY <1>14, RelayAssumption DEF BreakData, Fault, worker, daemon, TypeOK,
     ControlKept, OneDataSocket
<1>15. CASE ReconnectFires
  BY <1>15, RelayAssumption DEF ReconnectFires, Free, Connecting, worker, TypeOK,
     ControlKept, OneDataSocket, daemon
<1>16. CASE Stop
  BY <1>16, RelayAssumption DEF Stop, DataSockets, worker, TypeOK, ControlKept,
     OneDataSocket, daemon
<1>17. CASE UNCHANGED vars
  BY <1>17 DEF vars, TypeOK, ControlKept, OneDataSocket
<1> QED
  BY <1>1, <1>2, <1>3, <1>4, <1>5, <1>6, <1>7, <1>8, <1>9, <1>10, <1>11, <1>12,
     <1>13, <1>14, <1>15, <1>16, <1>17 DEF Next, ControlStep, DataStep


-----------------------------------------------------------------------------
(* The theorems.                                                           *)

IInv == TypeOK /\ ControlKept /\ OneDataSocket

LEMMA Start == Init => IInv
<1> SUFFICES ASSUME Init PROVE IInv
  OBVIOUS
<1>1. /\ control \in [1..Controls -> ControlSocket] /\ data \in [DataSockets -> DataSocket]
      /\ box \in [1..Controls -> Seq(Message)]
  BY DEF Init, Connecting, Unused, ControlSocket, DataSocket, DaemonEnd, WorkerEnd
<1>2. 1 \in 0..Controls /\ 0 \in 0..Tries /\ Faults \in 0..Faults
  BY RelayAssumption
<1>3. TypeOK
  BY <1>1, <1>2 DEF Init, TypeOK, ControlSocket, DataSocket
<1> QED
  BY <1>3 DEF Init, IInv, ControlKept, OneDataSocket, Unused

(* The inductive invariant.                                                *)
THEOREM InductiveInvariant == Spec => []IInv
<1>1. IInv /\ [Next]_vars => IInv'
  BY TypeStep, KeptStep, SocketStep DEF IInv
<1> QED
  BY <1>1, Start, PTL DEF Spec

(* Every variable keeps its type.                                          *)
THEOREM TypeCorrect == Spec => []TypeOK
<1>1. IInv => TypeOK
  BY DEF IInv
<1> QED
  BY <1>1, InductiveInvariant, PTL

(* Until it is stopped the daemon has a control socket or a timer that will *)
(* connect one, and never both.                                            *)
THEOREM ControlIsKept == Spec => []ControlKept
<1>1. IInv => ControlKept
  BY DEF IInv
<1> QED
  BY <1>1, InductiveInvariant, PTL

(* The daemon never has two sockets of one connection id, whatever order    *)
(* the announcements and close events come in.                             *)
THEOREM DataSocketIsOne == Spec => []OneDataSocket
<1>1. IInv => OneDataSocket
  BY DEF IInv
<1> QED
  BY <1>1, InductiveInvariant, PTL
=============================================================================
