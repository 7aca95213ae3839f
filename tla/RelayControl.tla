--------------------------- MODULE RelayControl ---------------------------
(* How a client that reaches the relay gets a data socket of the daemon: the *)
(* relay worker's bookkeeping of one server id, the daemon's control socket  *)
(* and its data sockets, and a network that loses and breaks connections.    *)
(*   relay/cloudflare-adapter.ts (version 2), server/relay-transport.ts      *)
(* A connection id belongs to one client socket (the relay assigns it). The  *)
(* sockets' frames are in EncryptedChannel. A socket has two ends: d at the  *)
(* daemon, w at the worker, which differ while the network is between them.  *)
EXTENDS Naturals, Sequences, FiniteSets, FiniteSetsExt

CONSTANTS Ids,       \* connection ids, each used once
          Controls,  \* pool of control sockets, at most so many at a time
          Tries,     \* pool of data sockets of one id
          Capacity,  \* MAX_RELAY_CONNECTION_IDS
          Faults     \* bound: what the network does wrong

ASSUME RelayAssumption ==
  Controls \in Nat \ {0} /\ Tries \in Nat \ {0} /\ Capacity \in Nat \ {0} /\ Faults \in Nat

VARIABLES client,   \* client socket at the worker
          nudge,    \* the two timers of nudgeOrResetControlForConnection
          control,  \* control sockets: both ends, and whether the link carries anything
          box,      \* what the worker sent on a control socket
          data,     \* data sockets: both ends
          cur,      \* controlWs, 0 when null
          timer,    \* reconnectTimeout is set
          held,     \* dataSockets: the socket of an id, 0 when absent
          skipped,  \* history: ids whose last announcement found no place free
          later,    \* the control socket is not the daemon's first
          stopped,
          faults

vars == <<client, nudge, control, box, data, cur, timer, held, skipped, later, stopped, faults>>
worker == <<client, nudge>>
daemon == <<cur, timer, held, skipped, later, stopped>>

Message == [type : {"sync", "connected", "disconnected", "close"}, ids : SUBSET Ids]
DataSockets == Ids \X (1..Tries)
DaemonEnd == {"none", "connecting", "open", "closing", "closed"}
WorkerEnd == {"none", "asked", "open", "closing", "gone"}

(* Type correctness. *)
TypeOK ==
  /\ client \in [Ids -> {"new", "open", "closing", "gone"}]
  /\ nudge \in [Ids -> {"none", "first", "second", "done"}]
  /\ control \in [1..Controls -> [d : DaemonEnd \ {"closing"}, w : WorkerEnd, live : BOOLEAN]]
  /\ box \in [1..Controls -> Seq(Message)]
  /\ data \in [DataSockets -> [d : DaemonEnd, w : WorkerEnd]]
  /\ cur \in 0..Controls /\ timer \in BOOLEAN
  /\ held \in [Ids -> 0..Tries] /\ skipped \subseteq Ids
  /\ later \in BOOLEAN /\ stopped \in BOOLEAN /\ faults \in 0..Faults

Unused == [d |-> "none", w |-> "none"]
Asked == [d |-> "connecting", w |-> "asked"]
Connecting == [d |-> "connecting", w |-> "asked", live |-> TRUE]

(* The daemon starts by connecting its control socket. *)
Init ==
  /\ client = [id \in Ids |-> "new"] /\ nudge = [id \in Ids |-> "none"]
  /\ control = [k \in 1..Controls |-> IF k = 1 THEN Connecting
                                      ELSE [d |-> "none", w |-> "none", live |-> FALSE]]
  /\ box = [k \in 1..Controls |-> <<>>]
  /\ data = [s \in DataSockets |-> Unused]
  /\ cur = 1 /\ timer = FALSE
  /\ held = [id \in Ids |-> 0] /\ skipped = {}
  /\ later = FALSE /\ stopped = FALSE /\ faults = Faults

Free(socket) == socket.d \in {"none", "closed"} /\ socket.w \in {"none", "gone"}
Fault == faults > 0 /\ faults' = faults - 1

-----------------------------------------------------------------------------
(* The worker. getWebSockets lists a socket until its close event; a send to *)
(* a socket that is closing throws, and is caught.                           *)
Listed(end) == end \in {"open", "closing"}
HasClient(id) == Listed(client[id])
HasServerData(id) == \E n \in 1..Tries : Listed(data[<<id, n>>].w)
Connected == {id \in Ids : HasClient(id)}

Post(m) == [k \in 1..Controls |->
              IF control[k].w = "open" /\ control[k].live THEN Append(box[k], m) ELSE box[k]]
Notify(type, ids) == box' = Post([type |-> type, ids |-> ids])

(* Control sockets closed by the worker, and what they are told. *)
Closed(K) == [k \in 1..Controls |-> IF k \in K /\ control[k].w = "open"
                                    THEN [control[k] EXCEPT !.w = "closing"] ELSE control[k]]
Told(K) == [k \in 1..Controls |-> IF k \in K /\ control[k].w = "open" /\ control[k].live
                                  THEN Append(box[k], [type |-> "close", ids |-> {}]) ELSE box[k]]

Closing(s) == IF data[s].w = "open" THEN [data[s] EXCEPT !.w = "closing"] ELSE data[s]

ClientConnects(id) ==
  /\ client[id] = "new"
  /\ client' = [client EXCEPT ![id] = "open"] /\ nudge' = [nudge EXCEPT ![id] = "first"]
  /\ Notify("connected", {id})
  /\ UNCHANGED <<control, data, daemon, faults>>

(* The client went, or answered the worker's close; its nudge will find no   *)
(* client, and is left out.                                                  *)
ClientGone(id) ==
  /\ HasClient(id)
  /\ client' = [client EXCEPT ![id] = "gone"] /\ nudge' = [nudge EXCEPT ![id] = "done"]
  /\ data' = [s \in DataSockets |-> IF s[1] = id THEN Closing(s) ELSE data[s]]
  /\ Notify("disconnected", {id})
  /\ UNCHANGED <<control, daemon, faults>>

NudgeFires(id) ==
  /\ nudge[id] \in {"first", "second"}
  /\ LET unserved == HasClient(id) /\ ~HasServerData(id)
     IN  CASE unserved /\ nudge[id] = "first" ->
                nudge' = [nudge EXCEPT ![id] = "second"] /\ Notify("sync", Connected)
                /\ UNCHANGED control
           [] unserved /\ nudge[id] = "second" ->
                nudge' = [nudge EXCEPT ![id] = "done"]
                /\ control' = Closed(1..Controls) /\ box' = Told(1..Controls)
           [] OTHER -> nudge' = [nudge EXCEPT ![id] = "done"] /\ UNCHANGED <<control, box>>
  /\ UNCHANGED <<client, data, daemon, faults>>

(* Mutant: a new control socket is not told of the clients. *)
AcceptControl_Silent(k) ==
  /\ control[k].w = "asked"
  /\ LET others == (1..Controls) \ {k}
     IN  /\ control' = [Closed(others) EXCEPT ![k].w = "open"]
         /\ box' = [Told(others) EXCEPT ![k] = <<>>]
  /\ UNCHANGED <<worker, data, daemon, faults>>

(* A daemon that has given up the attempt may be accepted all the same. *)
AcceptControl(k) ==
  /\ control[k].w = "asked"
  /\ LET others == (1..Controls) \ {k}
         list == [type |-> "sync", ids |-> Connected]
     IN  /\ control' = [Closed(others) EXCEPT ![k].w = "open"]
         /\ box' = [Told(others) EXCEPT ![k] = IF control[k].live THEN <<list>> ELSE <<>>]
  /\ UNCHANGED <<worker, data, daemon, faults>>

AcceptData(s) ==
  /\ data[s].w = "asked"
  /\ data' = [t \in DataSockets |-> IF t = s THEN [data[t] EXCEPT !.w = "open"]
                                    ELSE IF t[1] = s[1] THEN Closing(t) ELSE data[t]]
  /\ UNCHANGED <<worker, control, box, daemon, faults>>

(* The close event of a control socket changes nothing: only that of one the *)
(* daemon has given up is a step, for it may be accepted first.              *)
ControlGone(k) ==
  /\ control[k].d = "closed" /\ control[k].w # "gone"
  /\ control' = [control EXCEPT ![k].w = "gone"]
  /\ UNCHANGED <<worker, box, data, daemon, faults>>

(* The close event of a data socket makes the client connect anew; it does   *)
(* not ask whether the socket was still the one in use.                      *)
DataGone(s) ==
  /\ data[s].d \in {"closing", "closed"} /\ data[s].w \in {"asked", "open", "closing"}
  /\ data' = [data EXCEPT ![s].w = "gone"]
  /\ client' = IF data[s].w # "asked" /\ client[s[1]] = "open"
               THEN [client EXCEPT ![s[1]] = "closing"] ELSE client
  /\ UNCHANGED <<nudge, control, box, daemon, faults>>

-----------------------------------------------------------------------------
(* The daemon. *)
Heads(k, type) == box[k] # <<>> /\ Head(box[k]).type = type

ScheduleReconnect == timer' = ~stopped

ReconnectFires ==
  /\ timer /\ timer' = FALSE
  /\ \E k \in 1..Controls :
       /\ Free(control[k]) /\ \A j \in 1..(k - 1) : ~Free(control[j])
       /\ cur' = k /\ control' = [control EXCEPT ![k] = Connecting]
  /\ later' = TRUE
  /\ UNCHANGED <<worker, box, data, held, skipped, stopped, faults>>

(* Mutant: an id that has a socket is not skipped. *)
Acquire_AnyTime(ids) ==
  LET wanted == ids
      room == Capacity - Cardinality({id \in Ids : held[id] # 0})
      fresh(id) == {n \in 1..Tries : Free(data[<<id, n>>])}
  IN  \E A \in SUBSET wanted :
        /\ Cardinality(A) = Min({Cardinality(wanted), room + 1})
        /\ \A id \in A : fresh(id) # {}    \* bound: Tries
        /\ held' = [id \in Ids |-> IF id \in A THEN Min(fresh(id)) ELSE held[id]]
        /\ skipped' = (skipped \cup wanted) \ A
        /\ data' = [s \in DataSockets |->
                      IF s[1] \in A /\ s[2] = Min(fresh(s[1])) THEN Asked ELSE data[s]]

(* ensureClientDataSocket for each id; one that finds no place is not kept.  *)
Acquire(ids) ==
  LET wanted == {id \in ids : held[id] = 0}
      room == Capacity - Cardinality({id \in Ids : held[id] # 0})
      fresh(id) == {n \in 1..Tries : Free(data[<<id, n>>])}
  IN  \E A \in SUBSET wanted :
        /\ Cardinality(A) = Min({Cardinality(wanted), room})
        /\ \A id \in A : fresh(id) # {}    \* bound: Tries
        /\ held' = [id \in Ids |-> IF id \in A THEN Min(fresh(id)) ELSE held[id]]
        /\ skipped' = (skipped \cup wanted) \ A
        /\ data' = [s \in DataSockets |->
                      IF s[1] \in A /\ s[2] = Min(fresh(s[1])) THEN Asked ELSE data[s]]

(* disconnected closes the socket; it stays in the map until its close event. *)
Release(ids) ==
  /\ data' = [s \in DataSockets |->
                IF s[1] \in ids /\ s[2] = held[s[1]] /\ data[s].d \in {"connecting", "open"}
                THEN [data[s] EXCEPT !.d = "closing"] ELSE data[s]]
  /\ UNCHANGED <<held, skipped>>

ControlMessage(k) ==
  /\ cur = k /\ box[k] # <<>> /\ ~Heads(k, "close")
  /\ box' = [box EXCEPT ![k] = Tail(@)]
  /\ control' = [control EXCEPT ![k].d = "open"]
  /\ IF Heads(k, "disconnected") THEN Release(Head(box[k]).ids)
     ELSE Acquire(Head(box[k]).ids)
  /\ UNCHANGED <<worker, cur, timer, later, stopped, faults>>

ControlClosed(k) ==
  /\ control' = [control EXCEPT ![k].d = "closed", ![k].live = FALSE,
                                  ![k].w = IF @ = "asked" THEN @ ELSE "gone"]
  /\ box' = [box EXCEPT ![k] = <<>>]
  /\ cur' = 0 /\ ScheduleReconnect
  /\ UNCHANGED <<worker, data, held, skipped, later, stopped>>

WorkerCloses(k) ==
  /\ cur = k /\ Heads(k, "close")
  /\ ControlClosed(k) /\ UNCHANGED faults

(* Mutant: no keepalive finds a silent link. *)
Terminate_OnlyAlive(k) ==
  /\ cur = k
  /\ control[k].live /\ Fault
  /\ ControlClosed(k)

(* Terminated by the handshake time-out, the ready time-out or the keepalive: *)
(* a silent link, or (a fault) a slow one. The close event follows.           *)
Terminate(k) ==
  /\ cur = k
  /\ IF control[k].live THEN Fault ELSE UNCHANGED faults
  /\ ControlClosed(k)

DataOpens(s) ==
  /\ data[s].d = "connecting" /\ Listed(data[s].w)
  /\ data' = [data EXCEPT ![s].d = "open"]
  /\ UNCHANGED <<worker, control, box, daemon, faults>>

DataClosed(s) ==
  /\ data[s].d = "closing" \/ (data[s].d = "open" /\ data[s].w \in {"closing", "gone"})
  /\ data' = [data EXCEPT ![s].d = "closed"]
  /\ held' = IF held[s[1]] = s[2] THEN [held EXCEPT ![s[1]] = 0] ELSE held
  /\ UNCHANGED <<worker, control, box, cur, timer, skipped, later, stopped, faults>>

(* The close events that follow find nothing to do. *)
Stop ==
  /\ ~stopped /\ stopped' = TRUE /\ timer' = FALSE /\ cur' = 0
  /\ control' = [k \in 1..Controls |-> IF k = cur
                                       THEN [control[k] EXCEPT !.d = "closed", !.live = FALSE]
                                       ELSE control[k]]
  /\ box' = [k \in 1..Controls |-> <<>>]
  /\ data' = [s \in DataSockets |-> IF held[s[1]] = s[2] THEN [data[s] EXCEPT !.d = "closed"]
                                    ELSE data[s]]
  /\ held' = [id \in Ids |-> 0]
  /\ UNCHANGED <<worker, skipped, later, faults>>

-----------------------------------------------------------------------------
(* The network: a control connection falls silent; a data socket fails to   *)
(* open in time, or breaks.                                                  *)
LoseControl(k) ==
  /\ Fault /\ control[k].live /\ control[k].d \in {"connecting", "open"}
  /\ control' = [control EXCEPT ![k].live = FALSE] /\ box' = [box EXCEPT ![k] = <<>>]
  /\ UNCHANGED <<worker, data, daemon>>

BreakData(s) ==
  /\ Fault /\ data[s].d \in {"connecting", "open"}
  /\ data' = [data EXCEPT ![s].d = "closing"]
  /\ UNCHANGED <<worker, control, box, daemon>>

ControlStep(k) == \/ AcceptControl(k) \/ ControlGone(k) \/ ControlMessage(k) \/ WorkerCloses(k)
DataStep(s) == AcceptData(s) \/ DataGone(s) \/ DataOpens(s) \/ DataClosed(s)

Next ==
  \/ \E id \in Ids : ClientConnects(id) \/ ClientGone(id) \/ NudgeFires(id)
  \/ \E k \in 1..Controls : ControlStep(k) \/ Terminate(k) \/ LoseControl(k)
  \/ \E s \in DataSockets : DataStep(s) \/ BreakData(s)
  \/ ReconnectFires \/ Stop

Spec == Init /\ [][Next]_vars

(* As long as a socket or a timer has something pending, something happens; *)
(* a silent link is found out. Clients, faults and Stop need not happen.     *)
Progress ==
  \/ \E id \in Ids : NudgeFires(id) \/ (client[id] = "closing" /\ ClientGone(id))
  \/ \E k \in 1..Controls : ControlStep(k) \/ (~control[k].live /\ Terminate(k))
  \/ \E s \in DataSockets : DataStep(s)
  \/ ReconnectFires
FairSpec == Spec /\ WF_vars(Progress)

-----------------------------------------------------------------------------
(* Until it is stopped the daemon has a control socket or a timer that will  *)
(* connect one, never both and never neither: relay-transport's close        *)
(* handler and scheduleReconnect.                                            *)
ControlKept == IF stopped THEN cur = 0 /\ ~timer ELSE (cur = 0) <=> timer

(* The daemon never has two sockets of one connection id, and knows every    *)
(* socket it has: a socket whose close is under way keeps its place.         *)
OneDataSocket ==
  \A s \in DataSockets :
    data[s].d \in {"connecting", "open", "closing"} => stopped \/ held[s[1]] = s[2]

Serving(id) == \E n \in 1..Tries : data[<<id, n>>].d = "open" /\ data[<<id, n>>].w = "open"

(* Clients that stay get a data socket, whatever became of the control       *)
(* socket that should have announced them, unless the attempt itself fails   *)
(* or every announcement found the places taken: again and again no other    *)
(* connected client is waiting.                                              *)
Served ==
  []<>(stopped \/ \A id \in Ids :
         client[id] = "open" => \/ Serving(id) \/ id \in skipped
                               \/ \E n \in 1..Tries : data[<<id, n>>].d \in {"closing", "closed"})

(* Replaced, reset and silent control sockets come to an end: the daemon     *)
(* keeps one that works at both ends.                                        *)
ControlHeals ==
  <>[](stopped \/ (cur # 0 /\ control[cur] = [d |-> "open", w |-> "open", live |-> TRUE]))

(* The data socket of a client that left ends, as long as the daemon still   *)
(* has its first control socket: no such socket stays.                       *)
OrphanEnds ==
  []<>(later \/ cur = 0 \/ \A s \in DataSockets : ~(client[s[1]] = "gone" /\ data[s].d = "open"))

(* Data sockets follow the clients, in both directions.                      *)
SocketsFollowClients == Served /\ OrphanEnds
=============================================================================
