---------------------------- MODULE ClientSession ----------------------------
(* The daemon's side of its clients: a socket says hello, is bound to the     *)
(* session of its client, and the session outlives its last socket by a grace *)
(* period. Requests of a session run in lanes: one after the other for the    *)
(* same agent, terminal or file, side by side otherwise.                      *)
(*   server/websocket-server.ts, server/websocket-message-lanes.ts            *)
EXTENDS Naturals, Sequences, FiniteSets, SequencesExt

CONSTANTS Clients, Sockets, Messages, Keys, None,
          Sessions,   \* the SessionConnection objects that may ever be made
          Inflight,   \* MAX_SESSION_INFLIGHT_MESSAGES (64)
          Depth       \* maxDepthPerLane (the same 64)

ASSUME SessionAssumption ==
  /\ Inflight \in Nat \ {0} /\ Depth \in Nat \ {0}
  /\ None \notin Clients \cup Sessions \cup Keys /\ IsFiniteSet(Messages)

VARIABLES
  socket,    \* what a socket is: not connected yet, waiting for hello, bound, gone
  owner,     \* the client at its other end
  sessions,  \* sessions: the session of a bound socket
  byClient,  \* externalSessionsByKey
  state,     \* unused, open, ended (its cleanup has begun)
  client,    \* clientId of a session
  sockets,   \* sockets of a session
  grace,     \* externalDisconnectCleanupTimeout is set
  inflight,  \* inflightMessages
  lanes,     \* MessageLaneExecutor: per key, whether one runs and who waits
  message,   \* new, waiting, handling, done, refused
  place      \* the session and the key of a message; None for one that preempts

connVars == <<socket, owner, sessions, byClient, state, client, sockets, grace>>
laneVars == <<inflight, lanes, message, place>>
vars == <<connVars, laneVars>>

Lane == [running : BOOLEAN, queue : Seq(Messages)]
Idle == [running |-> FALSE, queue |-> <<>>]

TypeOK ==
  /\ socket \in [Sockets -> {"new", "pending", "bound", "gone"}]
  /\ owner \in [Sockets -> Clients \cup {None}]
  /\ sessions \in [Sockets -> Sessions \cup {None}]
  /\ byClient \in [Clients -> Sessions \cup {None}]
  /\ state \in [Sessions -> {"unused", "open", "ended"}]
  /\ client \in [Sessions -> Clients \cup {None}]
  /\ sockets \in [Sessions -> SUBSET Sockets]
  /\ grace \subseteq Sessions
  /\ inflight \in [Sessions -> 0..Inflight]
  /\ lanes \in [Sessions -> [Keys -> Lane]]
  /\ message \in [Messages -> {"new", "waiting", "handling", "done", "refused"}]
  /\ place \in [Messages -> (Sessions \cup {None}) \X (Keys \cup {None})]

Init ==
  /\ socket = [w \in Sockets |-> "new"] /\ owner = [w \in Sockets |-> None]
  /\ sessions = [w \in Sockets |-> None] /\ byClient = [c \in Clients |-> None]
  /\ state = [s \in Sessions |-> "unused"] /\ client = [s \in Sessions |-> None]
  /\ sockets = [s \in Sessions |-> {}] /\ grace = {}
  /\ inflight = [s \in Sessions |-> 0]
  /\ lanes = [s \in Sessions |-> [k \in Keys |-> Idle]]
  /\ message = [m \in Messages |-> "new"]
  /\ place = [m \in Messages |-> <<None, None>>]
-----------------------------------------------------------------------------
(* Sockets and sessions.                                                   *)

\* attachSocket(): the socket has 15 s to say hello.
Connect(w, c) ==
  /\ socket[w] = "new"
  /\ socket' = [socket EXCEPT ![w] = "pending"]
  /\ owner' = [owner EXCEPT ![w] = c]
  /\ UNCHANGED <<sessions, byClient, state, client, sockets, grace, laneVars>>

\* The time is up, another message came first, or the hello was refused: wrong
\* protocol, no client id, or a device that is not the session's.
Reject(w) ==
  /\ socket[w] = "pending"
  /\ socket' = [socket EXCEPT ![w] = "gone"]
  /\ UNCHANGED <<owner, sessions, byClient, state, client, sockets, grace, laneVars>>

Bind(w, s) ==
  /\ socket[w] = "pending"
  /\ socket' = [socket EXCEPT ![w] = "bound"]
  /\ sessions' = [sessions EXCEPT ![w] = s]
  /\ sockets' = [sockets EXCEPT ![s] = @ \cup {w}]

\* resumeExistingSessionFromHello(): the session goes on, its timer is cleared.
Disarmed_Kept(s) == grace
Disarmed(s) == grace \ {s}

HelloResumes(w) ==
  LET s == byClient[owner[w]] IN
  /\ socket[w] = "pending" /\ s # None
  /\ Bind(w, s)
  /\ grace' = Disarmed(s)
  /\ UNCHANGED <<owner, byClient, state, client, laneVars>>

\* createNewSessionFromHello()
HelloCreates(w, s) ==
  LET c == owner[w] IN
  /\ socket[w] = "pending" /\ byClient[c] = None /\ state[s] = "unused"
  /\ Bind(w, s)
  /\ byClient' = [byClient EXCEPT ![c] = s]
  /\ state' = [state EXCEPT ![s] = "open"]
  /\ client' = [client EXCEPT ![s] = c]
  /\ UNCHANGED <<owner, grace, laneVars>>

\* detachSocket(): the last socket of a session starts its grace period.
Armed(s, left) == IF left = {} THEN grace \cup {s} ELSE grace

PendingLost(w) ==
  /\ socket[w] = "pending"
  /\ socket' = [socket EXCEPT ![w] = "gone"]
  /\ UNCHANGED <<owner, sessions, byClient, state, client, sockets, grace, laneVars>>

SocketLost(w) ==
  LET s == sessions[w] IN
  /\ s # None
  /\ socket' = [socket EXCEPT ![w] = "gone"]
  /\ sessions' = [sessions EXCEPT ![w] = None]
  /\ sockets' = [sockets EXCEPT ![s] = @ \ {w}]
  /\ grace' = Armed(s, sockets[s] \ {w})
  /\ UNCHANGED <<owner, byClient, state, client, laneVars>>
-----------------------------------------------------------------------------
(* Requests.                                                               *)

Of(s, k, st) == {m \in Messages : place[m] = <<s, k>> /\ message[m] = st}
Depths(s, k) == Len(lanes[s][k].queue) + (IF lanes[s][k].running THEN 1 ELSE 0)

\* schedule(): a lane is entered at once only if nobody runs and nobody waits.
Enters_NobodyWaits(l) == l.queue = <<>>
Enters(l) == ~l.running /\ l.queue = <<>>

Scheduled(l, m) ==
  IF Enters(l) THEN [running |-> TRUE, queue |-> l.queue]
  ELSE [running |-> l.running, queue |-> Append(l.queue, m)]

\* dispatchSessionMessage(): a request is counted before it waits for its lane.
Overloaded(s) == inflight[s] >= Inflight

Dispatch(w, m, k) ==
  LET s == sessions[w] IN
  /\ s # None /\ message[m] = "new"
  /\ ~Overloaded(s) /\ (k # None => Depths(s, k) < Depth)
  /\ inflight' = [inflight EXCEPT ![s] = @ + 1]
  /\ place' = [place EXCEPT ![m] = <<s, k>>]
  /\ message' = [message EXCEPT ![m] = IF k = None \/ Enters(lanes[s][k]) THEN "handling" ELSE "waiting"]
  /\ lanes' = IF k = None THEN lanes ELSE [lanes EXCEPT ![s][k] = Scheduled(@, m)]
  /\ UNCHANGED connVars

\* "Server is busy; retry the request": the session's or the lane's limit.
Refuse(w, m, k) ==
  LET s == sessions[w] IN
  /\ s # None /\ message[m] = "new"
  /\ Overloaded(s) \/ (k # None /\ Depths(s, k) >= Depth)
  /\ message' = [message EXCEPT ![m] = "refused"]
  /\ UNCHANGED <<connVars, inflight, lanes, place>>

\* release(): the turn goes to the first who waits. A lane that was closed
\* meanwhile is gone from the map.
Released(l) == IF l.queue = <<>> THEN Idle ELSE [running |-> l.running, queue |-> Tail(l.queue)]

\* handleMessage() returns or throws; the answer goes to the sockets there are.
Ends(m) ==
  LET s == place[m][1]
      k == place[m][2]
      keyed == k # None /\ state[s] = "open"
      next == IF keyed /\ lanes[s][k].queue # <<>> THEN Head(lanes[s][k].queue) ELSE m
  IN /\ message[m] = "handling"
     /\ inflight' = [inflight EXCEPT ![s] = @ - 1]
     /\ lanes' = IF keyed THEN [lanes EXCEPT ![s][k] = Released(@)] ELSE lanes
     /\ message' = [n \in Messages |-> IF n = m THEN "done"
                                       ELSE IF n = next /\ Released(lanes[s][k]) # Idle THEN "handling"
                                       ELSE message[n]]
     /\ UNCHANGED <<connVars, place>>

\* cleanupConnection(), up to its await: the session leaves the maps and its
\* lanes are closed. Who waits is turned away; what is being handled goes on.
Forgotten_NotByClient(s) == byClient
Forgotten(s) == [c \in Clients |-> IF byClient[c] = s THEN None ELSE byClient[c]]

Rejected(s) == {m \in Messages : place[m][1] = s /\ message[m] = "waiting"}

Uncounted_None(s) == 0
Uncounted(s) == Cardinality(Rejected(s))

GraceEnds(s) ==
  /\ s \in grace
  /\ grace' = grace \ {s}
  /\ sessions' = [w \in Sockets |-> IF w \in sockets[s] THEN None ELSE sessions[w]]
  /\ sockets' = [sockets EXCEPT ![s] = {}]
  /\ byClient' = Forgotten(s)
  /\ state' = [state EXCEPT ![s] = "ended"]
  /\ lanes' = [lanes EXCEPT ![s] = [k \in Keys |-> Idle]]
  /\ message' = [m \in Messages |-> IF m \in Rejected(s) THEN "refused" ELSE message[m]]
  /\ inflight' = [inflight EXCEPT ![s] = @ - Uncounted(s)]
  /\ UNCHANGED <<socket, owner, client, place>>
-----------------------------------------------------------------------------
Next ==
  \/ \E w \in Sockets, c \in Clients : Connect(w, c)
  \/ \E w \in Sockets : Reject(w) \/ HelloResumes(w) \/ PendingLost(w) \/ SocketLost(w)
  \/ \E w \in Sockets, s \in Sessions : HelloCreates(w, s)
  \/ \E w \in Sockets, m \in Messages, k \in Keys \cup {None} : Dispatch(w, m, k) \/ Refuse(w, m, k)
  \/ \E m \in Messages : Ends(m)
  \/ \E s \in Sessions : GraceEnds(s)

Spec == Init /\ [][Next]_vars
-----------------------------------------------------------------------------
(* Safety.                                                                 *)

\* A client has one session: the map, the sockets and the sockets' entries
\* agree, and a session that has ended is reachable through none of them, so
\* that no hello resumes it and no message reaches it.
OneSessionPerClient ==
  /\ \A s \in Sessions : state[s] = "open" <=> (client[s] # None /\ byClient[client[s]] = s)
  /\ \A c \in Clients : byClient[c] # None => client[byClient[c]] = c
  /\ \A w \in Sockets, s \in Sessions :
       sessions[w] = s <=> (w \in sockets[s])
  /\ \A w \in Sockets : sessions[w] # None => sessions[w] = byClient[owner[w]]

\* The grace period runs exactly while an open session has no socket: nobody
\* who is connected is cut off, and nobody who left stays for ever.
GraceExact ==
  \A s \in Sessions : s \in grace <=> (state[s] = "open" /\ sockets[s] = {})

\* The count a request is refused by is the number of requests under way, over
\* turns taken, sessions ended and requests turned away.
InflightExact ==
  \A s \in Sessions :
    inflight[s] = Cardinality({m \in Messages : place[m][1] = s /\ message[m] \in {"waiting", "handling"}})

\* Who waits is in the queue of an open lane in which somebody runs, and will
\* be let in when that one ends.
WaitersAreQueued ==
  \A m \in Messages : message[m] = "waiting" =>
    LET s == place[m][1]
        k == place[m][2]
    IN /\ state[s] = "open" /\ m \in ToSet(lanes[s][k].queue)
       /\ Cardinality(Of(s, k, "handling")) = 1

\* The lanes implement KeyedQueue: requests of one session about one agent,
\* terminal or file are handled one at a time, in the order of their arrival,
\* and none is lost unless the session ends.
InLine(s, k) == SetToSeq(Of(s, k, "handling")) \o lanes[s][k].queue

Queue == INSTANCE KeyedQueue WITH
  Lines <- Sessions \X Keys, Items <- Messages,
  line <- [l \in Sessions \X Keys |-> InLine(l[1], l[2])],
  shut <- {l \in Sessions \X Keys : state[l[1]] = "ended"}

ImplementsKeyedQueue == Queue!QueueSpec
=============================================================================
