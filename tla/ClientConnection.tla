-------------------------- MODULE ClientConnection --------------------------
(* A client's connection to its daemon: connecting, hello, retries with       *)
(* back-off, liveness probes, and the requests that wait for an answer or for *)
(* the connection.                                                            *)
(*   client/daemon-client-connection-controller.ts                            *)
(*   client/daemon-client-request-coordinator.ts                              *)
(* The listeners of a transport are removed when it is disposed of, so only   *)
(* the current one is modelled. shouldReconnect is false exactly when the     *)
(* client is disposed, and has no variable. Delays are left out, and so is    *)
(* the order in which queued requests are sent.                               *)
EXTENDS Naturals

CONSTANTS Requests, Ping,
          Patient,    \* the requests without a time-out (waitForFinish)
          Threshold,  \* LIVENESS_FAILURE_RECONNECT_THRESHOLD
          Faults,     \* bound: what the network does wrong
          Toggles     \* bound: calls of setReconnectEnabled

ASSUME ClientAssumption ==
  /\ Ping \notin Requests /\ Patient \subseteq Requests
  /\ Threshold \in Nat \ {0} /\ Faults \in Nat /\ Toggles \in Nat

VARIABLES
  conn,      \* connectionState.status
  link,      \* the current transport and what becomes of it
  timers,    \* connectTimeout, reconnectTimeout, pendingGenericTransportErrorTimeout, livenessProbe
  misses,    \* consecutiveLivenessFailures
  enabled,   \* config.reconnect.enabled
  promise,   \* connectPromise: none, pending, or rejected and still held
  queue,     \* pendingSends
  waiters,   \* the requests whose waiter is in the coordinator's set
  request,   \* new, queued, sent, answered, failed: what its caller awaits or was told
  onWire,    \* sent on the current transport and not answered
  faults, toggles,
  torn       \* requests under way when the reconnect timer fired over a live connection

linkVars == <<conn, link, timers, misses, enabled, promise>>
requestVars == <<queue, waiters, request, onWire>>
budgets == <<faults, toggles>>
clientVars == <<linkVars, requestVars, budgets, torn>>

ClientTypeOK ==
  /\ conn \in {"idle", "connecting", "connected", "disconnected", "disposed"}
  /\ link \in {"none", "opening", "open", "mute", "ready", "failing", "closed"}
  /\ timers \subseteq {"connect", "reconnect", "error", "probe"}
  /\ misses \in 0..(Threshold - 1) /\ enabled \in BOOLEAN /\ promise \in {"none", "pending", "rejected"}
  /\ queue \subseteq Requests /\ waiters \subseteq Requests
  /\ request \in [Requests -> {"new", "queued", "sent", "answered", "failed"}]
  /\ onWire \subseteq Requests \cup {Ping}
  /\ faults \in 0..Faults /\ toggles \in 0..Toggles /\ torn \subseteq Requests

ClientInit ==
  /\ conn = "idle" /\ link = "none" /\ timers = {} /\ misses = 0
  /\ enabled = TRUE /\ promise = "none"
  /\ queue = {} /\ waiters = {} /\ onWire = {}
  /\ request = [r \in Requests |-> "new"]
  /\ faults = Faults /\ toggles = Toggles /\ torn = {}

Fault == faults > 0 /\ faults' = faults - 1
-----------------------------------------------------------------------------
(* The connection.                                                         *)

\* clear(), as onReset calls it: whoever waits is told.
Unsettled_QueuedOnly == {r \in Requests : request[r] = "queued"}
Unsettled == {r \in Requests : request[r] \in {"queued", "sent"}}

Reset ==
  /\ queue' = {} /\ onWire' = {} /\ waiters' = {}
  /\ request' = [r \in Requests |-> IF r \in Unsettled THEN "failed" ELSE request[r]]

\* scheduleReconnect(), where the timers of ts are left. The connect promise
\* waits for the retry, and is rejected if there is none.
Retry == IF enabled THEN {"reconnect"} ELSE {}

Promised(p) == IF enabled THEN p ELSE "none"

Retried(ts) ==
  /\ conn' = "disconnected"
  /\ timers' = (ts \ {"reconnect", "probe"}) \cup Retry
  /\ Reset

Rescheduled(ts) == Retried(ts) /\ promise' = Promised(promise)

\* disposeTransport(): its timers end with it.
Disposed(ts) == ts \ {"connect", "error"}

\* attemptConnect(). It leaves when connecting, not when connected.
AttemptStarts(ts) ==
  /\ conn' = "connecting" /\ link' = "opening" /\ onWire' = {}
  /\ timers' = Disposed(ts) \cup {"connect"}
  /\ UNCHANGED <<queue, waiters, request, faults>>

\* The transport cannot be made: the promise is rejected, the retries go on.
AttemptFails(ts) == Fault /\ link' = "none" /\ Retried(Disposed(ts))

\* connect(), ensureConnected(). A promise that is held is shared, also one that
\* this very call rejects: its executor runs before connectPromise is assigned.
\* A retry that is armed stays armed beside the new attempt.
EnsureConnected ==
  /\ conn \in {"idle", "disconnected"} /\ promise = "none"
  /\ \/ AttemptStarts(timers) /\ promise' = "pending"
     \/ AttemptFails(timers) /\ promise' = "rejected"
  /\ UNCHANGED <<misses, enabled, toggles, torn>>

ReconnectFires ==
  /\ "reconnect" \in timers
  /\ torn' = IF conn = "connected" THEN torn \cup (onWire \ {Ping}) ELSE torn
  /\ IF conn = "connecting"
     THEN timers' = timers \ {"reconnect"} /\ UNCHANGED <<conn, link, promise, requestVars, faults>>
     ELSE \/ AttemptStarts(timers \ {"reconnect"}) /\ UNCHANGED promise
          \/ /\ AttemptFails(timers \ {"reconnect"})
             /\ promise' = IF promise = "pending" THEN "none" ELSE Promised(promise)
  /\ UNCHANGED <<misses, enabled, toggles>>

\* The timer looks at the state: a hello that could not be sent leaves it armed.
ConnectTimesOut ==
  /\ "connect" \in timers
  /\ IF link = "mute" THEN UNCHANGED faults ELSE Fault
  /\ IF conn = "connecting"
     THEN link' = "none" /\ Rescheduled(Disposed(timers))
     ELSE timers' = timers \ {"connect"} /\ UNCHANGED <<conn, link, promise, requestVars>>
  /\ UNCHANGED <<misses, enabled, toggles, torn>>

\* onOpen: hello is sent. It, or its answer, may get lost.
Opens ==
  /\ link = "opening"
  /\ timers' = timers \ {"error"}
  /\ \/ link' = "open" /\ UNCHANGED faults
     \/ link' = "mute" /\ Fault
  /\ UNCHANGED <<conn, misses, enabled, promise, requestVars, toggles, torn>>

HelloFails ==
  /\ link = "opening" /\ Fault
  /\ link' = "mute"
  /\ Rescheduled(timers \ {"error"})
  /\ UNCHANGED <<misses, enabled, toggles, torn>>

\* server_info: markConnected() sends what was queued. A request whose waiter
\* gave up meanwhile is sent all the same, and its caller told.
ServerInfo ==
  /\ link = "open" /\ link' = "ready" /\ misses' = 0
  /\ IF conn = "connecting"
     THEN /\ conn' = "connected" /\ promise' = "none"
          /\ timers' = timers \ {"connect"}
          /\ queue' = {} /\ onWire' = onWire \cup queue
          /\ request' = [r \in Requests |-> IF r \notin queue THEN request[r]
                                            ELSE IF r \in waiters THEN "sent" ELSE "failed"]
          /\ UNCHANGED waiters
     ELSE UNCHANGED <<conn, promise, timers, requestVars>>
  /\ UNCHANGED <<enabled, budgets, torn>>

\* onClose. The transport stays the current one until the next attempt.
Closes ==
  /\ link \in {"opening", "open", "mute", "ready", "failing"}
  /\ IF link = "failing" THEN UNCHANGED faults ELSE Fault
  /\ link' = "closed"
  /\ Rescheduled(Disposed(timers))
  /\ UNCHANGED <<misses, enabled, toggles, torn>>

\* onError of a socket, which says no more than that and is followed by close:
\* 250 ms are left for the close to tell why.
Debounced_OnlyConnected(ts) == (ts \ {"connect"}) \cup (IF conn = "connected" THEN {"error"} ELSE {})
Debounced(ts) == (ts \ {"connect"}) \cup {"error"}

Errors ==
  /\ link \in {"opening", "open", "mute", "ready"} /\ Fault
  /\ link' = "failing"
  /\ timers' = Debounced(timers)
  /\ UNCHANGED <<conn, misses, enabled, promise, requestVars, toggles, torn>>

\* onError with a reason (the encrypted channel): the link may go on.
ErrorsWithReason ==
  /\ link \in {"opening", "open", "mute", "ready"} /\ Fault
  /\ Rescheduled(Disposed(timers))
  /\ UNCHANGED <<link, misses, enabled, toggles, torn>>

ErrorTimerFires ==
  /\ "error" \in timers
  /\ IF conn \in {"connected", "connecting"}
     THEN Rescheduled(timers \ {"error"})
     ELSE timers' = timers \ {"error"} /\ UNCHANGED <<conn, promise, requestVars>>
  /\ UNCHANGED <<link, misses, enabled, budgets, torn>>

SetReconnectEnabled ==
  /\ toggles > 0 /\ toggles' = toggles - 1
  /\ enabled' = ~enabled
  /\ UNCHANGED <<conn, link, timers, misses, promise, requestVars, faults, torn>>

\* close()
Left_Reconnect == timers \cap {"reconnect"}
Left == {}

Close ==
  /\ conn # "disposed" /\ conn' = "disposed"
  /\ link' = "none" /\ timers' = Left /\ promise' = "none"
  /\ Reset
  /\ UNCHANGED <<misses, enabled, budgets, torn>>
-----------------------------------------------------------------------------
(* Liveness probes.                                                        *)

\* recordLivenessFailure(), ts the timers without the probe's.
Tolerated(n) == n < Threshold

Missed(ts) ==
  IF Tolerated(misses + 1)
  THEN misses' = misses + 1 /\ timers' = ts /\ UNCHANGED <<conn, link, promise, requestVars>>
  ELSE misses' = 0 /\ link' = "none" /\ Rescheduled(Disposed(ts))

CheckLiveness ==
  /\ conn = "connected" /\ "probe" \notin timers
  /\ IF link = "ready"
     THEN /\ timers' = timers \cup {"probe"} /\ onWire' = onWire \cup {Ping}
          /\ UNCHANGED <<conn, link, misses, promise, queue, waiters, request>>
     ELSE Missed(timers)
  /\ UNCHANGED <<enabled, budgets, torn>>

Pong ==
  /\ link = "ready" /\ Ping \in onWire
  /\ onWire' = onWire \ {Ping} /\ misses' = 0
  /\ timers' = timers \ {"probe"}
  /\ UNCHANGED <<conn, link, enabled, promise, queue, waiters, request, budgets, torn>>

ProbeTimesOut ==
  /\ "probe" \in timers /\ Fault
  /\ Missed(timers \ {"probe"})
  /\ UNCHANGED <<enabled, toggles, torn>>
-----------------------------------------------------------------------------
(* Requests.                                                               *)

\* request(): sent, queued, or refused at once. A failing socket throws.
Request(r) ==
  /\ request[r] = "new"
  /\ LET status == IF conn = "connecting" THEN "queued"
                   ELSE IF conn = "connected" /\ link = "ready" THEN "sent" ELSE "failed"
     IN /\ request' = [request EXCEPT ![r] = status]
        /\ waiters' = IF status = "failed" THEN waiters ELSE waiters \cup {r}
        /\ queue' = IF status = "queued" THEN queue \cup {r} ELSE queue
        /\ onWire' = IF status = "sent" THEN onWire \cup {r} ELSE onWire
  /\ UNCHANGED <<linkVars, budgets, torn>>

\* handleMessage(): an answer whose waiter has gone is for nobody.
Answer(r) ==
  /\ link = "ready" /\ r \in onWire
  /\ onWire' = onWire \ {r} /\ waiters' = waiters \ {r} /\ misses' = 0
  /\ request' = [request EXCEPT ![r] = IF r \in waiters THEN "answered" ELSE @]
  /\ UNCHANGED <<conn, link, timers, enabled, promise, queue, budgets, torn>>

\* The waiter's own time-out, unless it has none. The caller of a queued request
\* awaits the send first, and is not told yet.
WaiterTimesOut(r) ==
  /\ r \in waiters \ Patient
  /\ waiters' = waiters \ {r}
  /\ request' = [request EXCEPT ![r] = IF @ = "queued" THEN @ ELSE "failed"]
  /\ UNCHANGED <<linkVars, queue, onWire, budgets, torn>>

\* 10 s in the queue: the send and with it the request have failed.
Dequeued_Kept(r) == queue
Dequeued(r) == queue \ {r}

QueueTimesOut(r) ==
  /\ request[r] = "queued"
  /\ request' = [request EXCEPT ![r] = "failed"]
  /\ queue' = Dequeued(r) /\ waiters' = waiters \ {r}
  /\ UNCHANGED <<linkVars, onWire, budgets, torn>>
-----------------------------------------------------------------------------
ClientNext ==
  \/ EnsureConnected \/ Close \/ SetReconnectEnabled
  \/ ReconnectFires \/ ConnectTimesOut \/ ErrorTimerFires
  \/ Opens \/ HelloFails \/ ServerInfo \/ Closes \/ Errors \/ ErrorsWithReason
  \/ CheckLiveness \/ Pong \/ ProbeTimesOut
  \/ \E r \in Requests : Request(r) \/ Answer(r) \/ WaiterTimesOut(r) \/ QueueTimesOut(r)

ClientSpec == ClientInit /\ [][ClientNext]_clientVars

\* Timers fire, and a link that nothing goes wrong with opens and is answered.
\* Faults are finite; nothing is assumed of the client's user.
Fairness ==
  /\ WF_clientVars(ReconnectFires) /\ WF_clientVars(ConnectTimesOut) /\ WF_clientVars(ErrorTimerFires)
  /\ WF_clientVars(Opens) /\ WF_clientVars(ServerInfo)

ClientFairSpec == ClientSpec /\ Fairness
-----------------------------------------------------------------------------
(* Safety.                                                                 *)

\* close() is the end: no timer, transport or caller is left behind to bring
\* the client back or to wait for ever, whatever was under way.
ClosedIsFinal ==
  conn = "disposed" =>
    /\ link = "none" /\ timers = {} /\ promise = "none"
    /\ \A r \in Requests : request[r] \notin {"queued", "sent"}

\* Whoever waits for the connection is not forgotten: a connection being made
\* has a timer that ends the wait, a lost one a retry (unless reconnecting was
\* switched off at some time), through every order of errors, closes and timers.
NeverStuck ==
  /\ conn = "connecting" => timers \cap {"connect", "error"} # {}
  /\ conn = "disconnected" => "reconnect" \in timers \/ toggles < Toggles
  /\ promise = "pending" => conn = "connecting" \/ "reconnect" \in timers

\* Nobody waits for an answer that cannot come: a request counts as sent only
\* while the transport it went out on is the live one, and is queued only while
\* a connection is being made.
NobodyStranded ==
  \A r \in Requests :
    /\ request[r] = "sent" => r \in waiters /\ (r \in torn \/ (r \in onWire /\ conn = "connected"))
    /\ request[r] = "queued" => conn = "connecting" /\ r \in queue
    /\ r \in queue => request[r] = "queued"

\* A request whose caller was told that it failed is not sent afterwards, to
\* be carried out behind the caller's back.
NotSentAfterFailure ==
  [][\A r \in Requests : request[r] \in {"failed", "answered"} => r \notin onWire' \ onWire]_clientVars

\* What the test plan asks for a request in flight when its transport goes: it
\* "must reject promptly via onReset -> coordinator.clear(), not dangle until
\* its own timeout". A retry armed before connect() made the connection fires
\* over it and replaces the transport without a reset.
InFlightRejected ==
  \A r \in Requests : request[r] = "sent" => r \in onWire
-----------------------------------------------------------------------------
(* Liveness.                                                               *)

\* connect() returns or throws: when the network recovers, when the client is
\* closed, or when retries are switched off.
ConnectSettles == promise = "pending" ~> promise # "pending"

\* A client that nobody closes, and whose retries nobody switches off, gets
\* back to its daemon once the network does no more wrong.
Recovers ==
  conn \in {"connecting", "disconnected"} ~> (conn \in {"connected", "disposed"} \/ toggles < Toggles)

\* Every outage, and every wait for its end, is over some time.
Heals == ConnectSettles /\ Recovers
=============================================================================
