------------------------------ MODULE AgentRun -------------------------------
(***************************************************************************)
(* The foreground-turn lifecycle of one managed agent of the daemon        *)
(* (packages/server/src/server/agent): admission of a run, the provider's  *)
(* startTurn, the serialized event pipeline, finalization, cancellation,   *)
(* replacement, the inactivity watchdog and close.                         *)
(*                                                                         *)
(* Node runs one callback at a time and drains the microtasks (promise     *)
(* continuations) before the next timer or I/O callback.  An action is the *)
(* code between two awaits.  A timer fires only when no microtask is left  *)
(* (Quiescent); every other action may run whenever its guard allows.      *)
(*                                                                         *)
(* The provider session is external (ACP, Claude, Codex, OpenCode, Pi): it *)
(* accepts or rejects startTurn, emits events of its current turn, and may *)
(* ignore an interrupt.  A turn is named after the run that began it.      *)
(***************************************************************************)
EXTENDS Integers, Sequences, FiniteSets, Functions

CONSTANTS Runs,              \* calls of streamAgent and replaceAgentRun
          Users,             \* callers of cancelAgentRun
          None,              \* no run, no turn
          FinalizedCap,      \* size of finalizedForegroundTurnIds (50 in the code)
          QueueCap,          \* bound: events waiting in the pipeline
          EventBudget,       \* bound: non-terminal events the provider emits
          ReusesActiveTurn   \* the provider (Pi) answers startTurn during a
                             \* live turn with that turn's id, others reject

ASSUME RunAssumption ==
  /\ None \notin Runs
  /\ FinalizedCap \in Nat \ {0}
  /\ QueueCap \in Nat
  /\ EventBudget \in Nat
  /\ ReusesActiveTurn \in BOOLEAN

VARIABLES
  \* the ManagedAgent object and its registration in AgentManager.agents
  phase, lifecycle, activeTurn, pendingReplacement, lastError, permission,
  finalized,                 \* finalizedForegroundTurnIds, oldest first
  published,                 \* lifecycle of the last agent_state broadcast
  \* ForegroundRunState and one forwardTurn generator per run
  pendingRun,                \* the entry of pendingRuns: the run that owns it
  pc, turnOf, waiter, watchdog, replaces,
  \* one AgentRunControlController.cancel call per element of Cancels
  cpc, cturn, ctarget,
  \* AgentSessionEventPipelineController: events not handled yet
  eventQ,
  \* external: the provider session
  session, auto, budget

agentVars == <<lifecycle, activeTurn, lastError, permission, finalized, published>>
runVars == <<pc, turnOf, waiter, watchdog, replaces>>
cancelVars == <<cpc, cturn, ctarget>>
providerVars == <<session, auto, budget>>
vars == <<phase, pendingReplacement, pendingRun, eventQ,
          agentVars, runVars, cancelVars, providerVars>>

\* A cancel is called by a user, by the replacement run or by a watchdog.
Cancels == (Users \X {"user"}) \cup (Runs \X {"replace", "watchdog"})

TerminalKinds == {"completed", "failed", "canceled"}
Kinds == TerminalKinds \cup {"started", "requested", "resolved", "data"}
Turns == Runs \cup {None}
Events == [kind : Kinds, turn : Turns]
Event(kind, turn) == [kind |-> kind, turn |-> turn]

TypeOK ==
  /\ phase \in {"live", "closing", "closed"}
  /\ lifecycle \in {"idle", "running", "error"}
  /\ activeTurn \in Turns
  /\ pendingReplacement \in BOOLEAN
  /\ lastError \in BOOLEAN
  /\ permission \in BOOLEAN
  /\ finalized \in Seq(Runs)
  /\ published \in {"idle", "running", "error", "closed"}
  /\ pendingRun \in Turns
  /\ pc \in [Runs -> {"new", "refused", "replacing", "starting", "streaming", "failed", "done"}]
  /\ turnOf \in [Runs -> Turns]
  /\ waiter \in [Runs -> {"none", "waiting", "settled"}]
  /\ watchdog \in [Runs -> {"off", "armed", "fired"}]
  /\ replaces \in [Runs -> BOOLEAN]
  /\ cpc \in [Cancels -> {"none", "interrupting", "waiting", "forced", "done"}]
  /\ cturn \in [Cancels -> Turns]
  /\ ctarget \in [Cancels -> Turns]
  /\ eventQ \in Seq(Events)
  /\ session \in Turns
  /\ auto \in BOOLEAN
  /\ budget \in 0..EventBudget

Init ==
  /\ phase = "live" /\ lifecycle = "idle" /\ activeTurn = None
  /\ pendingReplacement = FALSE /\ lastError = FALSE /\ permission = FALSE
  /\ finalized = <<>> /\ published = "idle"
  /\ pendingRun = None
  /\ pc = [r \in Runs |-> "new"]
  /\ turnOf = [r \in Runs |-> None]
  /\ waiter = [r \in Runs |-> "none"]
  /\ watchdog = [r \in Runs |-> "off"]
  /\ replaces = [r \in Runs |-> FALSE]
  /\ cpc = [c \in Cancels |-> "none"]
  /\ cturn = [c \in Cancels |-> None]
  /\ ctarget = [c \in Cancels |-> None]
  /\ eventQ = <<>>
  /\ session = None /\ auto = FALSE /\ budget = EventBudget

-----------------------------------------------------------------------------
(* Shared pieces of the handlers.                                          *)

\* stream() and hasInFlightRun(): the agent already has a foreground run.
Busy_TurnOnly == activeTurn # None
Busy == activeTurn # None \/ pendingRun # None

\* No promise continuation is left to run, so timers may fire.
Quiescent == eventQ = <<>> /\ \A r \in Runs : waiter[r] # "settled"

\* createPropagationTimeout: a wait of a cancel may always end by its timer.
PropagationTimeout_Missing == FALSE
PropagationTimeout == Quiescent

\* rememberFinalizedTurn: a bounded set in insertion order.
Remember(t) ==
  LET longer == IF t \in Range(finalized) THEN finalized ELSE Append(finalized, t)
  IN  IF Len(longer) <= FinalizedCap THEN longer ELSE Tail(longer)

\* handle(): a terminal event of a turn that was finalized before is ignored.
Dropped(e) == e.kind \in TerminalKinds /\ e.turn \in Range(finalized)

Foreground_OrPending(e) == e.turn # None /\ e.turn \in {activeTurn, pendingRun}
Foreground(e) == e.turn # None /\ activeTurn = e.turn

\* finalize(): the lifecycle after a foreground turn ended.
FinalLifecycle_NoHold(error) == IF error THEN "error" ELSE "idle"
FinalLifecycle(error) ==
  IF error THEN "error" ELSE IF pendingReplacement THEN "running" ELSE "idle"

\* dispatchByType(): the lifecycle after an event of no foreground turn.
BackgroundLifecycle(kind) ==
  CASE kind = "started" -> "running"
    [] kind = "failed" -> "error"
    [] kind \in {"completed", "canceled"} /\ ~pendingReplacement -> "idle"
    [] OTHER -> lifecycle

\* The error state a terminal event leaves, and whether e ends the active turn.
FailsAfter(e) == IF e.kind \in TerminalKinds THEN e.kind = "failed" ELSE lastError
Ends(e) == Foreground(e) /\ e.kind \in TerminalKinds

\* finalize(): hold the agent busy for a replacement, unless the turn failed.
HeldBusy_OnError(e) == Ends(e) /\ pendingReplacement
HeldBusy(e) == Ends(e) /\ pendingReplacement /\ ~FailsAfter(e)

\* Events after which no agent_state is broadcast.
Silent(e) == \/ e.kind = "data"
             \/ e.kind = "started" /\ Foreground(e)
             \/ e.kind = "completed" /\ ~Ends(e) /\ (lifecycle = "idle" \/ pendingReplacement)
             \/ HeldBusy(e)

\* handle(): the agent after event e, finalize() included.
Handle(e) ==
  IF Dropped(e)
  THEN UNCHANGED agentVars
  ELSE /\ lastError' = FailsAfter(e)
       /\ permission' = CASE e.kind = "requested" -> TRUE
                          [] e.kind \in {"resolved", "failed", "canceled"} -> FALSE
                          [] OTHER -> permission
       /\ activeTurn' = IF Ends(e) THEN None ELSE activeTurn
       /\ finalized' = IF Ends(e) THEN Remember(e.turn) ELSE finalized
       /\ lifecycle' = IF Ends(e) THEN FinalLifecycle(FailsAfter(e))
                       ELSE IF Foreground(e) THEN lifecycle
                       ELSE BackgroundLifecycle(e.kind)
       /\ published' = IF Silent(e) THEN published ELSE lifecycle'

\* The waiters dispatch() captured for the event: unsettled ones of its turn.
Listens(r, e) == e.turn # None /\ waiter[r] = "waiting" /\ turnOf[r] = e.turn

\* notifyWaiters and the for-await loop of forwardTurn: a terminal event ends
\* the stream, a request to the user stops the watchdog, others re-arm it.
Notify(e) ==
  /\ waiter' = [r \in Runs |->
       IF Listens(r, e) /\ e.kind \in TerminalKinds THEN "settled" ELSE waiter[r]]
  /\ watchdog' = [r \in Runs |->
       IF ~Listens(r, e) \/ watchdog[r] = "fired" THEN watchdog[r]
       ELSE IF e.kind \in TerminalKinds \cup {"requested"} THEN "off" ELSE "armed"]

\* dispatch(): handle the event, then tell the waiters unless it was dropped.
Dispatch(e) ==
  /\ Handle(e)
  /\ IF Dropped(e) THEN UNCHANGED <<waiter, watchdog>> ELSE Notify(e)

-----------------------------------------------------------------------------
(* Runs: stream(), replace(), forwardTurn.                                 *)

\* stream(): admission, up to the first await of forwardTurn.
Admitted(r) ==
  /\ pc' = [pc EXCEPT ![r] = "starting"]
  /\ pendingRun' = r
  /\ pendingReplacement' = FALSE
  /\ lastError' = FALSE

StreamCall(r) ==
  /\ pc[r] = "new" /\ phase = "live"
  /\ \/ /\ ~Busy
        /\ Admitted(r)
        /\ UNCHANGED <<lifecycle, activeTurn, permission, finalized, published>>
     \/ /\ Busy
        /\ pc' = [pc EXCEPT ![r] = "refused"]
        /\ UNCHANGED <<pendingRun, pendingReplacement, agentVars>>
  /\ UNCHANGED <<phase, eventQ, turnOf, waiter, watchdog, replaces,
                 cancelVars, providerVars>>

\* The synchronous head of cancel(): what it captures before its first await.
CancelBegins(c, status) ==
  /\ cpc' = [cpc EXCEPT ![c] = IF Busy \/ status = "running" THEN "interrupting" ELSE "done"]
  /\ cturn' = [cturn EXCEPT ![c] = activeTurn]
  /\ ctarget' = [ctarget EXCEPT ![c] = pendingRun]

\* replace(): on a busy agent, keep it "running" and cancel the present run.
\* (On an idle one it is stream().)
ReplaceCall(r) ==
  /\ pc[r] = "new" /\ phase = "live" /\ Quiescent
  /\ Busy \/ lifecycle = "running"
  /\ pc' = [pc EXCEPT ![r] = "replacing"]
  /\ replaces' = [replaces EXCEPT ![r] = TRUE]
  /\ pendingReplacement' = TRUE
  /\ lifecycle' = "running" /\ published' = "running"
  /\ CancelBegins(<<r, "replace">>, "running")
  /\ UNCHANGED <<phase, activeTurn, lastError, permission, finalized, pendingRun,
                 eventQ, turnOf, waiter, watchdog, providerVars>>

\* The catch of forwardReplacement, on an agent still registered.
ReplacementFails(r) ==
  LET stranded == activeTurn = None /\ lifecycle = "running"
  IN  /\ pc' = [pc EXCEPT ![r] = "refused"]
      /\ pendingReplacement' = FALSE
      /\ lifecycle' = IF stranded THEN "idle" ELSE lifecycle
      /\ published' = IF stranded THEN "idle" ELSE published
      /\ UNCHANGED <<pendingRun, activeTurn, lastError, permission, finalized>>

\* forwardReplacement after its cancel returned: streamAgent, or its error.
ReplaceProceeds(r) ==
  /\ pc[r] = "replacing" /\ cpc[<<r, "replace">>] = "done"
  /\ \/ /\ phase = "live" /\ ~Busy
        /\ Admitted(r)
        /\ UNCHANGED <<lifecycle, activeTurn, permission, finalized, published>>
     \/ /\ phase = "live" /\ Busy
        /\ ReplacementFails(r)
     \/ /\ phase # "live"
        /\ pc' = [pc EXCEPT ![r] = "refused"]
        /\ UNCHANGED <<pendingRun, pendingReplacement, agentVars>>
  /\ UNCHANGED <<phase, eventQ, turnOf, waiter, watchdog, replaces,
                 cancelVars, providerVars>>

\* forwardTurn after startTurn resolved: the turn becomes the active one.
StartResolves(r) ==
  /\ pc[r] = "starting" /\ turnOf[r] # None
  /\ pc' = [pc EXCEPT ![r] = "streaming"]
  /\ activeTurn' = turnOf[r]
  /\ lifecycle' = "running" /\ published' = "running"
  /\ waiter' = [waiter EXCEPT ![r] = "waiting"]
  /\ watchdog' = [watchdog EXCEPT ![r] = "armed"]
  /\ UNCHANGED <<phase, pendingReplacement, lastError, permission, finalized,
                 pendingRun, eventQ, turnOf, replaces, cancelVars, providerVars>>

\* forwardTurn after startTurn threw: turn_failed without a turn id, finalize,
\* settle; a replacement also runs its catch.  Once the timeline memory of a
\* closed agent is gone the handler throws before it emits.  The provider does
\* not reject a turn that already ended, nor with events still unread.
StartRejects(r) ==
  /\ pc[r] = "starting"
  /\ \/ turnOf[r] = None
     \/ turnOf[r] = r /\ session = r /\ eventQ = <<>>
  /\ pc' = [pc EXCEPT ![r] = "failed"]
  /\ lifecycle' = "error" /\ lastError' = TRUE
  /\ permission' = (permission /\ phase = "closed")
  /\ activeTurn' = None
  /\ published' = IF phase = "closed" THEN published ELSE "error"
  /\ pendingRun' = IF pendingRun = r THEN None ELSE pendingRun
  /\ pendingReplacement' = (pendingReplacement /\ ~(replaces[r] /\ phase = "live"))
  /\ session' = IF session = r THEN None ELSE session
  /\ UNCHANGED <<phase, finalized, eventQ, turnOf, waiter, watchdog, replaces,
                 cancelVars, auto, budget>>

\* The finally of forwardTurn once its stream ended.
RunEnds(r) ==
  /\ pc[r] = "streaming" /\ waiter[r] = "settled"
  /\ pc' = [pc EXCEPT ![r] = "done"]
  /\ waiter' = [waiter EXCEPT ![r] = "none"]
  /\ pendingRun' = IF pendingRun = r THEN None ELSE pendingRun
  /\ UNCHANGED <<phase, pendingReplacement, eventQ, agentVars, turnOf, watchdog,
                 replaces, cancelVars, providerVars>>

-----------------------------------------------------------------------------
(* Cancellation: cancelAgentRun, the watchdog.                             *)

UserCancel(u) ==
  /\ phase = "live" /\ Quiescent /\ cpc[<<u, "user">>] = "none"
  /\ CancelBegins(<<u, "user">>, lifecycle)
  /\ UNCHANGED <<phase, pendingReplacement, pendingRun, eventQ,
                 agentVars, runVars, providerVars>>

\* The inactivity timer: cancelRun(agentId).  On an agent no longer registered
\* cancel() throws, and the fallback dispatches turn_failed and ends the stream.
WatchdogFires(r) ==
  /\ pc[r] = "streaming" /\ waiter[r] = "waiting" /\ watchdog[r] = "armed"
  /\ Quiescent
  /\ watchdog' = [watchdog EXCEPT ![r] = "fired"]
  /\ IF phase = "live"
     THEN /\ CancelBegins(<<r, "watchdog">>, lifecycle)
          /\ UNCHANGED <<agentVars, waiter>>
     ELSE /\ IF phase = "closing" THEN Handle(Event("failed", turnOf[r]))
                                  ELSE UNCHANGED agentVars
          /\ waiter' = [waiter EXCEPT ![r] = "settled"]
          /\ UNCHANGED cancelVars
  /\ UNCHANGED <<phase, pendingReplacement, pendingRun, eventQ, pc, turnOf, replaces,
                 providerVars>>

\* interruptSession returned, failed or timed out: all three continue.
InterruptReturns(c) ==
  /\ cpc[c] = "interrupting"
  /\ cpc' = [cpc EXCEPT ![c] = "waiting"]
  /\ UNCHANGED <<phase, pendingReplacement, pendingRun, eventQ, agentVars, runVars,
                 cturn, ctarget, providerVars>>

\* waitForForegroundCancellation: what it found in flight has settled.
Propagated(c) ==
  /\ \A r \in Runs : ~(cturn[c] # None /\ turnOf[r] = cturn[c] /\ waiter[r] = "waiting")
  /\ ctarget[c] = None \/ pendingRun # ctarget[c]

\* The end of cancel(): clearAfterInterrupt emits only if something was pending.
CancelReturns(c) ==
  /\ cpc' = [cpc EXCEPT ![c] = "done"]
  /\ permission' = FALSE
  /\ published' = IF permission THEN lifecycle ELSE published
  /\ UNCHANGED <<lifecycle, activeTurn, lastError, finalized, waiter, watchdog, ctarget>>

\* forceCancelStaleForegroundTurn: inject turn_canceled and wait once more.
ForceCancel_Skipped(c) == CancelReturns(c)
ForceCancel(c) ==
  /\ Dispatch(Event("canceled", cturn[c]))
  /\ cpc' = [cpc EXCEPT ![c] = "forced"]
  /\ ctarget' = [ctarget EXCEPT ![c] = pendingRun]

\* The wait ended, by propagation or by its timer.
CancelWaitEnds(c) ==
  /\ cpc[c] = "waiting"
  /\ Propagated(c) \/ PropagationTimeout
  /\ IF cturn[c] # None /\ activeTurn = cturn[c] THEN ForceCancel(c) ELSE CancelReturns(c)
  /\ UNCHANGED <<phase, pendingReplacement, pendingRun, eventQ, pc, turnOf, replaces,
                 cturn, providerVars>>

\* The second wait, for the pending run present at the forced cancel.
ForcedWaitEnds(c) ==
  /\ cpc[c] = "forced"
  /\ ctarget[c] = None \/ pendingRun # ctarget[c] \/ PropagationTimeout
  /\ CancelReturns(c)
  /\ UNCHANGED <<phase, pendingReplacement, pendingRun, eventQ, pc, turnOf, replaces,
                 cturn, providerVars>>

-----------------------------------------------------------------------------
(* Close, and the event pipeline.                                          *)

\* prepareClosedAgent: unregister, cancel the waiters, settle the pending run.
CloseCall ==
  /\ phase = "live" /\ Quiescent
  /\ phase' = "closing"
  /\ waiter' = [r \in Runs |-> IF waiter[r] = "waiting" THEN "settled" ELSE waiter[r]]
  /\ pendingRun' = None
  /\ UNCHANGED <<pendingReplacement, eventQ, agentVars, pc, turnOf, watchdog, replaces,
                 cancelVars, providerVars>>

\* close() after session.close(): broadcast the closed snapshot.
CloseReturns ==
  /\ phase = "closing"
  /\ phase' = "closed" /\ published' = "closed"
  /\ UNCHANGED <<pendingReplacement, pendingRun, eventQ, lifecycle, activeTurn, lastError,
                 permission, finalized, runVars, cancelVars, providerVars>>

\* enqueue(): the tail's next callback looks the agent up again.
ProcessEvent ==
  /\ eventQ # <<>>
  /\ eventQ' = Tail(eventQ)
  /\ IF phase = "live" THEN Dispatch(Head(eventQ)) ELSE UNCHANGED <<agentVars, waiter, watchdog>>
  /\ UNCHANGED <<phase, pendingReplacement, pendingRun, pc, turnOf, replaces,
                 cancelVars, providerVars>>

-----------------------------------------------------------------------------
(* External: the provider session.                                         *)

Emits(events) == /\ phase = "live"
                 /\ Len(eventQ) + Len(events) <= QueueCap
                 /\ eventQ' = eventQ \o events

ProviderUnchanged ==
  UNCHANGED <<phase, pendingReplacement, pendingRun, agentVars, pc, waiter, watchdog,
              replaces, cancelVars>>

\* The session accepts the prompt, with no earlier event of its own unread: a
\* new turn, which ends an autonomous one.
ProviderBegins(r) ==
  /\ pc[r] = "starting" /\ turnOf[r] = None /\ session = None /\ eventQ = <<>>
  /\ Emits((IF auto THEN <<Event("completed", None)>> ELSE <<>>) \o <<Event("started", r)>>)
  /\ session' = r /\ auto' = FALSE
  /\ turnOf' = [turnOf EXCEPT ![r] = r]
  /\ UNCHANGED budget /\ ProviderUnchanged

\* Pi queues the prompt behind its live turn and returns that turn's id.
ProviderQueues(r) ==
  /\ ReusesActiveTurn
  /\ pc[r] = "starting" /\ turnOf[r] = None /\ session # None
  /\ turnOf' = [turnOf EXCEPT ![r] = session]
  /\ UNCHANGED <<eventQ, session, auto, budget>> /\ ProviderUnchanged

\* Output, a permission request or its resolution.
ProviderEmits(kind) ==
  /\ session # None /\ budget > 0
  /\ Emits(<<Event(kind, session)>>)
  /\ budget' = budget - 1
  /\ UNCHANGED <<session, auto, turnOf>> /\ ProviderUnchanged

ProviderEnds(kind) ==
  /\ session # None
  /\ Emits(<<Event(kind, session)>>)
  /\ session' = None
  /\ UNCHANGED <<auto, budget, turnOf>> /\ ProviderUnchanged

\* A turn the provider starts by itself carries no foreground turn id.
AutonomousBegins ==
  /\ session = None /\ ~auto /\ budget > 0
  /\ Emits(<<Event("started", None)>>)
  /\ auto' = TRUE /\ budget' = budget - 1
  /\ UNCHANGED <<session, turnOf>> /\ ProviderUnchanged

AutonomousEnds(kind) ==
  /\ auto
  /\ Emits(<<Event(kind, None)>>)
  /\ auto' = FALSE
  /\ UNCHANGED <<session, budget, turnOf>> /\ ProviderUnchanged

-----------------------------------------------------------------------------
ManagerNext ==
  \/ \E r \in Runs : StreamCall(r) \/ ReplaceCall(r) \/ ReplaceProceeds(r)
                     \/ StartResolves(r) \/ RunEnds(r) \/ WatchdogFires(r)
  \/ \E u \in Users : UserCancel(u)
  \/ \E c \in Cancels : InterruptReturns(c) \/ CancelWaitEnds(c) \/ ForcedWaitEnds(c)
  \/ CloseCall \/ CloseReturns \/ ProcessEvent

ProviderNext ==
  \/ \E r \in Runs : ProviderBegins(r) \/ ProviderQueues(r) \/ StartRejects(r)
  \/ \E kind \in {"data", "requested", "resolved"} : ProviderEmits(kind)
  \/ \E kind \in TerminalKinds : ProviderEnds(kind) \/ AutonomousEnds(kind)
  \/ AutonomousBegins

Next == ManagerNext \/ ProviderNext

Spec == Init /\ [][Next]_vars

\* The event loop runs every ready continuation, timers fire, and
\* AgentSessionRescueController bounds the interrupt.  Nothing is assumed of
\* the provider, of clients or of close.
Fairness ==
  /\ WF_vars(ProcessEvent)
  /\ \A r \in Runs : /\ WF_vars(RunEnds(r))
                     /\ WF_vars(ReplaceProceeds(r))
                     /\ WF_vars(WatchdogFires(r))
  /\ \A c \in Cancels : /\ WF_vars(InterruptReturns(c))
                        /\ WF_vars(CancelWaitEnds(c))
                        /\ WF_vars(ForcedWaitEnds(c))

FairSpec == Spec /\ Fairness
-----------------------------------------------------------------------------
(* Safety.                                                                 *)

\* At most one run is between startTurn and the end of its stream, and it owns
\* the pendingRuns entry, across cancels, replacements and failed starts: two
\* prompts never drive the provider session at once.
SlotExclusive ==
  phase = "live" =>
    \A r \in Runs : pendingRun = r <=> pc[r] \in {"starting", "streaming"}

\* An active turn always has the one stream that will settle it, and a stream
\* that still waits always has its turn active: no turn blocks the agent
\* ("already has an active run") with nobody listening for its end.
TurnHasListener ==
  phase = "live" =>
    \A t \in Runs : activeTurn = t <=>
      \E r \in Runs : pc[r] = "streaming" /\ waiter[r] = "waiting" /\ turnOf[r] = t

\* "running" is always somebody's: a foreground run, a replacement about to
\* start one, or an autonomous turn whose end is still to be handled.
RunningHasOwner ==
  phase = "live" /\ lifecycle = "running" =>
    \/ pendingRun # None
    \/ \E r \in Runs : pc[r] = "replacing"
    \/ auto
    \/ \E i \in 1..Len(eventQ) : eventQ[i].turn = None /\ eventQ[i].kind \in TerminalKinds

\* Clients were last told the lifecycle the agent has.  finalize() stays silent
\* while it holds the agent "running" for a replacement; what that can hide is
\* only the end of a background error, until the replacement's turn starts.
ClientsSeeLifecycle ==
  phase = "live" /\ published # lifecycle =>
    /\ lifecycle = "running" /\ published = "error"
    /\ \E r \in Runs : pc[r] \in {"replacing", "starting"}

\* Clients see a lifecycle that is true: nobody shows an agent at work, or waits
\* for it, when nothing runs.
LifecycleTrue == RunningHasOwner /\ ClientsSeeLifecycle

\* Until a replacement took over or failed, the agent it interrupts never shows
\* idle, and a held agent always has a replacement to release it.
ReplacementHolds ==
  phase = "live" /\ pendingReplacement =>
    /\ lifecycle # "idle"
    /\ \E r \in Runs : pc[r] = "replacing"

\* A cancel that returned has cleared the foreground turn it found, however
\* late or never the provider answered its interrupt.
CancelClearsTurn ==
  \A c \in Cancels : cpc[c] = "done" /\ cturn[c] # None => activeTurn # cturn[c]

\* A finalized turn never becomes the active one again, although startTurn
\* answers and terminal events arrive in any order: were it active, its end
\* would be ignored as already finalized.
NoTurnRevived == activeTurn \notin Range(finalized)

\* What a caller of stream() or replace() sees of its run.
Stage(at) == CASE at \in {"new", "replacing"} -> "asking"
               [] at \in {"starting", "streaming"} -> "held"
               [] at = "refused" -> "refused"
               [] OTHER -> "ended"

Slot == INSTANCE RunSlot WITH slot <- pendingRun,
                              stage <- [r \in Runs |-> Stage(pc[r])],
                              open <- (phase = "live")

\* The agent is one exclusive slot: a run is admitted only when no other holds
\* it, refused only when another does, and releases what it was given, through
\* every cancel, replacement, failed start and close.
ImplementsRunSlot == Slot!SlotSpec

-----------------------------------------------------------------------------
(* Liveness, under FairSpec.                                               *)

\* A stream whose watchdog runs ends, or its turn waits for the user; but a turn
\* that was finalized for another prompt before is never ended again.
StallBounded ==
  \A r \in Runs :
    pc[r] = "streaming" /\ watchdog[r] = "armed" /\ turnOf[r] \notin Range(finalized)
      ~> pc[r] = "done" \/ watchdog[r] = "off"

\* cancel() returns whatever the provider does.
CancelReturnsEventually ==
  \A c \in Cancels : cpc[c] # "none" ~> cpc[c] = "done"

\* A replacement is started or refused; it never hangs in its cancel.
ReplacementDecided ==
  \A r \in Runs : pc[r] = "replacing" ~> pc[r] # "replacing"

\* Whoever stops or replaces a run gets an answer.
CallsReturn == CancelReturnsEventually /\ ReplacementDecided
=============================================================================
