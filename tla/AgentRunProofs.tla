--------------------------- MODULE AgentRunProofs ----------------------------
(***************************************************************************)
(* Proofs about AgentRun, for any number of runs, users and events.        *)
(***************************************************************************)
EXTENDS AgentRun, TLAPS

(* Handling an event keeps the agent's fields typed.                       *)
LEMMA HandleTyped ==
  ASSUME TypeOK, NEW e \in Events, Handle(e)
  PROVE  /\ lifecycle' \in {"idle", "running", "error"}
         /\ activeTurn' \in Turns
         /\ lastError' \in BOOLEAN
         /\ permission' \in BOOLEAN
         /\ finalized' \in Seq(Runs)
         /\ published' \in {"idle", "running", "error", "closed"}
<1>1. CASE Dropped(e)
  BY <1>1 DEF TypeOK, Handle, agentVars
<1>2. CASE ~Dropped(e)
  <2>1. lastError' \in BOOLEAN /\ FailsAfter(e) \in BOOLEAN
    BY <1>2 DEF Handle, FailsAfter, TypeOK
  <2>2. permission' \in BOOLEAN
    BY <1>2 DEF Handle, TypeOK
  <2>3. activeTurn' \in Turns
    BY <1>2 DEF Handle, TypeOK, Turns
  <2>4. ASSUME Ends(e) PROVE Remember(e.turn) \in Seq(Runs)
    <3>1. e.turn \in Runs
      BY <2>4 DEF Ends, Foreground, Events, Turns
    <3> DEFINE longer == IF e.turn \in Range(finalized) THEN finalized
                                                        ELSE Append(finalized, e.turn)
    <3>2. longer \in Seq(Runs)
      BY <3>1 DEF TypeOK
    <3>3. ASSUME ~(Len(longer) <= FinalizedCap) PROVE longer # <<>>
      BY <3>2, <3>3, RunAssumption
    <3> HIDE DEF longer
    <3>4. ASSUME ~(Len(longer) <= FinalizedCap) PROVE Tail(longer) \in Seq(Runs)
      BY <3>2, <3>3, <3>4
    <3>5. Remember(e.turn) = IF Len(longer) <= FinalizedCap THEN longer ELSE Tail(longer)
      BY DEF Remember, longer
    <3> QED BY <3>2, <3>4, <3>5
  <2>5. finalized' \in Seq(Runs)
    BY <1>2, <2>4 DEF Handle, TypeOK
  <2>6. lifecycle' \in {"idle", "running", "error"}
    BY <1>2 DEF Handle, TypeOK, FinalLifecycle, BackgroundLifecycle
  <2>7. published' \in {"idle", "running", "error", "closed"}
    BY <1>2, <2>6 DEF Handle, TypeOK
  <2> QED BY <2>1, <2>2, <2>3, <2>5, <2>6, <2>7
<1> QED BY <1>1, <1>2

(* So does telling the waiters of it.                                      *)
LEMMA DispatchTyped ==
  ASSUME TypeOK, NEW e \in Events, Dispatch(e)
  PROVE  /\ lifecycle' \in {"idle", "running", "error"}
         /\ activeTurn' \in Turns
         /\ lastError' \in BOOLEAN
         /\ permission' \in BOOLEAN
         /\ finalized' \in Seq(Runs)
         /\ published' \in {"idle", "running", "error", "closed"}
         /\ waiter' \in [Runs -> {"none", "waiting", "settled"}]
         /\ watchdog' \in [Runs -> {"off", "armed", "fired"}]
<1>1. Handle(e)
  BY DEF Dispatch
<1>2. /\ waiter' \in [Runs -> {"none", "waiting", "settled"}]
      /\ watchdog' \in [Runs -> {"off", "armed", "fired"}]
  BY DEF Dispatch, Notify, TypeOK
<1> QED BY <1>1, <1>2, HandleTyped

(* The fields a cancel captures.                                           *)
LEMMA CancelBeginsTyped ==
  ASSUME TypeOK, NEW c \in Cancels, NEW status, CancelBegins(c, status)
  PROVE  /\ cpc' \in [Cancels -> {"none", "interrupting", "waiting", "forced", "done"}]
         /\ cturn' \in [Cancels -> Turns]
         /\ ctarget' \in [Cancels -> Turns]
BY DEF TypeOK, CancelBegins

(* Every step of the manager keeps the variables typed.                     *)
LEMMA TypeStep == TypeOK /\ [Next]_vars => TypeOK'
<1> SUFFICES ASSUME TypeOK, [Next]_vars PROVE TypeOK'
  OBVIOUS
<1> USE DEF Turns
<1>1. ASSUME NEW r \in Runs, StreamCall(r) PROVE TypeOK'
  BY <1>1 DEF TypeOK, StreamCall, Admitted, agentVars, cancelVars, providerVars
<1>2. ASSUME NEW r \in Runs, ReplaceCall(r) PROVE TypeOK'
  <2>1. <<r, "replace">> \in Cancels
    BY DEF Cancels
  <2>2. CancelBegins(<<r, "replace">>, "running")
    BY <1>2 DEF ReplaceCall
  <2> QED BY <1>2, <2>1, <2>2, CancelBeginsTyped DEF TypeOK, ReplaceCall, providerVars
<1>3. ASSUME NEW r \in Runs, ReplaceProceeds(r) PROVE TypeOK'
  BY <1>3 DEF TypeOK, ReplaceProceeds, ReplacementFails, Admitted, agentVars,
              cancelVars, providerVars
<1>4. ASSUME NEW r \in Runs, StartResolves(r) PROVE TypeOK'
  BY <1>4 DEF TypeOK, StartResolves, cancelVars, providerVars
<1>5. ASSUME NEW r \in Runs, RunEnds(r) PROVE TypeOK'
  BY <1>5 DEF TypeOK, RunEnds, agentVars, cancelVars, providerVars
<1>6. ASSUME NEW r \in Runs, WatchdogFires(r) PROVE TypeOK'
  <2>1. watchdog' \in [Runs -> {"off", "armed", "fired"}]
    BY <1>6 DEF TypeOK, WatchdogFires
  <2>2. CASE phase = "live"
    <3>1. <<r, "watchdog">> \in Cancels
      BY DEF Cancels
    <3>2. CancelBegins(<<r, "watchdog">>, lifecycle)
      BY <1>6, <2>2 DEF WatchdogFires
    <3> QED BY <1>6, <2>1, <2>2, <3>1, <3>2, CancelBeginsTyped
            DEF TypeOK, WatchdogFires, agentVars, providerVars
  <2>3. CASE phase = "closing"
    <3>1. Event("failed", turnOf[r]) \in Events
      BY DEF TypeOK, Event, Events, Kinds, TerminalKinds
    <3>2. Handle(Event("failed", turnOf[r]))
      BY <1>6, <2>3 DEF WatchdogFires
    <3> QED BY <1>6, <2>1, <2>3, <3>1, <3>2, HandleTyped
            DEF TypeOK, WatchdogFires, cancelVars, providerVars
  <2>4. CASE phase = "closed"
    BY <1>6, <2>1, <2>4 DEF TypeOK, WatchdogFires, agentVars, cancelVars, providerVars
  <2> QED BY <2>2, <2>3, <2>4 DEF TypeOK
<1>7. ASSUME NEW u \in Users, UserCancel(u) PROVE TypeOK'
  <2>1. <<u, "user">> \in Cancels
    BY DEF Cancels
  <2>2. CancelBegins(<<u, "user">>, lifecycle)
    BY <1>7 DEF UserCancel
  <2> QED BY <1>7, <2>1, <2>2, CancelBeginsTyped
          DEF TypeOK, UserCancel, agentVars, runVars, providerVars
<1>8. ASSUME NEW c \in Cancels, InterruptReturns(c) PROVE TypeOK'
  BY <1>8 DEF TypeOK, InterruptReturns, agentVars, runVars, providerVars
<1>9. ASSUME NEW c \in Cancels, CancelWaitEnds(c) PROVE TypeOK'
  <2>1. CASE ForceCancel(c)
    <3>1. Event("canceled", cturn[c]) \in Events
      BY DEF TypeOK, Event, Events, Kinds, TerminalKinds
    <3>2. Dispatch(Event("canceled", cturn[c]))
      BY <2>1 DEF ForceCancel
    <3>3. /\ cpc' \in [Cancels -> {"none", "interrupting", "waiting", "forced", "done"}]
          /\ ctarget' \in [Cancels -> Turns]
      BY <2>1 DEF TypeOK, ForceCancel
    <3> QED BY <1>9, <3>1, <3>2, <3>3, DispatchTyped DEF TypeOK, CancelWaitEnds, providerVars
  <2>2. CASE CancelReturns(c)
    BY <1>9, <2>2 DEF TypeOK, CancelWaitEnds, CancelReturns, providerVars
  <2> QED BY <1>9, <2>1, <2>2 DEF CancelWaitEnds
<1>10. ASSUME NEW c \in Cancels, ForcedWaitEnds(c) PROVE TypeOK'
  BY <1>10 DEF TypeOK, ForcedWaitEnds, CancelReturns, providerVars
<1>11. CASE CloseCall
  BY <1>11 DEF TypeOK, CloseCall, agentVars, cancelVars, providerVars
<1>12. CASE CloseReturns
  BY <1>12 DEF TypeOK, CloseReturns, runVars, cancelVars, providerVars
<1>13. CASE ProcessEvent
  <2>1. eventQ' \in Seq(Events) /\ Head(eventQ) \in Events
    BY <1>13 DEF TypeOK, ProcessEvent
  <2>2. CASE phase = "live"
    BY <1>13, <2>1, <2>2, DispatchTyped DEF TypeOK, ProcessEvent, cancelVars, providerVars
  <2>3. CASE phase # "live"
    BY <1>13, <2>1, <2>3 DEF TypeOK, ProcessEvent, agentVars, cancelVars, providerVars
  <2> QED BY <2>2, <2>3
<1>14. CASE ProviderNext
  <2>1. \A kind \in Kinds, t \in Turns : Event(kind, t) \in Events
    BY DEF Event, Events
  <2> USE DEF ProviderUnchanged, agentVars, cancelVars, Emits, Kinds, TerminalKinds
  <2>2. ASSUME NEW r \in Runs, ProviderBegins(r) PROVE TypeOK'
    <3>1. eventQ' \in Seq(Events)
      BY <2>1, <2>2 DEF TypeOK, ProviderBegins
    <3> QED BY <2>2, <3>1 DEF TypeOK, ProviderBegins
  <2>3. ASSUME NEW r \in Runs, ProviderQueues(r) PROVE TypeOK'
    BY <2>3 DEF TypeOK, ProviderQueues
  <2>4. ASSUME NEW r \in Runs, StartRejects(r) PROVE TypeOK'
    BY <2>4 DEF TypeOK, StartRejects
  <2>5. ASSUME NEW kind \in {"data", "requested", "resolved"}, ProviderEmits(kind) PROVE TypeOK'
    <3>1. Event(kind, session) \in Events
      BY <2>1 DEF TypeOK
    <3>2. eventQ' \in Seq(Events)
      BY <2>5, <3>1 DEF TypeOK, ProviderEmits
    <3>3. budget' \in 0..EventBudget
      BY <2>5, RunAssumption DEF TypeOK, ProviderEmits
    <3> QED BY <2>5, <3>2, <3>3 DEF TypeOK, ProviderEmits
  <2>6. ASSUME NEW kind \in TerminalKinds, ProviderEnds(kind) PROVE TypeOK'
    <3>1. Event(kind, session) \in Events
      BY <2>1 DEF TypeOK
    <3>2. eventQ' \in Seq(Events)
      BY <2>6, <3>1 DEF TypeOK, ProviderEnds
    <3> QED BY <2>6, <3>2 DEF TypeOK, ProviderEnds
  <2>7. ASSUME NEW kind \in TerminalKinds, AutonomousEnds(kind) PROVE TypeOK'
    <3>1. Event(kind, None) \in Events
      BY <2>1 DEF TypeOK
    <3>2. eventQ' \in Seq(Events)
      BY <2>7, <3>1 DEF TypeOK, AutonomousEnds
    <3> QED BY <2>7, <3>2 DEF TypeOK, AutonomousEnds
  <2>8. CASE AutonomousBegins
    <3>1. Event("started", None) \in Events
      BY <2>1 DEF TypeOK
    <3>2. eventQ' \in Seq(Events)
      BY <2>8, <3>1 DEF TypeOK, AutonomousBegins
    <3>3. budget' \in 0..EventBudget
      BY <2>8, RunAssumption DEF TypeOK, AutonomousBegins
    <3> QED BY <2>8, <3>2, <3>3 DEF TypeOK, AutonomousBegins
  <2> QED BY <1>14, <2>2, <2>3, <2>4, <2>5, <2>6, <2>7, <2>8 DEF ProviderNext
<1>15. CASE UNCHANGED vars
  BY <1>15 DEF TypeOK, vars, agentVars, runVars, cancelVars, providerVars
<1> QED BY <1>1, <1>2, <1>3, <1>4, <1>5, <1>6, <1>7, <1>8, <1>9, <1>10, <1>11, <1>12,
           <1>13, <1>14, <1>15 DEF Next, ManagerNext

(* Every reachable state is well typed.                                    *)
THEOREM TypeCorrect == Spec => []TypeOK
<1>1. Init => TypeOK
  <2> SUFFICES ASSUME Init PROVE TypeOK
    OBVIOUS
  <2>1. finalized \in Seq(Runs) /\ eventQ \in Seq(Events)
    BY DEF Init
  <2>2. budget \in 0..EventBudget
    BY RunAssumption DEF Init
  <2> QED BY <2>1, <2>2 DEF Init, TypeOK, Turns
<1> QED BY <1>1, TypeStep, PTL DEF Spec
-----------------------------------------------------------------------------
(* One run holds the agent, and its active turn has a listener.            *)

SlotInv == SlotExclusive /\ TurnHasListener

(* A dispatched event ends the active turn and its listener together.      *)
LEMMA DispatchKeepsListener ==
  ASSUME TypeOK, TurnHasListener, NEW e \in Events, Dispatch(e),
         UNCHANGED <<phase, pc, turnOf>>
  PROVE  TurnHasListener'
<1> SUFFICES ASSUME phase = "live", NEW t \in Runs
             PROVE  activeTurn' = t <=>
                      \E r \in Runs : pc[r] = "streaming" /\ waiter'[r] = "waiting" /\ turnOf[r] = t
  BY DEF TurnHasListener
<1>1. activeTurn = t <=>
        \E r \in Runs : pc[r] = "streaming" /\ waiter[r] = "waiting" /\ turnOf[r] = t
  BY DEF TurnHasListener
<1>2. CASE Dropped(e)
  BY <1>1, <1>2 DEF Dispatch, Handle, agentVars
<1>3. CASE ~Dropped(e)
  <2>1. activeTurn' = IF Ends(e) THEN None ELSE activeTurn
    BY <1>3 DEF Dispatch, Handle
  <2>2. waiter' = [r \in Runs |-> IF Listens(r, e) /\ e.kind \in TerminalKinds
                                  THEN "settled" ELSE waiter[r]]
    BY <1>3 DEF Dispatch, Notify
  <2>3. CASE e.turn = t /\ e.kind \in TerminalKinds
    <3>1. activeTurn' # t
      BY <2>1, <2>3, RunAssumption DEF Ends, Foreground
    <3>2. \A r \in Runs : turnOf[r] = t => waiter'[r] # "waiting"
      BY <2>2, <2>3, RunAssumption DEF Listens
    <3> QED BY <3>1, <3>2
  <2>4. CASE ~(e.turn = t /\ e.kind \in TerminalKinds)
    <3>1. activeTurn' = t <=> activeTurn = t
      BY <2>1, <2>4, RunAssumption DEF Ends, Foreground
    <3>2. \A r \in Runs : turnOf[r] = t => waiter'[r] = waiter[r]
      BY <2>2, <2>4 DEF Listens
    <3> QED BY <1>1, <3>1, <3>2
  <2> QED BY <2>3, <2>4
<1> QED BY <1>2, <1>3

(* Every step keeps the one run of the agent the only one that holds it and *)
(* its turn listened to.                                                   *)
LEMMA SlotStep == TypeOK /\ SlotInv /\ [Next]_vars => SlotInv'
<1> SUFFICES ASSUME TypeOK, SlotExclusive, TurnHasListener, [Next]_vars,
                    phase' = "live", phase = "live"
             PROVE  SlotExclusive' /\ TurnHasListener'
  <2>1. [Next]_vars /\ TypeOK /\ phase' = "live" => phase = "live"
    BY DEF Next, ManagerNext, ProviderNext, vars, StreamCall, ReplaceCall, ReplaceProceeds,
           StartResolves, RunEnds, WatchdogFires, UserCancel, InterruptReturns,
           CancelWaitEnds, ForcedWaitEnds, CloseCall, CloseReturns, ProcessEvent,
           ProviderBegins, ProviderQueues, StartRejects, ProviderEmits, ProviderEnds,
           AutonomousEnds, AutonomousBegins, ProviderUnchanged
  <2> QED BY <2>1 DEF SlotInv, SlotExclusive, TurnHasListener
<1>0. \A r \in Runs : r # None
  BY RunAssumption
<1>1. ASSUME NEW r \in Runs, StreamCall(r) PROVE SlotExclusive' /\ TurnHasListener'
  BY <1>0, <1>1 DEF TypeOK, SlotExclusive, TurnHasListener, StreamCall, Admitted, Busy, agentVars
<1>2. ASSUME NEW r \in Runs, ReplaceCall(r) PROVE SlotExclusive' /\ TurnHasListener'
  BY <1>0, <1>2 DEF TypeOK, SlotExclusive, TurnHasListener, ReplaceCall
<1>3. ASSUME NEW r \in Runs, ReplaceProceeds(r) PROVE SlotExclusive' /\ TurnHasListener'
  BY <1>0, <1>3 DEF TypeOK, SlotExclusive, TurnHasListener, ReplaceProceeds, ReplacementFails,
                    Admitted, Busy, agentVars
<1>4. ASSUME NEW r \in Runs, StartResolves(r) PROVE SlotExclusive' /\ TurnHasListener'
  BY <1>0, <1>4 DEF TypeOK, SlotExclusive, TurnHasListener, StartResolves
<1>5. ASSUME NEW r \in Runs, RunEnds(r) PROVE SlotExclusive' /\ TurnHasListener'
  BY <1>0, <1>5 DEF TypeOK, SlotExclusive, TurnHasListener, RunEnds, agentVars
<1>6. ASSUME NEW r \in Runs, StartRejects(r) PROVE SlotExclusive' /\ TurnHasListener'
  BY <1>0, <1>6 DEF TypeOK, SlotExclusive, TurnHasListener, StartRejects
<1>7. ASSUME NEW r \in Runs, ProviderBegins(r) \/ ProviderQueues(r)
      PROVE  SlotExclusive' /\ TurnHasListener'
  BY <1>7 DEF TypeOK, SlotExclusive, TurnHasListener, ProviderBegins, ProviderQueues,
              ProviderUnchanged, agentVars
<1>8. ASSUME NEW c \in Cancels, CancelWaitEnds(c) PROVE SlotExclusive' /\ TurnHasListener'
  <2>1. SlotExclusive'
    BY <1>8 DEF SlotExclusive, CancelWaitEnds
  <2>2. CASE ForceCancel(c)
    <3>1. Event("canceled", cturn[c]) \in Events
      BY DEF TypeOK, Event, Events, Kinds, TerminalKinds
    <3>2. Dispatch(Event("canceled", cturn[c]))
      BY <2>2 DEF ForceCancel
    <3> QED BY <1>8, <2>1, <3>1, <3>2, DispatchKeepsListener DEF CancelWaitEnds
  <2>3. CASE CancelReturns(c)
    BY <1>8, <2>1, <2>3 DEF TurnHasListener, CancelWaitEnds, CancelReturns
  <2> QED BY <1>8, <2>2, <2>3 DEF CancelWaitEnds
<1>9. CASE ProcessEvent
  <2>1. Head(eventQ) \in Events /\ Dispatch(Head(eventQ))
    BY <1>9 DEF TypeOK, ProcessEvent
  <2>2. SlotExclusive'
    BY <1>9 DEF SlotExclusive, ProcessEvent
  <2> QED BY <1>9, <2>1, <2>2, DispatchKeepsListener DEF ProcessEvent
<1>10. ASSUME UNCHANGED <<phase, pendingRun, pc, turnOf, waiter, activeTurn>>
       PROVE  SlotExclusive' /\ TurnHasListener'
  BY <1>10 DEF SlotExclusive, TurnHasListener
<1>11. ASSUME NEW r \in Runs, WatchdogFires(r) PROVE SlotExclusive' /\ TurnHasListener'
  BY <1>10, <1>11 DEF WatchdogFires, agentVars
<1>12. ASSUME NEW u \in Users, UserCancel(u) PROVE SlotExclusive' /\ TurnHasListener'
  BY <1>10, <1>12 DEF UserCancel, agentVars, runVars
<1>13. ASSUME NEW c \in Cancels, InterruptReturns(c) \/ ForcedWaitEnds(c)
       PROVE  SlotExclusive' /\ TurnHasListener'
  BY <1>10, <1>13 DEF InterruptReturns, ForcedWaitEnds, CancelReturns, agentVars, runVars
<1>14. ASSUME NEW kind, \/ ProviderEmits(kind) \/ ProviderEnds(kind)
                        \/ AutonomousEnds(kind) \/ AutonomousBegins
       PROVE  SlotExclusive' /\ TurnHasListener'
  BY <1>10, <1>14 DEF ProviderEmits, ProviderEnds, AutonomousEnds, AutonomousBegins,
                      ProviderUnchanged, agentVars
<1>15. CASE CloseCall \/ CloseReturns
  BY <1>15 DEF CloseCall, CloseReturns
<1>16. CASE UNCHANGED vars
  BY <1>10, <1>16 DEF vars, agentVars, runVars
<1> QED BY <1>1, <1>2, <1>3, <1>4, <1>5, <1>6, <1>7, <1>8, <1>9, <1>11, <1>12, <1>13,
           <1>14, <1>15, <1>16 DEF Next, ManagerNext, ProviderNext

(* No two runs drive one agent, whatever the callers and the provider do.  *)
THEOREM OneRunPerAgent == Spec => []SlotExclusive
<1>1. Init => SlotInv
  BY RunAssumption DEF Init, SlotInv, SlotExclusive, TurnHasListener
<1> QED BY <1>1, SlotStep, TypeCorrect, PTL DEF Spec, SlotInv

(* No active turn is left without the stream that will see its end.        *)
THEOREM ListenerForTurn == Spec => []TurnHasListener
<1>1. Init => SlotInv
  BY RunAssumption DEF Init, SlotInv, SlotExclusive, TurnHasListener
<1> QED BY <1>1, SlotStep, TypeCorrect, PTL DEF Spec, SlotInv
-----------------------------------------------------------------------------
(* AgentRun implements RunSlot.                                            *)

(* The agent starts with a free slot and every call still asking.          *)
LEMMA SlotInitMaps == Init => Slot!SlotInit
BY DEF Init, Slot!SlotInit, Stage

(* Where each pc stands, for a caller.                                     *)
LEMMA StageValues ==
  /\ Stage("new") = "asking" /\ Stage("replacing") = "asking"
  /\ Stage("starting") = "held" /\ Stage("streaming") = "held"
  /\ Stage("refused") = "refused"
  /\ Stage("failed") = "ended" /\ Stage("done") = "ended"
BY DEF Stage

(* A busy agent's slot is taken: refusing a run is always justified.       *)
LEMMA BusyIsTaken ==
  ASSUME TypeOK, SlotInv, phase = "live", Busy
  PROVE  pendingRun # None
BY RunAssumption DEF TypeOK, Turns, SlotInv, SlotExclusive, TurnHasListener, Busy

(* Every step is an admission, a refusal, a release or the shut-down of the *)
(* slot, or leaves the slot alone.                                         *)
LEMMA SlotMaps == TypeOK /\ SlotInv /\ [Next]_vars => [Slot!SlotNext]_(Slot!slotVars)
<1> SUFFICES ASSUME TypeOK, SlotInv, [Next]_vars
             PROVE  [Slot!SlotNext]_(Slot!slotVars)
  OBVIOUS
<1> DEFINE st == [r \in Runs |-> Stage(pc[r])]
<1> USE DEF Slot!SlotNext
<1>1. ASSUME NEW r \in Runs, pc[r] \in {"new", "replacing"}, phase = "live", UNCHANGED phase,
             \/ ~Busy /\ Admitted(r)
             \/ Busy /\ pc' = [pc EXCEPT ![r] = "refused"] /\ UNCHANGED pendingRun
      PROVE  Slot!SlotNext
  <2>1. st[r] = "asking"
    BY <1>1, StageValues
  <2>2. CASE Admitted(r) /\ ~Busy
    <3>1. st' = [st EXCEPT ![r] = "held"]
      BY <2>2, StageValues DEF TypeOK, Admitted
    <3> QED BY <1>1, <2>1, <2>2, <3>1 DEF Slot!Admit, Admitted, Busy
  <2>3. CASE Busy /\ pc' = [pc EXCEPT ![r] = "refused"] /\ UNCHANGED pendingRun
    <3>1. st' = [st EXCEPT ![r] = "refused"]
      BY <2>3, StageValues DEF TypeOK
    <3>2. pendingRun # None
      BY <1>1, <2>3, BusyIsTaken
    <3> QED BY <1>1, <2>1, <2>3, <3>1, <3>2 DEF Slot!Refuse
  <2> QED BY <1>1, <2>2, <2>3
<1>2. ASSUME NEW r \in Runs, pc[r] \in {"starting", "streaming"}, UNCHANGED phase,
             pc' = [pc EXCEPT ![r] = "failed"] \/ pc' = [pc EXCEPT ![r] = "done"],
             pendingRun' = IF pendingRun = r THEN None ELSE pendingRun
      PROVE  Slot!SlotNext
  <2>1. st[r] = "held"
    BY <1>2, StageValues
  <2>2. st' = [st EXCEPT ![r] = "ended"]
    BY <1>2, StageValues DEF TypeOK
  <2>3. phase = "live" => pendingRun = r
    BY <1>2 DEF SlotInv, SlotExclusive
  <2> QED BY <1>2, <2>1, <2>2, <2>3 DEF Slot!Release
<1>3. ASSUME NEW r \in Runs, UNCHANGED <<phase, pendingRun>>,
             \/ pc[r] = "new" /\ pc' = [pc EXCEPT ![r] = "replacing"]
             \/ pc[r] = "starting" /\ pc' = [pc EXCEPT ![r] = "streaming"]
      PROVE  UNCHANGED Slot!slotVars
  <2>1. \A q \in Runs : Stage(pc'[q]) = Stage(pc[q])
    <3>1. \A q \in Runs \ {r} : pc'[q] = pc[q]
      BY <1>3 DEF TypeOK
    <3>2. \/ pc[r] = "new" /\ pc'[r] = "replacing"
          \/ pc[r] = "starting" /\ pc'[r] = "streaming"
      BY <1>3 DEF TypeOK
    <3>3. Stage(pc'[r]) = Stage(pc[r])
      BY <3>2, StageValues, Zenon
    <3> QED BY <3>1, <3>3
  <2> QED BY <1>3, <2>1 DEF Slot!slotVars
<1>4. ASSUME UNCHANGED <<phase, pendingRun, pc>> PROVE UNCHANGED Slot!slotVars
  BY <1>4 DEF Slot!slotVars
<1>5. ASSUME NEW r \in Runs, StreamCall(r) PROVE Slot!SlotNext
  BY <1>1, <1>5 DEF StreamCall
<1>6. ASSUME NEW r \in Runs, ReplaceCall(r) PROVE UNCHANGED Slot!slotVars
  BY <1>3, <1>6 DEF ReplaceCall
<1>7. ASSUME NEW r \in Runs, ReplaceProceeds(r) PROVE Slot!SlotNext
  <2>1. CASE phase = "live"
    BY <1>1, <1>7, <2>1 DEF ReplaceProceeds, ReplacementFails
  <2>2. CASE phase # "live"
    <3>1. pc[r] = "replacing" /\ pc' = [pc EXCEPT ![r] = "refused"]
      BY <1>7, <2>2 DEF ReplaceProceeds
    <3>2. st[r] = "asking" /\ st' = [st EXCEPT ![r] = "refused"]
      BY <3>1, StageValues DEF TypeOK
    <3> QED BY <1>7, <2>2, <3>2 DEF Slot!Refuse, ReplaceProceeds
  <2> QED BY <2>1, <2>2
<1>8. ASSUME NEW r \in Runs, StartResolves(r) PROVE UNCHANGED Slot!slotVars
  BY <1>3, <1>8 DEF StartResolves
<1>9. ASSUME NEW r \in Runs, RunEnds(r) \/ StartRejects(r) PROVE Slot!SlotNext
  BY <1>2, <1>9 DEF RunEnds, StartRejects
<1>10. ASSUME NEW r \in Runs, \/ WatchdogFires(r)
                               \/ ProviderBegins(r) \/ ProviderQueues(r)
       PROVE  UNCHANGED Slot!slotVars
  BY <1>4, <1>10 DEF WatchdogFires, ProviderBegins, ProviderQueues, ProviderUnchanged
<1>11. ASSUME NEW u \in Users, UserCancel(u) PROVE UNCHANGED Slot!slotVars
  BY <1>4, <1>11 DEF UserCancel, runVars
<1>12. ASSUME NEW c \in Cancels, InterruptReturns(c) \/ CancelWaitEnds(c) \/ ForcedWaitEnds(c)
       PROVE  UNCHANGED Slot!slotVars
  BY <1>4, <1>12 DEF InterruptReturns, CancelWaitEnds, ForcedWaitEnds, runVars
<1>13. CASE CloseCall
  <2>1. st' = st
    BY <1>13 DEF CloseCall
  <2> QED BY <1>13, <2>1 DEF CloseCall, Slot!Shut
<1>14. CASE CloseReturns
  <2>1. st' = st
    BY <1>14 DEF CloseReturns, runVars
  <2> QED BY <1>14, <2>1 DEF CloseReturns, runVars, Slot!slotVars
<1>15. CASE ProcessEvent
  BY <1>4, <1>15 DEF ProcessEvent
<1>16. ASSUME NEW kind, \/ ProviderEmits(kind) \/ ProviderEnds(kind)
                        \/ AutonomousEnds(kind) \/ AutonomousBegins
       PROVE  UNCHANGED Slot!slotVars
  BY <1>4, <1>16 DEF ProviderEmits, ProviderEnds, AutonomousEnds, AutonomousBegins,
                     ProviderUnchanged
<1>17. CASE UNCHANGED vars
  BY <1>4, <1>17 DEF vars, runVars
<1> QED BY <1>5, <1>6, <1>7, <1>8, <1>9, <1>10, <1>11, <1>12, <1>13, <1>14, <1>15, <1>16,
           <1>17 DEF Next, ManagerNext, ProviderNext

(* The manager implements the one-slot specification its callers rely on.  *)
THEOREM SlotRefinement == Spec => ImplementsRunSlot
<1>1. Init => SlotInv
  BY RunAssumption DEF Init, SlotInv, SlotExclusive, TurnHasListener
<1> QED BY <1>1, SlotInitMaps, SlotStep, SlotMaps, TypeCorrect, PTL
        DEF Spec, ImplementsRunSlot, Slot!SlotSpec
-----------------------------------------------------------------------------
(* What clients are told of the agent is true.                             *)

\* Only a registered agent can stay one.
LEMMA LiveBefore == [Next]_vars /\ phase' = "live" => phase = "live"
BY DEF Next, ManagerNext, ProviderNext, vars, StreamCall, ReplaceCall, ReplaceProceeds,
       StartResolves, RunEnds, WatchdogFires, UserCancel, InterruptReturns,
       CancelWaitEnds, ForcedWaitEnds, CloseCall, CloseReturns, ProcessEvent,
       ProviderBegins, ProviderQueues, StartRejects, ProviderEmits, ProviderEnds,
       AutonomousEnds, AutonomousBegins, ProviderUnchanged

(* No event makes an agent that is held for a replacement idle.            *)
LEMMA HandleHolds ==
  ASSUME TypeOK, NEW e \in Events, Handle(e), pendingReplacement, lifecycle # "idle"
  PROVE  lifecycle' # "idle"
BY DEF Handle, agentVars, FinalLifecycle, BackgroundLifecycle, TypeOK

(* Every step keeps a held agent busy and its replacement on the way.      *)
LEMMA ReplacementStep == TypeOK /\ ReplacementHolds /\ [Next]_vars => ReplacementHolds'
<1> SUFFICES ASSUME TypeOK, ReplacementHolds, [Next]_vars, phase = "live", phase' = "live",
                    pendingReplacement'
             PROVE  lifecycle' # "idle" /\ \E r \in Runs : pc'[r] = "replacing"
  BY LiveBefore DEF ReplacementHolds
<1>1. ASSUME pendingReplacement, UNCHANGED <<lifecycle, pc>>
      PROVE  lifecycle' # "idle" /\ \E r \in Runs : pc'[r] = "replacing"
  BY <1>1 DEF ReplacementHolds
<1>2. ASSUME NEW e \in Events, Handle(e), pendingReplacement, UNCHANGED pc
      PROVE  lifecycle' # "idle" /\ \E r \in Runs : pc'[r] = "replacing"
  BY <1>2, HandleHolds DEF ReplacementHolds
<1>3. ASSUME NEW r \in Runs, StreamCall(r) \/ ReplaceProceeds(r)
      PROVE  lifecycle' # "idle" /\ \E s \in Runs : pc'[s] = "replacing"
  BY <1>3 DEF TypeOK, ReplacementHolds, StreamCall, ReplaceProceeds, Admitted,
              ReplacementFails, agentVars
<1>4. ASSUME NEW r \in Runs, ReplaceCall(r) \/ StartResolves(r) \/ StartRejects(r) \/ RunEnds(r)
      PROVE  lifecycle' # "idle" /\ \E s \in Runs : pc'[s] = "replacing"
  BY <1>4 DEF TypeOK, ReplacementHolds, ReplaceCall, StartResolves, StartRejects, RunEnds,
              agentVars
<1>5. ASSUME NEW c \in Cancels, CancelWaitEnds(c)
      PROVE  lifecycle' # "idle" /\ \E r \in Runs : pc'[r] = "replacing"
  <2>1. CASE ForceCancel(c)
    <3>1. Event("canceled", cturn[c]) \in Events /\ Handle(Event("canceled", cturn[c]))
      BY <2>1 DEF ForceCancel, Dispatch, TypeOK, Event, Events, Kinds, TerminalKinds
    <3> QED BY <1>2, <1>5, <3>1 DEF CancelWaitEnds
  <2>2. CASE CancelReturns(c)
    BY <1>1, <1>5, <2>2 DEF CancelWaitEnds, CancelReturns
  <2> QED BY <1>5, <2>1, <2>2 DEF CancelWaitEnds
<1>6. CASE ProcessEvent
  <2>1. Head(eventQ) \in Events /\ Handle(Head(eventQ))
    BY <1>6 DEF TypeOK, ProcessEvent, Dispatch
  <2> QED BY <1>2, <1>6, <2>1 DEF ProcessEvent
<1>7. CASE \/ \E r \in Runs : WatchdogFires(r) \/ ProviderBegins(r) \/ ProviderQueues(r)
           \/ \E u \in Users : UserCancel(u)
           \/ \E c \in Cancels : InterruptReturns(c) \/ ForcedWaitEnds(c)
           \/ CloseCall \/ CloseReturns \/ AutonomousBegins
           \/ \E kind : ProviderEmits(kind) \/ ProviderEnds(kind) \/ AutonomousEnds(kind)
           \/ UNCHANGED vars
  <2>1. UNCHANGED <<pendingReplacement, lifecycle, pc>>
    BY <1>7 DEF WatchdogFires, ProviderBegins, ProviderQueues, UserCancel, InterruptReturns,
         ForcedWaitEnds, CancelReturns, CloseCall, CloseReturns, AutonomousBegins,
         ProviderEmits, ProviderEnds, AutonomousEnds, ProviderUnchanged, vars, agentVars, runVars
  <2> QED BY <1>1, <2>1
<1> QED BY <1>3, <1>4, <1>5, <1>6, <1>7 DEF Next, ManagerNext, ProviderNext

(* An agent held for a replacement never shows idle, and the replacement   *)
(* that will release it exists.                                            *)
THEOREM ReplacementsHold == Spec => []ReplacementHolds
<1>1. Init => ReplacementHolds
  BY DEF Init, ReplacementHolds
<1> QED BY <1>1, ReplacementStep, TypeCorrect, PTL DEF Spec

\* A run that will give the active turn its end, or is about to have one.
Driven(r) == pc[r] = "starting" \/ (pc[r] = "streaming" /\ waiter[r] = "waiting")

\* The end of an autonomous turn waits in the queue, at or after from.
EndQueued(from) ==
  \E i \in from..Len(eventQ) : eventQ[i].turn = None /\ eventQ[i].kind \in TerminalKinds

Works == (\E r \in Runs : Driven(r) \/ pc[r] = "replacing") \/ auto \/ EndQueued(1)

\* What a broadcast may hide, and that the hidden error has no turn.
HiddenError ==
  phase = "live" /\ published # lifecycle =>
    /\ lifecycle = "running" /\ published = "error" /\ activeTurn = None
    /\ \E r \in Runs : pc[r] \in {"replacing", "starting"}

Owned == phase = "live" /\ lifecycle = "running" => Works

\* A turn_started not handled yet is followed by the end of its autonomous turn,
\* or it is the first foreground event of a run that is still driven.
StartQueued(i) ==
  IF eventQ[i].turn = None
  THEN auto \/ EndQueued(i + 1)
  ELSE /\ Driven(eventQ[i].turn) /\ turnOf[eventQ[i].turn] = eventQ[i].turn
       /\ \A j \in 1..(i - 1) : eventQ[j].turn = None

StartsQueued ==
  phase = "live" => \A i \in 1..Len(eventQ) : eventQ[i].kind = "started" => StartQueued(i)

LifeInv == HiddenError /\ Owned /\ StartsQueued

(* What the invariant is for.                                              *)
LEMMA LifeInvImplies == SlotInv /\ LifeInv => LifecycleTrue
<1> SUFFICES ASSUME SlotInv, LifeInv PROVE LifecycleTrue
  OBVIOUS
<1>1. phase = "live" => \A r \in Runs : Driven(r) => pendingRun # None
  BY RunAssumption DEF SlotInv, SlotExclusive, Driven
<1>2. RunningHasOwner
  BY <1>1 DEF LifeInv, Owned, Works, EndQueued, RunningHasOwner
<1> QED BY <1>2 DEF LifeInv, HiddenError, ClientsSeeLifecycle, LifecycleTrue

(* A handled event hides at most the end of a background error.            *)
LEMMA HandleShows ==
  ASSUME TypeOK, ReplacementHolds, HiddenError, phase = "live", NEW e \in Events, Handle(e),
         UNCHANGED <<phase, pc>>
  PROVE  HiddenError'
<1>1. CASE Dropped(e)
  BY <1>1 DEF Handle, agentVars, HiddenError
<1>2. CASE ~Dropped(e) /\ ~Silent(e)
  BY <1>2 DEF Handle, HiddenError
<1>3. CASE ~Dropped(e) /\ HeldBusy(e)
  <2>1. lifecycle' = "running" /\ activeTurn' = None /\ published' = published
    BY <1>3 DEF Handle, HeldBusy, FinalLifecycle, Silent
  <2>2. published = lifecycle /\ lifecycle # "idle" /\ \E r \in Runs : pc[r] = "replacing"
    BY <1>3 DEF HeldBusy, Ends, Foreground, HiddenError, ReplacementHolds
  <2> QED BY <2>1, <2>2 DEF HiddenError, TypeOK
<1>4. CASE ~Dropped(e) /\ Silent(e) /\ ~HeldBusy(e)
  <2>1. ~Ends(e)
    BY <1>4 DEF Silent, HeldBusy, Ends, TerminalKinds
  <2>2. activeTurn' = activeTurn /\ published' = published
    BY <1>4, <2>1 DEF Handle
  <2>3. lifecycle' = lifecycle
    BY <1>4, <2>1 DEF Handle, Silent, Ends, BackgroundLifecycle, TerminalKinds
  <2> QED BY <2>2, <2>3 DEF HiddenError
<1> QED BY <1>1, <1>2, <1>3, <1>4

(* Only the end of the active turn settles a stream that drives it.        *)
LEMMA DispatchDrives ==
  ASSUME TypeOK, TurnHasListener, phase = "live", NEW e \in Events, Dispatch(e),
         UNCHANGED pc, Dropped(e) \/ ~Ends(e), NEW r \in Runs, Driven(r)
  PROVE  Driven(r)'
<1>1. CASE Dropped(e)
  BY <1>1 DEF Dispatch, Driven
<1>2. CASE ~Dropped(e) /\ ~Ends(e)
  <2>1. waiter'[r] = IF Listens(r, e) /\ e.kind \in TerminalKinds THEN "settled" ELSE waiter[r]
    BY <1>2 DEF Dispatch, Notify
  <2>2. CASE pc[r] = "streaming" /\ Listens(r, e)
    <3>1. e.turn \in Runs
      BY <2>2 DEF Listens, Events, Turns
    <3>2. activeTurn = e.turn
      BY <2>2, <3>1 DEF TurnHasListener, Listens
    <3> QED BY <1>2, <2>1, <2>2, <3>2 DEF Ends, Foreground, Listens, Driven
  <2> QED BY <2>1, <2>2 DEF Driven
<1> QED BY <1>1, <1>2

(* After an event "running" is still somebody's.                           *)
LEMMA DispatchOwned ==
  ASSUME TypeOK, TurnHasListener, ReplacementHolds, Owned, phase = "live",
         NEW e \in Events, Dispatch(e), UNCHANGED <<pc, auto>>,
         e.kind = "started" =>
           IF e.turn = None THEN auto \/ EndQueued(1)' ELSE e.turn \in Runs /\ Driven(e.turn),
         EndQueued(1) => EndQueued(1)' \/ (e.turn = None /\ e.kind \in TerminalKinds)
  PROVE  Owned'
<1> SUFFICES ASSUME lifecycle' = "running" PROVE Works'
  BY DEF Owned
<1>1. CASE ~Dropped(e) /\ Ends(e)
  <2>1. pendingReplacement
    BY <1>1 DEF Dispatch, Handle, FinalLifecycle
  <2> QED BY <2>1 DEF ReplacementHolds, Works
<1>2. CASE Dropped(e) \/ ~Ends(e)
  <2>1. \A r \in Runs : Driven(r) => Driven(r)'
    BY <1>2, DispatchDrives
  <2>2. CASE e.turn = None /\ e.kind \in TerminalKinds
    <3>1. ~Dropped(e) /\ ~Foreground(e)
      BY <2>2, RunAssumption DEF Dropped, TypeOK, Range, Foreground
    <3>2. pendingReplacement
      BY <1>2, <2>2, <3>1 DEF Dispatch, Handle, BackgroundLifecycle, TerminalKinds
    <3> QED BY <3>2 DEF ReplacementHolds, Works
  <2>3. CASE e.kind = "started"
    <3>1. CASE e.turn = None
      BY <2>3, <3>1 DEF Works
    <3>2. CASE e.turn # None
      BY <2>1, <2>3, <3>2 DEF Works
    <3> QED BY <3>1, <3>2
  <2>4. CASE e.kind # "started" /\ ~(e.turn = None /\ e.kind \in TerminalKinds)
    <3>1. CASE lifecycle = "running"
      BY <2>1, <2>4, <3>1 DEF Owned, Works
    <3>2. CASE lifecycle # "running"
      <4>1. ~Dropped(e) /\ ~Ends(e)
        BY <1>2, <3>2 DEF Dispatch, Handle, agentVars
      <4> QED BY <2>4, <3>2, <4>1 DEF Dispatch, Handle, BackgroundLifecycle, TypeOK
    <3> QED BY <3>1, <3>2
  <2> QED BY <2>2, <2>3, <2>4
<1> QED BY <1>1, <1>2
(* Taking the first event off the queue leaves every start followed up.    *)
LEMMA DequeueStarts ==
  ASSUME TypeOK, TurnHasListener, StartsQueued, phase = "live", eventQ # <<>>,
         eventQ' = Tail(eventQ), Dispatch(Head(eventQ)), UNCHANGED <<pc, turnOf, auto>>
  PROVE  StartsQueued'
<1> SUFFICES ASSUME NEW i \in 1..Len(eventQ'), eventQ'[i].kind = "started"
             PROVE  StartQueued(i)'
  BY DEF StartsQueued
<1>1. /\ Len(eventQ') = Len(eventQ) - 1
      /\ \A j \in 1..Len(eventQ') : eventQ'[j] = eventQ[j + 1]
      /\ i + 1 \in 1..Len(eventQ)
  BY DEF TypeOK
<1>2. StartQueued(i + 1)
  BY <1>1 DEF StartsQueued
<1>3. CASE eventQ'[i].turn = None
  <2>1. auto \/ EndQueued((i + 1) + 1)
    BY <1>1, <1>2, <1>3 DEF StartQueued
  <2>2. ASSUME NEW k \in ((i + 1) + 1)..Len(eventQ), eventQ[k].turn = None,
               eventQ[k].kind \in TerminalKinds
        PROVE  EndQueued(i + 1)'
    <3>1. k - 1 \in (i + 1)..Len(eventQ') /\ eventQ'[k - 1] = eventQ[k]
      BY <1>1, <2>2
    <3> QED BY <2>2, <3>1 DEF EndQueued
  <2> QED BY <1>3, <2>1, <2>2 DEF StartQueued, EndQueued
<1>4. CASE eventQ'[i].turn # None
  <2>1. eventQ[i + 1] \in Events
    BY <1>1 DEF TypeOK
  <2>2. PICK t \in Runs : t = eventQ[i + 1].turn
    BY <1>1, <1>4, <2>1 DEF Events, Turns
  <2>3. /\ t = eventQ'[i].turn /\ Driven(t) /\ turnOf[t] = t
        /\ \A j \in 1..((i + 1) - 1) : eventQ[j].turn = None
    BY <1>1, <1>2, <1>4, <2>2 DEF StartQueued
  <2>4. Head(eventQ) = eventQ[1] /\ Head(eventQ) \in Events
    BY DEF TypeOK
  <2>5. ~Ends(Head(eventQ))
    <3>1. Head(eventQ).turn = None
      BY <1>1, <2>3, <2>4
    <3> QED BY <3>1 DEF Ends, Foreground
  <2>6. Driven(t)'
    BY <2>3, <2>4, <2>5, DispatchDrives
  <2>7. \A j \in 1..(i - 1) : eventQ'[j].turn = None
    BY <1>1, <2>3
  <2> QED BY <1>4, <2>3, <2>6, <2>7 DEF StartQueued
<1> QED BY <1>3, <1>4

(* A step that takes no event and keeps every driven run keeps them too.   *)
LEMMA StartsFrame ==
  ASSUME TypeOK, StartsQueued, phase = "live", UNCHANGED eventQ, auto => auto',
         \A r \in Runs : Driven(r) /\ turnOf[r] = r => Driven(r)' /\ turnOf'[r] = r
  PROVE  StartsQueued'
<1> SUFFICES ASSUME NEW i \in 1..Len(eventQ), eventQ[i].kind = "started"
             PROVE  StartQueued(i)'
  BY DEF StartsQueued
<1>1. StartQueued(i) /\ eventQ[i] \in Events
  BY DEF StartsQueued, TypeOK
<1>2. eventQ[i].turn \in Turns
  BY <1>1 DEF Events
<1> QED BY <1>1, <1>2 DEF StartQueued, EndQueued, Turns

(* An event the provider appends, that starts nothing or starts a turn of   *)
(* its own, keeps every start followed up and every queued end queued.     *)
LEMMA AppendKeeps ==
  ASSUME TypeOK, Owned, StartsQueued, phase = "live", NEW e \in Events,
         eventQ' = Append(eventQ, e),
         UNCHANGED <<lifecycle, pc, waiter, turnOf>>,
         e.kind = "started" => e.turn = None /\ auto',
         auto => auto' \/ (e.turn = None /\ e.kind \in TerminalKinds)
  PROVE  Owned' /\ StartsQueued'
<1> DEFINE n == Len(eventQ)
<1>1. /\ n \in Nat /\ Len(eventQ') = n + 1 /\ eventQ'[n + 1] = e
      /\ \A i \in 1..n : eventQ'[i] = eventQ[i]
  BY DEF TypeOK
<1>2. ASSUME NEW from \in 1..(n + 1), auto \/ EndQueued(from)
      PROVE  auto' \/ EndQueued(from)'
  <2>1. CASE EndQueued(from)
    BY <1>1, <2>1 DEF EndQueued
  <2>2. CASE auto
    <3>1. n + 1 \in from..(n + 1)
      BY <1>1
    <3> QED BY <1>1, <2>2, <3>1 DEF EndQueued
  <2> QED BY <1>2, <2>1, <2>2
<1>3. Owned'
  <2>1. 1 \in 1..(n + 1)
    BY <1>1
  <2> QED BY <1>2, <2>1 DEF Owned, Works, Driven
<1>4. ASSUME NEW i \in 1..(n + 1), eventQ'[i].kind = "started" PROVE StartQueued(i)'
  <2>1. CASE i = n + 1
    BY <1>1, <1>4, <2>1 DEF StartQueued
  <2>2. CASE i \in 1..n
    <3>1. StartQueued(i) /\ i + 1 \in 1..(n + 1)
      BY <1>1, <1>4, <2>2 DEF StartsQueued
    <3>2. CASE eventQ[i].turn = None
      BY <1>1, <1>2, <2>2, <3>1, <3>2 DEF StartQueued
    <3>3. CASE eventQ[i].turn # None
      <4>1. \A j \in 1..(i - 1) : eventQ'[j] = eventQ[j]
        BY <1>1, <2>2
      <4> QED BY <1>1, <2>2, <3>1, <3>3, <4>1 DEF StartQueued, Driven
    <3> QED BY <3>2, <3>3
  <2> QED BY <1>1, <2>1, <2>2
<1> QED BY <1>1, <1>3, <1>4 DEF StartsQueued

(* Every step of the manager and the provider keeps the lifecycle true.    *)
LEMMA LifeStep == TypeOK /\ SlotInv /\ ReplacementHolds /\ LifeInv /\ [Next]_vars => LifeInv'
<1> SUFFICES ASSUME TypeOK, TurnHasListener, ReplacementHolds, HiddenError, Owned, StartsQueued,
                    [Next]_vars, phase = "live", phase' = "live"
             PROVE  HiddenError' /\ Owned' /\ StartsQueued'
  BY LiveBefore DEF SlotInv, LifeInv, HiddenError, Owned, StartsQueued
<1>0. \A r \in Runs : r # None
  BY RunAssumption
<1>1. ASSUME UNCHANGED <<auto, eventQ>>,
             \A r \in Runs : Driven(r) => Driven(r)' /\ turnOf'[r] = turnOf[r],
             lifecycle' = "running" =>
               \/ \E r \in Runs : Driven(r)' \/ pc'[r] = "replacing"
               \/ lifecycle = "running" /\ \A r \in Runs : pc[r] = "replacing" => pc'[r] = "replacing"
      PROVE  Owned' /\ StartsQueued'
  <2>1. Owned'
    BY <1>1 DEF Owned, Works, EndQueued
  <2> QED BY <1>1, <2>1, StartsFrame
<1>2. ASSUME NEW r \in Runs, StreamCall(r) PROVE HiddenError' /\ Owned' /\ StartsQueued'
  <2>1. UNCHANGED <<auto, eventQ, turnOf, waiter, lifecycle, published, activeTurn>>
    BY <1>2 DEF StreamCall, agentVars, providerVars
  <2>2. \A s \in Runs : s # r => pc'[s] = pc[s]
    BY <1>2 DEF TypeOK, StreamCall, Admitted
  <2>3. pc[r] = "new"
    BY <1>2 DEF StreamCall
  <2> QED BY <1>1, <2>1, <2>2, <2>3 DEF Driven, HiddenError
<1>3. ASSUME NEW r \in Runs, ReplaceCall(r) PROVE HiddenError' /\ Owned' /\ StartsQueued'
  <2>1. /\ UNCHANGED <<auto, eventQ, turnOf, waiter>> /\ lifecycle' = published'
        /\ pc[r] = "new" /\ pc'[r] = "replacing" /\ \A s \in Runs : s # r => pc'[s] = pc[s]
    BY <1>3 DEF TypeOK, ReplaceCall, providerVars
  <2> QED BY <1>1, <2>1 DEF Driven, HiddenError
<1>4. ASSUME NEW r \in Runs, ReplaceProceeds(r) PROVE HiddenError' /\ Owned' /\ StartsQueued'
  <2>1. /\ UNCHANGED <<auto, eventQ, turnOf, waiter, activeTurn>> /\ pc[r] = "replacing"
        /\ \A s \in Runs : s # r => pc'[s] = pc[s]
    BY <1>4 DEF TypeOK, ReplaceProceeds, Admitted, ReplacementFails, agentVars, providerVars
  <2>2. CASE Admitted(r) /\ UNCHANGED <<lifecycle, published>>
    <3>1. Driven(r)' /\ pc'[r] = "starting"
      BY <2>2 DEF TypeOK, Admitted, Driven
    <3> QED BY <1>1, <2>1, <2>2, <3>1 DEF Driven, HiddenError
  <2>3. CASE ReplacementFails(r)
    <3>1. HiddenError'
      BY <2>1, <2>3 DEF ReplacementFails, HiddenError
    <3>2. ASSUME lifecycle' = "running" PROVE \E s \in Runs : Driven(s)'
      <4>1. activeTurn \in Runs
        BY <2>3, <3>2 DEF ReplacementFails, TypeOK, Turns
      <4>2. PICK s \in Runs : pc[s] = "streaming" /\ waiter[s] = "waiting"
        BY <4>1 DEF TurnHasListener
      <4> QED BY <2>1, <4>2 DEF Driven
    <3> QED BY <1>1, <2>1, <3>1, <3>2 DEF Driven
  <2> QED BY <1>4, <2>2, <2>3 DEF ReplaceProceeds
<1>5. ASSUME NEW r \in Runs, StartResolves(r) PROVE HiddenError' /\ Owned' /\ StartsQueued'
  <2>1. /\ UNCHANGED <<auto, eventQ, turnOf>> /\ lifecycle' = published'
        /\ pc'[r] = "streaming" /\ waiter'[r] = "waiting"
        /\ \A s \in Runs : s # r => pc'[s] = pc[s] /\ waiter'[s] = waiter[s]
    BY <1>5 DEF TypeOK, StartResolves, providerVars
  <2> QED BY <1>1, <2>1 DEF Driven, HiddenError
<1>6. ASSUME NEW r \in Runs, RunEnds(r) PROVE HiddenError' /\ Owned' /\ StartsQueued'
  <2>1. /\ UNCHANGED <<auto, eventQ, turnOf, lifecycle, published, activeTurn>>
        /\ pc[r] = "streaming" /\ waiter[r] = "settled"
        /\ \A s \in Runs : s # r => pc'[s] = pc[s] /\ waiter'[s] = waiter[s]
    BY <1>6 DEF TypeOK, RunEnds, agentVars, providerVars
  <2> QED BY <1>1, <2>1 DEF Driven, HiddenError
<1>7. ASSUME NEW r \in Runs, StartRejects(r) PROVE HiddenError' /\ Owned' /\ StartsQueued'
  <2>1. /\ UNCHANGED <<auto, eventQ, turnOf, waiter>> /\ lifecycle' = "error" /\ published' = "error"
        /\ pc[r] = "starting" /\ (turnOf[r] = None \/ eventQ = <<>>)
        /\ \A s \in Runs : s # r => pc'[s] = pc[s]
    BY <1>7 DEF TypeOK, StartRejects
  <2>2. StartsQueued'
    <3>1. CASE eventQ = <<>>
      BY <2>1, <3>1 DEF StartsQueued
    <3>2. CASE turnOf[r] = None
      BY <1>0, <2>1, <3>2, StartsFrame DEF Driven
    <3> QED BY <2>1, <3>1, <3>2
  <2> QED BY <2>1, <2>2 DEF HiddenError, Owned
<1>8. ASSUME NEW c \in Cancels, CancelWaitEnds(c) PROVE HiddenError' /\ Owned' /\ StartsQueued'
  <2>1. UNCHANGED <<auto, eventQ, turnOf, pc>>
    BY <1>8 DEF CancelWaitEnds, providerVars
  <2>2. CASE cturn[c] # None /\ activeTurn = cturn[c]
    <3> DEFINE e == Event("canceled", cturn[c])
    <3>1. e \in Events /\ Dispatch(e) /\ Handle(e)
      BY <1>8, <2>2 DEF CancelWaitEnds, ForceCancel, Dispatch, TypeOK, Event, Events,
                        Kinds, TerminalKinds
    <3>2. eventQ = <<>>
      <4>1. activeTurn \in Runs
        BY <2>2 DEF TypeOK, Turns
      <4>2. ~Propagated(c)
        BY <2>2, <4>1 DEF TurnHasListener, Propagated
      <4> QED BY <1>8, <4>2 DEF CancelWaitEnds, PropagationTimeout, Quiescent
    <3>3. HiddenError'
      BY <2>1, <3>1, HandleShows
    <3>4. StartsQueued'
      BY <2>1, <3>2 DEF StartsQueued
    <3>5. e.kind # "started" /\ (EndQueued(1) => EndQueued(1)')
      BY <2>1 DEF Event, EndQueued
    <3> QED BY <2>1, <3>1, <3>3, <3>4, <3>5, DispatchOwned
  <2>3. CASE ~(cturn[c] # None /\ activeTurn = cturn[c])
    <3>1. CancelReturns(c)
      BY <1>8, <2>3 DEF CancelWaitEnds
    <3> QED BY <1>1, <2>1, <3>1 DEF CancelReturns, Driven, HiddenError
  <2> QED BY <2>2, <2>3
<1>9. CASE ProcessEvent
  <2> DEFINE e == Head(eventQ)
  <2>1. /\ eventQ # <<>> /\ eventQ' = Tail(eventQ) /\ Dispatch(e) /\ Handle(e)
        /\ UNCHANGED <<auto, turnOf, pc>>
    BY <1>9 DEF ProcessEvent, Dispatch, providerVars
  <2>2. /\ e \in Events /\ e = eventQ[1] /\ 1 \in 1..Len(eventQ)
        /\ Len(eventQ') = Len(eventQ) - 1
        /\ \A j \in 1..Len(eventQ') : eventQ'[j] = eventQ[j + 1]
    BY <2>1 DEF TypeOK
  <2> HIDE DEF e
  <2>3. HiddenError'
    BY <2>1, <2>2, HandleShows
  <2>4. StartsQueued'
    BY <2>1, DequeueStarts DEF e
  <2>5. ASSUME NEW k \in 2..Len(eventQ), eventQ[k].turn = None, eventQ[k].kind \in TerminalKinds
        PROVE  EndQueued(1)'
    <3>1. k - 1 \in 1..Len(eventQ') /\ eventQ'[k - 1] = eventQ[k]
      BY <2>2, <2>5
    <3> QED BY <2>5, <3>1 DEF EndQueued
  <2>6. EndQueued(1) => EndQueued(1)' \/ (e.turn = None /\ e.kind \in TerminalKinds)
    BY <2>2, <2>5 DEF EndQueued
  <2>7. ASSUME e.kind = "started"
        PROVE  IF e.turn = None THEN auto \/ EndQueued(1)' ELSE e.turn \in Runs /\ Driven(e.turn)
    <3>1. StartQueued(1) /\ e.turn \in Turns
      BY <2>2, <2>7 DEF StartsQueued, Events
    <3>2. EndQueued(1 + 1) => EndQueued(1)'
      BY <2>5 DEF EndQueued
    <3> QED BY <2>2, <3>1, <3>2 DEF StartQueued, Turns
  <2> QED BY <2>1, <2>2, <2>3, <2>4, <2>6, <2>7, DispatchOwned
<1>10. ASSUME NEW r \in Runs, ProviderBegins(r) PROVE HiddenError' /\ Owned' /\ StartsQueued'
  <2>1. /\ UNCHANGED <<pc, waiter, lifecycle, published, activeTurn>>
        /\ pc[r] = "starting" /\ turnOf'[r] = r
        /\ eventQ' = IF auto THEN <<Event("completed", None), Event("started", r)>>
                             ELSE <<Event("started", r)>>
    BY <1>10 DEF TypeOK, ProviderBegins, Emits, ProviderUnchanged, agentVars
  <2>2. Driven(r)' /\ HiddenError'
    BY <2>1 DEF Driven, HiddenError
  <2>3. Owned'
    BY <2>2 DEF Owned, Works
  <2>4. ASSUME NEW i \in 1..Len(eventQ'), eventQ'[i].kind = "started" PROVE StartQueued(i)'
    <3>1. eventQ'[i].turn = r /\ \A j \in 1..(i - 1) : eventQ'[j].turn = None
      BY <2>1, <2>4 DEF Event
    <3> QED BY <1>0, <2>1, <2>2, <3>1 DEF StartQueued
  <2> QED BY <2>2, <2>3, <2>4 DEF StartsQueued
<1>11. ASSUME NEW r \in Runs, ProviderQueues(r) PROVE HiddenError' /\ Owned' /\ StartsQueued'
  <2>1. /\ UNCHANGED <<auto, eventQ, pc, waiter, lifecycle, published, activeTurn>>
        /\ turnOf[r] = None /\ \A s \in Runs : s # r => turnOf'[s] = turnOf[s]
    BY <1>11 DEF TypeOK, ProviderQueues, ProviderUnchanged, agentVars
  <2>2. StartsQueued'
    BY <1>0, <2>1, StartsFrame DEF Driven
  <2> QED BY <2>1, <2>2 DEF HiddenError, Owned, Works, Driven, EndQueued
<1>12. ASSUME NEW kind, \/ kind \in {"data", "requested", "resolved"} /\ ProviderEmits(kind)
                        \/ kind \in TerminalKinds /\ ProviderEnds(kind)
                        \/ kind \in TerminalKinds /\ AutonomousEnds(kind)
                        \/ kind = "started" /\ AutonomousBegins
       PROVE  HiddenError' /\ Owned' /\ StartsQueued'
  <2>1. UNCHANGED <<pc, waiter, turnOf, lifecycle, published, activeTurn>>
    BY <1>12 DEF ProviderEmits, ProviderEnds, AutonomousEnds, AutonomousBegins,
                 ProviderUnchanged, agentVars
  <2>2. HiddenError'
    BY <2>1 DEF HiddenError
  <2>3. kind \in Kinds
    BY <1>12 DEF Kinds
  <2>4. PICK e \in Events : /\ eventQ' = Append(eventQ, e) /\ e.kind = kind
                            /\ kind = "started" => e.turn = None /\ auto'
                            /\ auto => auto' \/ (e.turn = None /\ kind \in TerminalKinds)
    <3>1. CASE \/ kind \in {"data", "requested", "resolved"} /\ ProviderEmits(kind)
               \/ kind \in TerminalKinds /\ ProviderEnds(kind)
      <4>1. Event(kind, session) \in Events /\ Event(kind, session).kind = kind
        BY <2>3 DEF Event, Events, TypeOK
      <4>2. kind # "started" /\ auto' = auto /\ eventQ' = Append(eventQ, Event(kind, session))
        BY <3>1 DEF ProviderEmits, ProviderEnds, Emits, TerminalKinds, TypeOK
      <4> QED BY <4>1, <4>2
    <3>2. CASE \/ kind \in TerminalKinds /\ AutonomousEnds(kind)
               \/ kind = "started" /\ AutonomousBegins
      <4>1. Event(kind, None) \in Events /\ Event(kind, None).kind = kind
            /\ Event(kind, None).turn = None
        BY <2>3 DEF Event, Events, Turns
      <4>2. eventQ' = Append(eventQ, Event(kind, None))
        BY <3>2 DEF AutonomousEnds, AutonomousBegins, Emits, TypeOK
      <4>3. (kind = "started" /\ auto') \/ kind \in TerminalKinds
        BY <3>2 DEF AutonomousEnds, AutonomousBegins
      <4>4. kind = "started" => auto'
        BY <4>3 DEF TerminalKinds
      <4> QED BY <4>1, <4>2, <4>3, <4>4
    <3> QED BY <1>12, <3>1, <3>2
  <2> QED BY <2>1, <2>2, <2>4, AppendKeeps
<1>13. CASE \/ \E r \in Runs : WatchdogFires(r)
            \/ \E u \in Users : UserCancel(u)
            \/ \E c \in Cancels : InterruptReturns(c) \/ ForcedWaitEnds(c)
            \/ CloseCall \/ CloseReturns \/ UNCHANGED vars
  <2>1. UNCHANGED <<auto, eventQ, pc, waiter, turnOf, lifecycle>>
    BY <1>13 DEF WatchdogFires, UserCancel, InterruptReturns, ForcedWaitEnds, CancelReturns,
                 CloseCall, CloseReturns, vars, agentVars, runVars, providerVars
  <2>2. UNCHANGED activeTurn /\ published' \in {published, lifecycle'}
    BY <1>13 DEF WatchdogFires, UserCancel, InterruptReturns, ForcedWaitEnds, CancelReturns,
                 CloseCall, CloseReturns, vars, agentVars
  <2> QED BY <1>1, <2>1, <2>2 DEF Driven, HiddenError
<1> QED BY <1>2, <1>3, <1>4, <1>5, <1>6, <1>7, <1>8, <1>9, <1>10, <1>11, <1>12, <1>13
        DEF Next, ManagerNext, ProviderNext

(* "running" is always somebody's, and what clients were last told is the  *)
(* lifecycle the agent has, but for the end of a background error.         *)
THEOREM LifecycleIsTrue == Spec => []LifecycleTrue
<1>1. Init => SlotInv /\ LifeInv
  BY RunAssumption DEF Init, SlotInv, SlotExclusive, TurnHasListener, LifeInv, HiddenError,
                       Owned, StartsQueued
<1> QED BY <1>1, SlotStep, LifeStep, LifeInvImplies, ReplacementsHold, TypeCorrect, PTL DEF Spec
-----------------------------------------------------------------------------
(* A provider that gives every prompt a turn of its own never brings back  *)
(* a turn that was finalized or canceled.                                  *)

Begun == {r \in Runs : pc[r] \in {"streaming", "done"}}

TurnInv ==
  /\ \A r \in Runs : turnOf[r] \in {r, None}
  /\ activeTurn \in Begun \cup {None}
  /\ Range(finalized) \subseteq Begun
  /\ NoTurnRevived
  /\ \A c \in Cancels : cturn[c] \in Begun \cup {None}
  /\ \A c \in Cancels : cpc[c] \in {"forced", "done"} /\ cturn[c] # None
                         => activeTurn # cturn[c]

(* What the invariant is for.                                              *)
LEMMA TurnInvImplies == TurnInv => NoTurnRevived /\ CancelClearsTurn
BY DEF TurnInv, CancelClearsTurn

(* rememberFinalizedTurn adds the turn and may forget the oldest.          *)
LEMMA RememberRange ==
  ASSUME TypeOK, NEW t \in Runs
  PROVE  Range(Remember(t)) \subseteq Range(finalized) \cup {t}
<1> DEFINE longer == IF t \in Range(finalized) THEN finalized ELSE Append(finalized, t)
<1>1. longer \in Seq(Runs) /\ Range(longer) \subseteq Range(finalized) \cup {t}
  <2>1. Append(finalized, t) \in Seq(Runs)
        /\ Range(Append(finalized, t)) \subseteq Range(finalized) \cup {t}
    BY DEF TypeOK, Range
  <2> QED BY <2>1 DEF TypeOK
<1> HIDE DEF longer
<1>2. ASSUME longer # <<>> PROVE Range(Tail(longer)) \subseteq Range(longer)
  BY <1>1, <1>2 DEF Range
<1>3. ~(Len(longer) <= FinalizedCap) => longer # <<>>
  BY <1>1, RunAssumption
<1>4. Remember(t) = IF Len(longer) <= FinalizedCap THEN longer ELSE Tail(longer)
  BY DEF Remember, longer
<1> QED BY <1>1, <1>2, <1>3, <1>4

(* Handling an event clears the active turn or leaves it, and remembers    *)
(* only the turn it clears.                                                *)
LEMMA HandleTurns ==
  ASSUME TypeOK, NEW e \in Events, Handle(e)
  PROVE  \/ UNCHANGED <<activeTurn, finalized>>
         \/ /\ activeTurn # None /\ activeTurn' = None
            /\ Range(finalized') \subseteq Range(finalized) \cup {activeTurn}
<1>1. CASE Dropped(e) \/ ~Ends(e)
  BY <1>1 DEF Handle, agentVars
<1>2. CASE ~Dropped(e) /\ Ends(e)
  <2>1. activeTurn' = None /\ finalized' = Remember(e.turn)
    BY <1>2 DEF Handle
  <2>2. e.turn = activeTurn /\ activeTurn # None /\ activeTurn \in Runs
    BY <1>2 DEF Ends, Foreground, TypeOK, Turns
  <2> QED BY <2>1, <2>2, RememberRange
<1> QED BY <1>1, <1>2
(* What is left to check of a step that begins no turn and no cancel.      *)
LEMMA TurnFrame ==
  ASSUME TypeOK, TurnInv, Begun \subseteq Begun', UNCHANGED <<turnOf, cturn>>,
         \A c \in Cancels : cpc'[c] \in {"forced", "done"} =>
           cpc[c] \in {"forced", "done"} \/ cturn[c] = None \/ activeTurn' # cturn[c],
         \/ UNCHANGED <<activeTurn, finalized>>
         \/ activeTurn' = None /\ UNCHANGED finalized
         \/ /\ activeTurn # None /\ activeTurn' = None
            /\ Range(finalized') \subseteq Range(finalized) \cup {activeTurn}
  PROVE  TurnInv'
<1>1. None \notin Begun'
  BY RunAssumption DEF Begun
<1>2. Range(finalized') \subseteq Begun'
  BY DEF TurnInv
<1>3. activeTurn' \in Begun' \cup {None} /\ NoTurnRevived'
  BY <1>1, <1>2 DEF TurnInv, NoTurnRevived
<1>4. \A c \in Cancels : cpc'[c] \in {"forced", "done"} /\ cturn[c] # None
                         => activeTurn' # cturn[c]
  BY DEF TurnInv
<1> QED BY <1>2, <1>3, <1>4 DEF TurnInv

(* A cancel remembers the active turn, and only returns at once if none.   *)
LEMMA CancelFrame ==
  ASSUME TypeOK, TurnInv, NEW c \in Cancels, NEW status, CancelBegins(c, status),
         Begun \subseteq Begun', UNCHANGED <<turnOf, activeTurn, finalized>>
  PROVE  TurnInv'
<1>1. /\ cturn' = [cturn EXCEPT ![c] = activeTurn]
      /\ \A d \in Cancels \ {c} : cpc'[d] = cpc[d]
      /\ cpc'[c] \in {"forced", "done"} => activeTurn = None
  BY DEF CancelBegins, TypeOK, Busy
<1>2. \A d \in Cancels : cturn'[d] \in Begun' \cup {None}
  BY <1>1 DEF TurnInv, TypeOK
<1>3. \A d \in Cancels : cpc'[d] \in {"forced", "done"} /\ cturn'[d] # None
                         => activeTurn' # cturn'[d]
  BY <1>1 DEF TurnInv, TypeOK
<1> QED BY <1>2, <1>3 DEF TurnInv, NoTurnRevived

(* With a turn per prompt every step keeps ended turns ended.              *)
LEMMA TurnStep == ReusesActiveTurn = FALSE /\ TypeOK /\ TurnInv /\ [Next]_vars => TurnInv'
<1> SUFFICES ASSUME ReusesActiveTurn = FALSE, TypeOK, TurnInv, [Next]_vars PROVE TurnInv'
  OBVIOUS
<1>1. ASSUME UNCHANGED <<turnOf, cturn, cpc, finalized>>, Begun \subseteq Begun',
             activeTurn' \in {activeTurn, None}
      PROVE  TurnInv'
  BY <1>1, TurnFrame
<1>2. ASSUME NEW r \in Runs, StreamCall(r) \/ ReplaceProceeds(r) PROVE TurnInv'
  <2>1. UNCHANGED <<turnOf, cturn, cpc, finalized, activeTurn>>
    BY <1>2 DEF StreamCall, ReplaceProceeds, ReplacementFails, agentVars, cancelVars
  <2>2. Begun \subseteq Begun'
    BY <1>2 DEF TypeOK, Begun, StreamCall, ReplaceProceeds, ReplacementFails, Admitted
  <2> QED BY <1>1, <2>1, <2>2
<1>3. ASSUME NEW r \in Runs, ReplaceCall(r) PROVE TurnInv'
  <2>1. Begun \subseteq Begun' /\ <<r, "replace">> \in Cancels
    BY <1>3 DEF TypeOK, Begun, ReplaceCall, Cancels
  <2> QED BY <1>3, <2>1, CancelFrame DEF ReplaceCall
<1>4. ASSUME NEW r \in Runs, StartResolves(r) PROVE TurnInv'
  <2>1. /\ turnOf[r] = r /\ activeTurn' = r /\ r \notin Begun /\ r \in Begun'
        /\ Begun \subseteq Begun' /\ UNCHANGED <<turnOf, finalized, cturn, cpc>>
    BY <1>4 DEF TypeOK, TurnInv, StartResolves, Begun, cancelVars
  <2>2. NoTurnRevived' /\ \A c \in Cancels : cturn[c] # activeTurn'
    BY <2>1, RunAssumption DEF TurnInv, NoTurnRevived
  <2> QED BY <2>1, <2>2 DEF TurnInv
<1>5. ASSUME NEW r \in Runs, RunEnds(r) \/ StartRejects(r) PROVE TurnInv'
  <2>1. UNCHANGED <<turnOf, cturn, cpc, finalized>> /\ activeTurn' \in {activeTurn, None}
    BY <1>5 DEF RunEnds, StartRejects, agentVars, cancelVars
  <2>2. Begun \subseteq Begun'
    BY <1>5 DEF TypeOK, Begun, RunEnds, StartRejects
  <2> QED BY <1>1, <2>1, <2>2
<1>6. ASSUME NEW r \in Runs, WatchdogFires(r) PROVE TurnInv'
  <2>1. Begun \subseteq Begun' /\ UNCHANGED turnOf
    BY <1>6 DEF Begun, WatchdogFires
  <2>2. CASE phase = "live"
    <3>1. <<r, "watchdog">> \in Cancels
      BY DEF Cancels
    <3> QED BY <1>6, <2>1, <2>2, <3>1, CancelFrame DEF WatchdogFires, agentVars
  <2>3. CASE phase = "closing"
    <3>1. Event("failed", turnOf[r]) \in Events
      BY DEF TypeOK, Event, Events, Kinds, TerminalKinds
    <3>2. Handle(Event("failed", turnOf[r])) /\ UNCHANGED <<cturn, cpc>>
      BY <1>6, <2>3 DEF WatchdogFires, cancelVars
    <3> QED BY <2>1, <3>1, <3>2, HandleTurns, TurnFrame
  <2>4. CASE phase = "closed"
    BY <1>1, <1>6, <2>1, <2>4 DEF WatchdogFires, agentVars, cancelVars
  <2> QED BY <2>2, <2>3, <2>4 DEF TypeOK
<1>7. ASSUME NEW u \in Users, UserCancel(u) PROVE TurnInv'
  <2>1. <<u, "user">> \in Cancels
    BY DEF Cancels
  <2> QED BY <1>7, <2>1, CancelFrame DEF UserCancel, agentVars, runVars, Begun
<1>8. ASSUME NEW c \in Cancels, InterruptReturns(c) PROVE TurnInv'
  <2>1. \A d \in Cancels : cpc'[d] \in {"forced", "done"} => cpc[d] \in {"forced", "done"}
    BY <1>8 DEF TypeOK, InterruptReturns
  <2> QED BY <1>8, <2>1, TurnFrame DEF InterruptReturns, agentVars, runVars, Begun
<1>9. ASSUME NEW c \in Cancels, CancelWaitEnds(c) PROVE TurnInv'
  <2>1. Begun \subseteq Begun' /\ UNCHANGED <<turnOf, cturn>>
    BY <1>9 DEF CancelWaitEnds, Begun
  <2>2. \A d \in Cancels : cpc'[d] \in {"forced", "done"} => d = c \/ cpc[d] \in {"forced", "done"}
    BY <1>9 DEF TypeOK, CancelWaitEnds, ForceCancel, CancelReturns
  <2>3. CASE cturn[c] # None /\ activeTurn = cturn[c]
    <3> DEFINE e == Event("canceled", cturn[c])
    <3>1. e \in Events /\ Handle(e)
      BY <1>9, <2>3 DEF CancelWaitEnds, ForceCancel, Dispatch, TypeOK, Event, Events,
                        Kinds, TerminalKinds
    <3>2. ~Dropped(e) /\ Ends(e)
      BY <2>3 DEF TurnInv, NoTurnRevived, Dropped, Ends, Foreground, Event, TerminalKinds
    <3>3. activeTurn' = None
      BY <3>1, <3>2 DEF Handle
    <3> QED BY <2>1, <2>2, <2>3, <3>1, <3>3, HandleTurns, TurnFrame
  <2>4. CASE ~(cturn[c] # None /\ activeTurn = cturn[c])
    <3>1. UNCHANGED <<activeTurn, finalized>>
      BY <1>9, <2>4 DEF CancelWaitEnds, CancelReturns
    <3> QED BY <2>1, <2>2, <2>4, <3>1, TurnFrame
  <2> QED BY <2>3, <2>4
<1>10. ASSUME NEW c \in Cancels, ForcedWaitEnds(c) PROVE TurnInv'
  <2>1. \A d \in Cancels : cpc'[d] \in {"forced", "done"} => cpc[d] \in {"forced", "done"}
    BY <1>10 DEF TypeOK, ForcedWaitEnds, CancelReturns
  <2> QED BY <1>10, <2>1, TurnFrame DEF ForcedWaitEnds, CancelReturns, Begun
<1>11. CASE CloseCall \/ CloseReturns
  BY <1>1, <1>11 DEF CloseCall, CloseReturns, Begun, agentVars, runVars, cancelVars
<1>12. CASE ProcessEvent
  <2>1. UNCHANGED <<turnOf, cturn, cpc, pc>>
    BY <1>12 DEF ProcessEvent, cancelVars
  <2>2. CASE phase = "live"
    <3>1. Head(eventQ) \in Events /\ Handle(Head(eventQ))
      BY <1>12, <2>2 DEF TypeOK, ProcessEvent, Dispatch
    <3> QED BY <2>1, <3>1, HandleTurns, TurnFrame DEF Begun
  <2>3. CASE phase # "live"
    BY <1>1, <1>12, <2>1, <2>3 DEF ProcessEvent, agentVars, Begun
  <2> QED BY <2>2, <2>3
<1>13. ASSUME NEW r \in Runs, ProviderBegins(r) \/ ProviderQueues(r) PROVE TurnInv'
  BY <1>13 DEF TypeOK, TurnInv, NoTurnRevived, Begun, ProviderBegins, ProviderQueues,
               ProviderUnchanged, agentVars, cancelVars
<1>14. ASSUME NEW kind, \/ ProviderEmits(kind) \/ ProviderEnds(kind)
                        \/ AutonomousEnds(kind) \/ AutonomousBegins
       PROVE  TurnInv'
  BY <1>1, <1>14 DEF ProviderEmits, ProviderEnds, AutonomousEnds, AutonomousBegins,
                     ProviderUnchanged, agentVars, cancelVars, Begun
<1>15. CASE UNCHANGED vars
  BY <1>1, <1>15 DEF vars, agentVars, runVars, cancelVars, Begun
<1> QED BY <1>2, <1>3, <1>4, <1>5, <1>6, <1>7, <1>8, <1>9, <1>10, <1>11, <1>12, <1>13,
           <1>14, <1>15 DEF Next, ManagerNext, ProviderNext

(* All that the two theorems on turns rest on.                             *)
LEMMA TurnInvHolds == ASSUME ReusesActiveTurn = FALSE PROVE Spec => []TurnInv
<1>1. Init => TurnInv
  BY DEF Init, TurnInv, NoTurnRevived, Range
<1>2. TypeOK /\ TurnInv /\ [Next]_vars => TurnInv'
  BY TurnStep
<1> QED BY <1>1, <1>2, TypeCorrect, PTL DEF Spec

(* A finalized turn is never active again, if no provider reuses turns.    *)
THEOREM TurnsEndOnce == ASSUME ReusesActiveTurn = FALSE PROVE Spec => []NoTurnRevived
BY TurnInvHolds, TurnInvImplies, PTL

(* A cancel that returned has cleared the turn it found.                   *)
THEOREM CancelIsEffective == ASSUME ReusesActiveTurn = FALSE PROVE Spec => []CancelClearsTurn
BY TurnInvHolds, TurnInvImplies, PTL
=============================================================================
