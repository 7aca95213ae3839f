---------------------- MODULE WorkspaceMutationProofs ----------------------
(***************************************************************************)
(* Proofs about WorkspaceMutation, for any number of mutations, writers    *)
(* and directories.                                                        *)
(***************************************************************************)
EXTENDS WorkspaceMutation, Sequences, TLAPS

-----------------------------------------------------------------------------
(* Type correctness.                                                       *)

\* Joining the queue of the root keeps the types.
LEMMA JoinsTyped ==
  ASSUME TypeOK, NEW m \in Mutations, NEW k \in Kinds, Joins(m, k),
         tree' \in {"ready", "setup", "failed", "gone"}, record' \in {"active", "archived"}
  PROVE  TypeOK'
  <1> DEFINE o == IF slot = None THEN m ELSE slot
  <1>1. o \in Mutations /\ obj[o] \in SlotObjects
    BY DEF TypeOK
  <1>2. obj' \in [Mutations -> SlotObjects]
    <2>1. Waiting(obj[o], m) \in SlotObjects
      BY <1>1 DEF SlotObjects, Waiting
    <2>2. obj' = [obj EXCEPT ![o] = Waiting(obj[o], m)]
      BY DEF Joins
    <2> QED  BY <1>1, <2>1, <2>2 DEF TypeOK
  <1>3. after' \in [Mutations -> SUBSET Mutations]
    <2>1. obj[o].chain \in SUBSET Mutations
      BY <1>1 DEF SlotObjects
    <2>2. after' = [after EXCEPT ![m] = obj[o].chain]
      BY DEF Joins
    <2> QED  BY <2>1, <2>2 DEF TypeOK
  <1>4. slot' \in Mutations /\ mine' \in [Mutations -> Mutations \cup {None}]
    <2>1. slot' = o /\ mine' = [mine EXCEPT ![m] = o]
      BY DEF Joins
    <2> QED  BY <1>1, <2>1 DEF TypeOK
  <1>5. /\ pc' \in [Mutations -> Stages]
        /\ kind' \in [Mutations -> Kinds \cup {None}]
    BY DEF Joins, TypeOK, Stages
  <1> QED  BY <1>2, <1>3, <1>4, <1>5 DEF Joins, TypeOK, writerVars

\* Leaving runExclusive keeps the types.
LEMMA ExitsTyped ==
  ASSUME TypeOK, NEW m \in Mutations, NEW s \in States, mine[m] \in Mutations, Exits(m, s),
         tree' \in {"ready", "setup", "failed", "gone"}, record' \in {"active", "archived"}
  PROVE  TypeOK'
  <1>1. obj' \in [Mutations -> SlotObjects]
    <2>1. obj[mine[m]] \in SlotObjects  BY DEF TypeOK
    <2>2. Left(obj[mine[m]], m, s) \in SlotObjects
      BY <2>1 DEF SlotObjects, Left
    <2> QED  BY <2>2 DEF Exits, TypeOK
  <1>2. /\ slot' \in Mutations \cup {None} /\ pc' \in [Mutations -> Stages]
        /\ mine' \in [Mutations -> Mutations \cup {None}]
        /\ after' \in [Mutations -> SUBSET Mutations]
        /\ failed' \in [Mutations -> BOOLEAN]
        /\ listed' \in [Mutations -> SUBSET Writers] /\ asking' \in [Mutations -> SUBSET Paths]
    BY DEF Exits, TypeOK, Stages
  <1> QED  BY <1>1, <1>2 DEF Exits, TypeOK, writerVars

\* The states a mutation leaves its slot in are states.
LEMMA StatesTyped ==
  ASSUME TypeOK, NEW m \in Mutations, mine[m] \in Mutations
  PROVE  /\ obj[mine[m]] \in SlotObjects /\ obj[mine[m]].state \in States
         /\ Entered(m) \in States
         /\ \A s \in States : Caught(s) \in States
  <1>1. obj[mine[m]] \in SlotObjects
    BY DEF TypeOK
  <1>2. obj[mine[m]].state \in States
    BY <1>1 DEF SlotObjects
  <1> QED  BY <1>1, <1>2 DEF Entered, Caught, States

\* Taking a turn, or changing the state of the slot, keeps the slots typed.
LEMMA HoldsTyped ==
  ASSUME TypeOK, NEW m \in Mutations, NEW s \in States, mine[m] \in Mutations,
         Holds(m, s) \/ SetState(m, s)
  PROVE  obj' \in [Mutations -> SlotObjects]
  <1>1. obj[mine[m]] \in SlotObjects
    BY DEF TypeOK
  <1>2. Held(obj[mine[m]], m, s) \in SlotObjects
    BY <1>1 DEF SlotObjects, Held
  <1>3. [obj[mine[m]] EXCEPT !.state = s] \in SlotObjects
    BY <1>1 DEF SlotObjects
  <1>4. CASE Holds(m, s)
    BY <1>2, <1>4 DEF Holds, TypeOK
  <1>5. CASE SetState(m, s)
    BY <1>3, <1>5 DEF SetState, TypeOK
  <1> QED  BY <1>4, <1>5

\* Waiting for the leases keeps the types.
LEMMA AwaitsTyped ==
  ASSUME TypeOK, NEW m \in Mutations, AwaitsDrain(m)
  PROVE  pc' \in [Mutations -> Stages] /\ drains' \subseteq Mutations
  BY DEF AwaitsDrain, TypeOK, Stages

\* A call under way has captured a slot object, the waiters for the leases
\* are the calls that drain, and only a terminal is made late.
CallsTracked ==
  /\ \A m \in Mutations : /\ InFlight(m) => mine[m] \in Mutations
                          /\ m \in drains <=> pc[m] = "draining"
  /\ \A w \in Writers : wpc[w] = "late" => w \in Terminals

\* Every step keeps the variables typed.
LEMMA TypeStep == TypeOK /\ CallsTracked /\ [Next]_vars => TypeOK' /\ CallsTracked'
  <1> SUFFICES ASSUME TypeOK, CallsTracked, [Next]_vars
               PROVE  TypeOK' /\ CallsTracked'
    OBVIOUS
  <1> USE DEF writerVars, diskVars
  <1>1. ASSUME NEW m \in Mutations, Called(m)
        PROVE  TypeOK' /\ CallsTracked'
    <2>1. PICK k \in Kinds : Joins(m, k)
      BY <1>1 DEF Called, Archive, AutoArchive, Cleanup, Kinds
    <2>2. tree' \in {"ready", "setup", "failed", "gone"} /\ record' \in {"active", "archived"}
      BY <1>1 DEF Called, Archive, AutoArchive, Cleanup, TypeOK
    <2>3. TypeOK'
      BY <2>1, <2>2, JoinsTyped
    <2>4. mine'[m] \in Mutations
      <3>1. mine'[m] = IF slot = None THEN m ELSE slot
        BY <2>1 DEF Joins, TypeOK
      <3> QED  BY <3>1 DEF TypeOK
    <2>5. CallsTracked'
      BY <2>1, <2>4 DEF CallsTracked, InFlight, Joins, TypeOK
    <2> QED  BY <2>3, <2>5
  <1>2. ASSUME NEW m \in Mutations, MutationStep(m)
        PROVE  TypeOK' /\ CallsTracked'
    <2>1. InFlight(m) /\ mine[m] \in Mutations
      <3>1. InFlight(m)
        BY <1>2 DEF MutationStep, InFlight, Acquire, Refuse, CheckPasses, CheckFails, Quiesce,
                    ListWorkers, Announced, ListTerminals, StopWorker, TornDown, Removed, ArchiveAborts,
                    Finalized, FinalizeFails, Leaves, CleanupStarts, CleanupRemoves,
                    CleanupPreserves
      <3> QED  BY <3>1 DEF CallsTracked
    <2>2. /\ obj[mine[m]] \in SlotObjects /\ obj[mine[m]].state \in States
          /\ Entered(m) \in States /\ \A s \in States : Caught(s) \in States
      BY <2>1, StatesTyped
    <2>3. ASSUME NEW s \in States, Exits(m, s), pc[m] # "draining",
                 tree' \in {"ready", "setup", "failed", "gone"}, record' \in {"active", "archived"}
          PROVE  TypeOK' /\ CallsTracked'
      <3>1. TypeOK'
        BY <2>1, <2>3, ExitsTyped
      <3>2. CallsTracked'
        BY <2>3 DEF Exits, CallsTracked, InFlight, TypeOK
      <3> QED  BY <3>1, <3>2
    <2>4. CASE Acquire(m)
      <3>1. obj' \in [Mutations -> SlotObjects]
        BY <2>1, <2>2, <2>4, HoldsTyped DEF Acquire, States
      <3>2. pc' \in [Mutations -> Stages] /\ drains' \subseteq Mutations
        BY <2>4, AwaitsTyped DEF Acquire, TypeOK, Stages
      <3>3. CallsTracked'
        BY <2>4, <2>1 DEF Acquire, AwaitsDrain, CallsTracked, InFlight, TypeOK
      <3> QED  BY <2>4, <3>1, <3>2, <3>3 DEF Acquire, TypeOK
    <2>5. CASE Refuse(m)
      BY <2>2, <2>3, <2>5 DEF Refuse, TypeOK
    <2>6. CASE CheckFails(m)
      BY <2>3, <2>6 DEF CheckFails, TypeOK, States
    <2>7. CASE Leaves(m)
      <3>1. PICK s \in States : Exits(m, s)
        BY <2>2, <2>7 DEF Leaves, States
      <3> QED  BY <2>3, <2>7, <3>1 DEF Leaves, TypeOK
    <2>8. CASE CleanupRemoves(m)
      BY <2>3, <2>8 DEF CleanupRemoves, TypeOK, States
    <2>9. CASE CleanupPreserves(m)
      BY <2>3, <2>9 DEF CleanupPreserves, TypeOK, States
    <2>10. CASE Quiesce(m)
      <3>1. obj' \in [Mutations -> SlotObjects]
        BY <2>1, <2>10, HoldsTyped DEF Quiesce, States
      <3>2. pc' \in [Mutations -> Stages] /\ drains' \subseteq Mutations
        BY <2>10, AwaitsTyped DEF Quiesce
      <3>3. CallsTracked'
        BY <2>10, <2>1 DEF Quiesce, AwaitsDrain, CallsTracked, InFlight, TypeOK
      <3> QED  BY <2>10, <3>1, <3>2, <3>3 DEF Quiesce, TypeOK
    <2>11. CASE TornDown(m) \/ ArchiveAborts(m) \/ Finalized(m) \/ FinalizeFails(m)
      <3>1. obj' \in [Mutations -> SlotObjects]
        BY <2>1, <2>11, HoldsTyped DEF TornDown, ArchiveAborts, Finalized, FinalizeFails, States
      <3>2. /\ pc' \in [Mutations -> Stages] /\ failed' \in [Mutations -> BOOLEAN]
            /\ record' \in {"active", "archived"}
        BY <2>11 DEF TornDown, ArchiveAborts, Finalized, FinalizeFails, TypeOK, Stages
      <3>3. CallsTracked'
        BY <2>11, <2>1 DEF TornDown, ArchiveAborts, Finalized, FinalizeFails, CallsTracked,
                           InFlight, TypeOK
      <3> QED  BY <2>11, <3>1, <3>2, <3>3
                  DEF TornDown, ArchiveAborts, Finalized, FinalizeFails, TypeOK
    <2>12. CASE \/ CheckPasses(m) \/ ListWorkers(m) \/ Announced(m) \/ Removed(m)
                \/ CleanupStarts(m) \/ (\E w \in Writers : StopWorker(m, w))
                \/ \E p \in Paths : ListTerminals(m, p)
      <3>0. /\ asking' \in [Mutations -> SUBSET Paths] /\ unseen' \subseteq Terminals
        <4>1. {at[w] : w \in LiveWithin \cap Terminals} \subseteq Inside
          BY DEF LiveWithin
        <4>2. \A p : TerminalsIn(p) \subseteq Terminals
          BY DEF TerminalsIn
        <4> QED  BY <2>12, <4>1, <4>2, PathsAssumption
                    DEF CheckPasses, ListWorkers, Announced, ListTerminals, Removed, CleanupStarts,
                        StopWorker, mutationVars, TypeOK
      <3>1. /\ pc' \in [Mutations -> Stages] /\ listed' \in [Mutations -> SUBSET Writers]
            /\ live' \subseteq Writers /\ tree' \in {"ready", "setup", "failed", "gone"}
        BY <2>12 DEF CheckPasses, ListWorkers, Announced, ListTerminals, TerminalsIn, Removed,
                     CleanupStarts, StopWorker, mutationVars, LiveWithin, TypeOK, Stages
      <3>2. CallsTracked'
        BY <2>12, <2>1 DEF CheckPasses, ListWorkers, Announced, ListTerminals, Removed, CleanupStarts,
                           StopWorker, mutationVars, CallsTracked, InFlight, TypeOK
      <3> QED  BY <2>12, <3>0, <3>1, <3>2 DEF CheckPasses, ListWorkers, Announced, ListTerminals,
                                              Removed, CleanupStarts, StopWorker, mutationVars, TypeOK
    <2> QED  BY <1>2, <2>4, <2>5, <2>6, <2>7, <2>8, <2>9, <2>10, <2>11, <2>12 DEF MutationStep
  <1>3. ASSUME NEW w \in Writers, NEW p \in Paths, Admit(w, p)
        PROVE  TypeOK' /\ CallsTracked'
    BY <1>3 DEF Admit, mutationVars, TypeOK, CallsTracked, InFlight
  <1>4. ASSUME NEW w \in Writers,
               FindsDirectory(w) \/ Register(w) \/ LateTerminal(w) \/ WorkerEnds(w)
        PROVE  TypeOK' /\ CallsTracked'
    BY <1>4 DEF FindsDirectory, Register, LateTerminal, WorkerEnds, mutationVars, TypeOK, CallsTracked, InFlight
  <1>5. ASSUME NEW w \in Writers, Release(w)
        PROVE  TypeOK' /\ CallsTracked'
    <2>1. leases' \in [Paths -> SUBSET Writers]
      BY <1>5 DEF Release, TypeOK
    <2>2. /\ wpc' \in [Writers -> {"idle", "leased", "found", "registered", "late", "done"}]
          /\ drains' \subseteq drains
          /\ \A x \in Writers : wpc'[x] = "late" => wpc[x] = "late" \/ x \in Terminals
      BY <1>5 DEF Release, TypeOK
    <2>3. pc' \in [Mutations -> Stages] /\ \A m \in Mutations : pc'[m] = pc[m] \/ m \in drains
      BY <1>5 DEF Release, TypeOK, Stages
    <2>4. CallsTracked'
      BY <1>5, <2>2 DEF Release, CallsTracked, InFlight, TypeOK
    <2> QED  BY <1>5, <2>1, <2>2, <2>3, <2>4 DEF Release, TypeOK
  <1>6. CASE CreateTree \/ SetupSucceeds \/ Discard
    BY <1>6 DEF CreateTree, SetupSucceeds, Discard, mutationVars, TypeOK, CallsTracked, InFlight
  <1>7. CASE UNCHANGED vars
    BY <1>7 DEF vars, mutationVars, TypeOK, CallsTracked, InFlight
  <1> QED  BY <1>1, <1>2, <1>3, <1>4, <1>5, <1>6, <1>7 DEF Next

\* The variables have their types in every reachable state.
THEOREM TypeCorrect == Spec => []TypeOK
  <1>1. Init => TypeOK /\ CallsTracked
    BY DEF Init, TypeOK, CallsTracked, InFlight, FreshSlot, SlotObjects, States, Stages
  <1>2. QED  BY <1>1, TypeStep, PTL DEF Spec

-----------------------------------------------------------------------------
(* One mutation at a time.                                                 *)

\* Why the calls on a root run one after the other.  All calls under way
\* share the slot in the map, since it is only dropped when none is left;
\* they are all in its chain, so that of two of them one awaits the other;
\* and a call that has its turn awaited nobody who is still under way.
ChainInv ==
  /\ \A m \in Mutations : pc[m] = "idle" => obj[m] = FreshSlot /\ slot # m
  /\ \A m \in Mutations : InFlight(m) =>
       /\ slot \in Mutations /\ mine[m] = slot /\ m \in obj[slot].chain
       /\ m \in obj[slot].waiters \/ m \in obj[slot].holders
  /\ \A m, n \in Mutations : InFlight(m) /\ InFlight(n) /\ m # n =>
       m \in after[n] \/ n \in after[m]
  /\ \A m \in Mutations : Holding(m) => Resolved(m)

\* A call whose turn may come, or has come, has the slot for itself.
LEMMA TurnIsAlone ==
  ASSUME ChainInv, NEW m \in Mutations, InFlight(m), Resolved(m), NEW n \in Mutations, Holding(n)
  PROVE  n = m
  BY DEF ChainInv, Resolved, Holding, InFlight

\* What a step that begins no call, and ends none, does to the chain.
LEMMA ChainFrame ==
  ASSUME TypeOK, CallsTracked, ChainInv,
         slot' = slot, mine' = mine, after' = after,
         \A m \in Mutations :
           /\ pc'[m] = "idle" <=> pc[m] = "idle"
           /\ pc'[m] = "done" <=> pc[m] = "done"
           /\ Holding(m)' => Holding(m) \/ Resolved(m),
         \A m \in Mutations : pc[m] = "idle" => obj'[m] = obj[m],
         \A m \in Mutations : InFlight(m) =>
           /\ m \in obj[slot].chain => m \in obj'[slot].chain
           /\ m \in obj'[slot].waiters \/ m \in obj'[slot].holders
  PROVE  ChainInv'
  <1>1. \A m \in Mutations : InFlight(m)' <=> InFlight(m)
    BY DEF InFlight
  <1>2. \A m \in Mutations : Resolved(m) => Resolved(m)'
    BY DEF Resolved, TypeOK
  <1> QED  BY <1>1, <1>2 DEF ChainInv

\* A new call awaits everybody who is under way.
LEMMA ChainJoins ==
  ASSUME TypeOK, CallsTracked, ChainInv, NEW m \in Mutations, NEW k \in Kinds, Joins(m, k)
  PROVE  ChainInv'
  <1> DEFINE o == IF slot = None THEN m ELSE slot
  <1>1. /\ o \in Mutations /\ slot' = o /\ pc[m] = "idle"
        /\ pc' = [pc EXCEPT ![m] = "queued"] /\ mine' = [mine EXCEPT ![m] = o]
        /\ after' = [after EXCEPT ![m] = obj[o].chain]
        /\ obj' = [obj EXCEPT ![o] = Waiting(obj[o], m)]
        /\ obj[o] \in SlotObjects
    BY DEF Joins, TypeOK
  <1>2. /\ obj'[o].chain = obj[o].chain \cup {m}
        /\ obj'[o].waiters = obj[o].waiters \cup {m} /\ obj'[o].holders = obj[o].holders
    BY <1>1 DEF Waiting, SlotObjects, TypeOK
  <1>3. \A n \in Mutations : InFlight(n) => n # m /\ slot = o /\ n \in obj[o].chain
    BY <1>1, NoneAssumption DEF ChainInv, InFlight
  <1>4. \A n \in Mutations : InFlight(n)' => n = m \/ InFlight(n)
    BY <1>1 DEF InFlight, TypeOK
  <1>5. \A n \in Mutations : pc'[n] = "idle" => obj'[n] = FreshSlot /\ slot' # n
    BY <1>1 DEF ChainInv, TypeOK
  <1>6. \A n \in Mutations : InFlight(n)' =>
          /\ slot' \in Mutations /\ mine'[n] = slot' /\ n \in obj'[slot'].chain
          /\ n \in obj'[slot'].waiters \/ n \in obj'[slot'].holders
    BY <1>1, <1>2, <1>3, <1>4 DEF ChainInv, TypeOK
  <1>7. \A a, b \in Mutations : InFlight(a)' /\ InFlight(b)' /\ a # b =>
          a \in after'[b] \/ b \in after'[a]
    BY <1>1, <1>3, <1>4 DEF ChainInv, TypeOK
  <1>8. \A n \in Mutations : Holding(n)' => Resolved(n)'
    <2> SUFFICES ASSUME NEW n \in Mutations, Holding(n)' PROVE Resolved(n)'
      OBVIOUS
    <2>1. n # m /\ Holding(n)
      BY <1>1 DEF Holding, InFlight, TypeOK
    <2>2. Resolved(n) /\ after'[n] = after[n]
      BY <2>1, <1>1 DEF ChainInv, TypeOK
    <2> QED  BY <2>2, <1>1 DEF Resolved, TypeOK
  <1> QED  BY <1>5, <1>6, <1>7, <1>8 DEF ChainInv

\* A call that ends drops the slot only if nobody else is under way.
LEMMA ChainExits ==
  ASSUME TypeOK, CallsTracked, ChainInv, NEW m \in Mutations, InFlight(m),
         NEW s \in States, Exits(m, s)
  PROVE  ChainInv'
  <1>1. /\ slot \in Mutations /\ mine[m] = slot /\ obj[slot] \in SlotObjects
        /\ pc' = [pc EXCEPT ![m] = "done"] /\ mine' = [mine EXCEPT ![m] = None]
        /\ after' = [after EXCEPT ![m] = {}]
        /\ obj' = [obj EXCEPT ![slot] = Left(obj[slot], m, s)]
    BY DEF Exits, ChainInv, TypeOK
  <1>2. /\ obj'[slot].chain = obj[slot].chain
        /\ obj'[slot].waiters = obj[slot].waiters \ {m}
        /\ obj'[slot].holders = obj[slot].holders \ {m}
    BY <1>1 DEF Left, SlotObjects, TypeOK
  <1>3. \A n \in Mutations : InFlight(n)' => n # m /\ InFlight(n)
    BY <1>1 DEF InFlight, TypeOK
  <1>4. \A n \in Mutations : InFlight(n)' =>
          n \in obj'[slot].waiters \/ n \in obj'[slot].holders
    BY <1>2, <1>3 DEF ChainInv
  <1>5. (\E n \in Mutations : InFlight(n)') => slot' = slot
    <2> SUFFICES ASSUME NEW n \in Mutations, InFlight(n)' PROVE slot' = slot
      OBVIOUS
    <2>1. ~Prunable(obj'[slot])
      BY <1>4 DEF Prunable
    <2> QED  BY <2>1, <1>1 DEF Exits
  <1>6. slot' = slot \/ slot' = None
    BY DEF Exits
  <1>7. \A n \in Mutations : pc'[n] = "idle" => obj'[n] = FreshSlot /\ slot' # n
    <2> SUFFICES ASSUME NEW n \in Mutations, pc'[n] = "idle"
                 PROVE  obj'[n] = FreshSlot /\ slot' # n
      OBVIOUS
    <2>1. pc[n] = "idle"
      BY <1>1 DEF TypeOK
    <2>2. obj[n] = FreshSlot /\ slot # n
      BY <2>1 DEF ChainInv
    <2> QED  BY <2>2, <1>1, <1>6, NoneAssumption DEF TypeOK
  <1>8. \A n \in Mutations : InFlight(n)' =>
          /\ slot' \in Mutations /\ mine'[n] = slot' /\ n \in obj'[slot'].chain
          /\ n \in obj'[slot'].waiters \/ n \in obj'[slot'].holders
    BY <1>1, <1>2, <1>3, <1>4, <1>5 DEF ChainInv, TypeOK
  <1>9. \A a, b \in Mutations : InFlight(a)' /\ InFlight(b)' /\ a # b =>
          a \in after'[b] \/ b \in after'[a]
    BY <1>1, <1>3 DEF ChainInv, TypeOK
  <1>10. \A n \in Mutations : Holding(n)' => Resolved(n)'
    <2> SUFFICES ASSUME NEW n \in Mutations, Holding(n)' PROVE Resolved(n)'
      OBVIOUS
    <2>1. n # m /\ Holding(n)
      BY <1>1 DEF Holding, InFlight, TypeOK
    <2>2. Resolved(n) /\ after'[n] = after[n]
      BY <2>1, <1>1 DEF ChainInv, TypeOK
    <2> QED  BY <2>2, <1>1 DEF Resolved, TypeOK
  <1> QED  BY <1>7, <1>8, <1>9, <1>10 DEF ChainInv

\* A call that takes its turn, or changes the state of its slot, stays
\* counted in it.
LEMMA SlotKeepsCalls ==
  ASSUME TypeOK, CallsTracked, ChainInv, NEW m \in Mutations, InFlight(m),
         NEW s \in States, Holds(m, s) \/ SetState(m, s)
  PROVE  /\ \A n \in Mutations : pc[n] = "idle" => obj'[n] = obj[n]
         /\ \A n \in Mutations : InFlight(n) =>
              /\ n \in obj[slot].chain => n \in obj'[slot].chain
              /\ n \in obj'[slot].waiters \/ n \in obj'[slot].holders
  <1>1. /\ slot \in Mutations /\ mine[m] = slot /\ pc[slot] # "idle"
        /\ obj[slot] \in SlotObjects
    BY DEF ChainInv, TypeOK
  <1>2. \/ obj' = [obj EXCEPT ![slot] = Held(obj[slot], m, s)]
        \/ obj' = [obj EXCEPT ![slot] = [obj[slot] EXCEPT !.state = s]]
    BY <1>1 DEF Holds, SetState
  <1>3. /\ obj'[slot].chain = obj[slot].chain
        /\ \/ /\ obj'[slot].waiters = obj[slot].waiters \ {m}
              /\ obj'[slot].holders = obj[slot].holders \cup {m}
           \/ /\ obj'[slot].waiters = obj[slot].waiters
              /\ obj'[slot].holders = obj[slot].holders
    <2>1. CASE obj' = [obj EXCEPT ![slot] = Held(obj[slot], m, s)]
      <3>1. obj'[slot] = Held(obj[slot], m, s)
        BY <1>1, <2>1 DEF TypeOK
      <3> QED  BY <1>1, <3>1 DEF Held, SlotObjects
    <2>2. CASE obj' = [obj EXCEPT ![slot] = [obj[slot] EXCEPT !.state = s]]
      <3>1. obj'[slot] = [obj[slot] EXCEPT !.state = s]
        BY <1>1, <2>2 DEF TypeOK
      <3> QED  BY <1>1, <3>1 DEF SlotObjects
    <2> QED  BY <1>2, <2>1, <2>2
  <1>4. \A n \in Mutations : pc[n] = "idle" => obj'[n] = obj[n]
    BY <1>1, <1>2 DEF TypeOK
  <1> QED  BY <1>3, <1>4 DEF ChainInv

\* Every step keeps the order of the calls.
LEMMA ChainStep == TypeOK /\ CallsTracked /\ ChainInv /\ [Next]_vars => ChainInv'
  <1> SUFFICES ASSUME TypeOK, CallsTracked, ChainInv, [Next]_vars
               PROVE  ChainInv'
    OBVIOUS
  <1> USE DEF writerVars, diskVars
  <1>1. ASSUME NEW m \in Mutations, Called(m)
        PROVE  ChainInv'
    <2>1. PICK k \in Kinds : Joins(m, k)
      BY <1>1 DEF Called, Archive, AutoArchive, Cleanup, Kinds
    <2> QED  BY <2>1, ChainJoins
  <1>2. ASSUME NEW m \in Mutations, MutationStep(m)
        PROVE  ChainInv'
    <2>1. InFlight(m) /\ mine[m] \in Mutations
      <3>1. InFlight(m)
        BY <1>2 DEF MutationStep, InFlight, Acquire, Refuse, CheckPasses, CheckFails, Quiesce,
                    ListWorkers, Announced, ListTerminals, StopWorker, TornDown, Removed, ArchiveAborts,
                    Finalized, FinalizeFails, Leaves, CleanupStarts, CleanupRemoves,
                    CleanupPreserves
      <3> QED  BY <3>1 DEF CallsTracked
    <2>2. /\ obj[mine[m]].state \in States /\ Entered(m) \in States
          /\ \A s \in States : Caught(s) \in States
      BY <2>1, StatesTyped
    <2>3. CASE Refuse(m) \/ CheckFails(m) \/ Leaves(m) \/ CleanupRemoves(m) \/ CleanupPreserves(m)
      <3>1. PICK s \in States : Exits(m, s)
        BY <2>2, <2>3 DEF Refuse, CheckFails, Leaves, CleanupRemoves, CleanupPreserves, States
      <3> QED  BY <2>1, <3>1, ChainExits
    <2>4. CASE Acquire(m) \/ Quiesce(m) \/ TornDown(m) \/ ArchiveAborts(m) \/ Finalized(m)
                 \/ FinalizeFails(m)
      <3>1. PICK s \in States : Holds(m, s) \/ SetState(m, s)
        BY <2>2, <2>4 DEF Acquire, Quiesce, TornDown, ArchiveAborts, Finalized, FinalizeFails, States
      <3>2. slot' = slot /\ mine' = mine /\ after' = after
        BY <2>4 DEF Acquire, Quiesce, TornDown, ArchiveAborts, Finalized, FinalizeFails
      <3>3. /\ Holding(m) \/ Resolved(m)
            /\ pc'[m] \notin {"idle", "done"}
            /\ \A n \in Mutations : n # m => pc'[n] = pc[n]
        BY <2>4 DEF Acquire, Quiesce, TornDown, ArchiveAborts, Finalized, FinalizeFails,
                    AwaitsDrain, Holding, InFlight, TypeOK
      <3>4. \A n \in Mutations :
              /\ pc'[n] = "idle" <=> pc[n] = "idle"
              /\ pc'[n] = "done" <=> pc[n] = "done"
              /\ Holding(n)' => Holding(n) \/ Resolved(n)
        BY <2>1, <3>3 DEF InFlight, Holding
      <3> QED  BY <2>1, <3>1, <3>2, <3>4, SlotKeepsCalls, ChainFrame
    <2>5. CASE \/ CheckPasses(m) \/ ListWorkers(m) \/ Announced(m) \/ Removed(m)
               \/ CleanupStarts(m) \/ (\E w \in Writers : StopWorker(m, w))
               \/ \E p \in Paths : ListTerminals(m, p)
      <3>1. slot' = slot /\ mine' = mine /\ after' = after /\ obj' = obj
        BY <2>5 DEF CheckPasses, ListWorkers, Announced, ListTerminals, Removed, CleanupStarts, StopWorker,
                    mutationVars
      <3>2. \A n \in Mutations :
              /\ pc'[n] = "idle" <=> pc[n] = "idle"
              /\ pc'[n] = "done" <=> pc[n] = "done"
              /\ Holding(n)' => Holding(n)
        BY <2>5 DEF CheckPasses, ListWorkers, Announced, ListTerminals, Removed, CleanupStarts, StopWorker,
                    mutationVars, Holding, InFlight, TypeOK
      <3> QED  BY <3>1, <3>2, ChainFrame DEF ChainInv
    <2> QED  BY <1>2, <2>3, <2>4, <2>5 DEF MutationStep
  <1>3. ASSUME NEW w \in Writers, Release(w)
        PROVE  ChainInv'
    <2>1. \A n \in Mutations :
            /\ pc'[n] = "idle" <=> pc[n] = "idle"
            /\ pc'[n] = "done" <=> pc[n] = "done"
            /\ Holding(n)' => Holding(n)
      BY <1>3 DEF Release, CallsTracked, Holding, InFlight, TypeOK
    <2> QED  BY <1>3, <2>1, ChainFrame DEF Release, ChainInv
  <1>4. CASE UNCHANGED mutationVars
    BY <1>4 DEF mutationVars, ChainInv, Holding, InFlight, Resolved
  <1>5. ASSUME NEW w \in Writers, NEW p \in Paths, Admit(w, p)
        PROVE  UNCHANGED mutationVars
    BY <1>5 DEF Admit
  <1>6. ASSUME NEW w \in Writers, FindsDirectory(w) \/ Register(w) \/ LateTerminal(w) \/ WorkerEnds(w)
        PROVE  UNCHANGED mutationVars
    BY <1>6 DEF FindsDirectory, Register, LateTerminal, WorkerEnds
  <1>7. ASSUME CreateTree \/ SetupSucceeds \/ Discard \/ UNCHANGED vars
        PROVE  UNCHANGED mutationVars
    BY <1>7 DEF CreateTree, SetupSucceeds, Discard, vars
  <1> QED  BY <1>1, <1>2, <1>3, <1>4, <1>5, <1>6, <1>7 DEF Next

\* At most one mutation is in its critical section, for any number of calls
\* (runExclusive).
THEOREM MutualExclusion == Spec => []OneMutation
  <1>1. Init => TypeOK /\ CallsTracked /\ ChainInv
    BY NoneAssumption DEF Init, TypeOK, CallsTracked, ChainInv, InFlight, Holding, FreshSlot,
                          SlotObjects, States, Stages
  <1>2. ChainInv => OneMutation
    BY TurnIsAlone DEF ChainInv, OneMutation, Holding
  <1> QED  BY <1>1, <1>2, TypeStep, ChainStep, PTL DEF Spec

-----------------------------------------------------------------------------
(* Nothing is registered, and no wake-up is missed, under a removal.       *)

\* No lease is held under the root.
NoLease == \A p \in Inside : leases[p] = {}

\* The stages of a mutation in which its root takes no new work, and those
\* in which the work that was admitted is gone.
Closing == {"draining", "drained", "announcing", "teardown", "removing"}
Cleared == {"drained", "announcing", "teardown", "removing"}

\* Where the agents and terminals under the root are when a mutation has come so
\* far: the agents are listed; then so are the terminals, or their directory is
\* still to be asked for, or they were not seen; then only those are left.
Accounted(m) ==
  /\ pc[m] \in {"announcing", "teardown"} => kind[m] # "cleanup"
  /\ pc[m] = "announcing" => LiveWithin \subseteq listed[m] \cup Terminals
  /\ pc[m] = "teardown" =>
       \A w \in LiveWithin : \/ w \in listed[m] \cup unseen
                             \/ w \in Terminals /\ at[w] \in asking[m]
  /\ pc[m] = "removing" /\ kind[m] # "cleanup" => LiveWithin \subseteq unseen

\* Why nothing is left under a removal.  From the moment a mutation waits for
\* the leases its slot is closed, so that the leases it saw end stay ended;
\* a registration holds its lease until it is over, or is of a terminal that
\* is late, so that what the mutation lists once the leases are gone is all
\* there will be, but for unseen terminals; and it removes the directory when
\* none of what it listed is left.
RemovalInv ==
  /\ \A m \in Mutations :
       /\ pc[m] \in Closing => obj[slot].state \in {"quiescing", "deleting"}
       /\ pc[m] = "draining" => ~NoLease
       /\ pc[m] \in Cleared => NoLease
       /\ Accounted(m)
  /\ \A w \in Writers :
       /\ wpc[w] \in {"leased", "found", "registered"} => at[w] \in Paths /\ w \in leases[at[w]]
       /\ w \in live => wpc[w] # "idle"

\* The leases under the root are those of the paths inside it.
LEMMA LeasesGone == LeasesWithin = {} <=> NoLease
  BY DEF LeasesWithin, NoLease

\* It stays so while all that appears is not seen.
LEMMA AccountedKept ==
  ASSUME NEW m \in Mutations, Accounted(m), pc'[m] = pc[m], kind'[m] = kind[m],
         listed'[m] = listed[m], asking'[m] = asking[m],
         LiveWithin' \subseteq LiveWithin \cup (unseen' \cap Terminals), unseen \subseteq unseen',
         \A w \in LiveWithin : at'[w] = at[w]
  PROVE  Accounted(m)'
  BY DEF Accounted

\* A call that moves has the slot to itself: no other call is closing.
LEMMA MoverIsAlone ==
  ASSUME TypeOK, CallsTracked, ChainInv, NEW m \in Mutations, MutationStep(m)
  PROVE  /\ InFlight(m) /\ slot \in Mutations /\ mine[m] = slot /\ obj[slot] \in SlotObjects
         /\ \A n \in Mutations \ {m} : pc'[n] = pc[n] /\ pc[n] \notin Closing
  <1>1. InFlight(m) /\ Resolved(m)
    BY DEF MutationStep, InFlight, Holding, ChainInv, Acquire, Refuse, CheckPasses, CheckFails,
           Quiesce, ListWorkers, Announced, ListTerminals, StopWorker, TornDown, Removed, ArchiveAborts, Finalized,
           FinalizeFails, Leaves, CleanupStarts, CleanupRemoves, CleanupPreserves
  <1>2. \A n \in Mutations \ {m} : ~Holding(n)
    BY <1>1, TurnIsAlone
  <1>3. \A n \in Mutations \ {m} : pc'[n] = pc[n]
    BY DEF MutationStep, Exits, AwaitsDrain, mutationVars, TypeOK, Acquire, Refuse, CheckPasses,
           CheckFails, Quiesce, ListWorkers, Announced, ListTerminals, StopWorker, TornDown, Removed,
           ArchiveAborts, Finalized, FinalizeFails, Leaves, CleanupStarts, CleanupRemoves,
           CleanupPreserves
  <1> QED  BY <1>1, <1>2, <1>3 DEF ChainInv, Holding, InFlight, Closing, TypeOK

\* Taking the turn, or setting the state, sets the state of the slot in the map.
LEMMA SetsState ==
  ASSUME TypeOK, NEW m \in Mutations, slot \in Mutations, mine[m] = slot,
         obj[slot] \in SlotObjects, slot' = slot, NEW s \in States, Holds(m, s) \/ SetState(m, s)
  PROVE  obj'[slot'].state = s
  <1>1. CASE Holds(m, s)
    <2>1. obj'[slot] = Held(obj[slot], m, s)
      BY <1>1 DEF Holds, TypeOK
    <2> QED  BY <2>1 DEF Held, SlotObjects
  <1>2. CASE SetState(m, s)
    <2>1. obj'[slot] = [obj[slot] EXCEPT !.state = s]
      BY <1>2 DEF SetState, TypeOK
    <2> QED  BY <2>1 DEF SlotObjects
  <1> QED  BY <1>1, <1>2

\* What a mutation does to itself keeps the removal safe.
LEMMA RemovalMove ==
  ASSUME TypeOK, CallsTracked, ChainInv, RemovalInv, NEW m \in Mutations, MutationStep(m)
  PROVE  RemovalInv'
  <1> USE DEF writerVars
  <1>1. /\ InFlight(m) /\ slot \in Mutations /\ mine[m] = slot /\ obj[slot] \in SlotObjects
        /\ \A n \in Mutations \ {m} : pc'[n] = pc[n] /\ pc[n] \notin Closing
    BY MoverIsAlone
  <1>2. /\ leases' = leases /\ wpc' = wpc /\ at' = at /\ live' \subseteq live
    BY DEF MutationStep, Exits, Acquire, Refuse, CheckPasses, CheckFails, Quiesce, ListWorkers,
           Announced, ListTerminals, StopWorker, TornDown, Removed, ArchiveAborts, Finalized, FinalizeFails,
           Leaves, CleanupStarts, CleanupRemoves, CleanupPreserves
  <1>3. \A w \in Writers :
          /\ wpc'[w] \in {"leased", "found", "registered"} => at'[w] \in Paths /\ w \in leases'[at'[w]]
          /\ w \in live' => wpc'[w] # "idle"
    BY <1>2 DEF RemovalInv
  <1>4. NoLease' <=> NoLease
    BY <1>2 DEF NoLease
  <1>5. LiveWithin' \subseteq LiveWithin
    BY <1>2 DEF LiveWithin
  <1> DEFINE Mine ==
        /\ pc'[m] \in Closing => obj'[slot'].state \in {"quiescing", "deleting"}
        /\ pc'[m] = "draining" => ~NoLease'
        /\ pc'[m] \in Cleared => NoLease'
        /\ Accounted(m)'
  <1>6. ASSUME AwaitsDrain(m), slot' = slot,
               Holds(m, "quiescing") \/ SetState(m, "quiescing")
        PROVE  Mine
    <2>1. obj'[slot'].state = "quiescing"
      BY <1>1, <1>6, SetsState DEF States
    <2>2. \/ pc'[m] = "drained" /\ NoLease
          \/ pc'[m] = "draining" /\ ~NoLease
      BY <1>6, LeasesGone DEF AwaitsDrain, TypeOK
    <2> QED  BY <1>4, <2>1, <2>2 DEF Closing, Cleared, Accounted
  <1>7. Mine
    <2>7. CASE pc'[m] \notin Closing
      BY <2>7 DEF Closing, Cleared, Accounted
    <2>8. CASE Acquire(m)
      <3>1. CASE pc'[m] \notin Closing
        BY <3>1, <2>7
      <3>2. CASE kind[m] = "cleanup"
        BY <1>6, <2>8, <3>2 DEF Acquire
      <3> QED  BY <2>8, <3>1, <3>2 DEF Acquire, Closing, TypeOK
    <2>9. CASE Quiesce(m)
      BY <1>6, <2>9 DEF Quiesce
    <2>10. CASE ListWorkers(m)
      <3>1. Accounted(m)'
        BY <2>10, <1>5 DEF ListWorkers, Accounted, TypeOK
      <3> QED  BY <2>10, <3>1, <1>4 DEF ListWorkers, RemovalInv, Closing, Cleared, TypeOK
    <2>11. CASE Announced(m)
      <3>1. Accounted(m)'
        <4>1. /\ pc[m] = "announcing" /\ kind' = kind /\ pc'[m] = "teardown" /\ listed' = listed
              /\ asking'[m] = {at[w] : w \in LiveWithin \cap Terminals} /\ Accounted(m)
          BY <2>11 DEF Announced, RemovalInv, TypeOK
        <4>2. \A w \in LiveWithin : w \in listed[m] \/ (w \in Terminals /\ at[w] \in asking'[m])
          BY <4>1 DEF Accounted
        <4> QED  BY <4>1, <4>2, <1>2, <1>5 DEF Accounted
      <3> QED  BY <2>11, <3>1, <1>4 DEF Announced, RemovalInv, Closing, Cleared, TypeOK
    <2>12. CASE \E w \in Writers : StopWorker(m, w)
      <3>1. /\ UNCHANGED mutationVars /\ unseen' = unseen /\ Accounted(m)
        BY <2>12 DEF StopWorker, RemovalInv
      <3>2. Accounted(m)'
        BY <3>1, <1>2, <1>5, AccountedKept DEF mutationVars
      <3> QED  BY <3>1, <3>2, <1>4 DEF mutationVars, RemovalInv
    <2>13. CASE TornDown(m)
      <3>1. obj'[slot'].state = "deleting"
        BY <1>1, <2>13, SetsState DEF TornDown, States
      <3>2. Accounted(m) /\ pc[m] = "teardown" /\ asking[m] = {} /\ listed[m] \cap live = {}
        BY <2>13 DEF TornDown, RemovalInv
      <3>3. LiveWithin \subseteq unseen
        BY <3>2 DEF Accounted, LiveWithin
      <3>4. Accounted(m)'
        BY <2>13, <1>5, <3>3 DEF TornDown, Accounted, TypeOK
      <3> QED  BY <2>13, <3>1, <3>4, <1>4 DEF TornDown, RemovalInv, Closing, Cleared, TypeOK
    <2>14. CASE CleanupStarts(m)
      <3>1. Accounted(m)'
        BY <2>14 DEF CleanupStarts, Accounted, TypeOK
      <3> QED  BY <2>14, <3>1, <1>4 DEF CleanupStarts, RemovalInv, Closing, Cleared, TypeOK
    <2>16. CASE \E p \in Paths : ListTerminals(m, p)
      <3>1. PICK p \in Paths : ListTerminals(m, p)
        BY <2>16
      <3>2. /\ pc' = pc /\ kind' = kind /\ obj' = obj /\ slot' = slot
            /\ pc[m] = "teardown" /\ Accounted(m) /\ asking'[m] = asking[m] \ {p}
        BY <3>1 DEF ListTerminals, RemovalInv, TypeOK
      <3>3. ASSUME NEW w \in LiveWithin
            PROVE  \/ w \in listed'[m] \cup unseen'
                   \/ w \in Terminals /\ at[w] \in asking'[m]
        <4>1. \/ w \in listed[m] \cup unseen
              \/ w \in Terminals /\ at[w] \in asking[m]
          BY <3>2, <3>3 DEF Accounted
        <4>2. listed[m] \subseteq listed'[m]
          BY <3>1 DEF ListTerminals, TypeOK
        <4>3. TerminalsIn(p) \subseteq listed'[m] \cup unseen'
          BY <3>1 DEF ListTerminals, TypeOK
        <4>4. unseen \subseteq unseen' \cup TerminalsIn(p)
          BY <3>1 DEF ListTerminals
        <4>5. w \in Terminals /\ at[w] = p => w \in TerminalsIn(p)
          BY <3>3 DEF TerminalsIn, LiveWithin
        <4> QED  BY <3>2, <4>1, <4>2, <4>3, <4>4, <4>5
      <3>4. Accounted(m)'
        BY <3>2, <3>3, <1>2, <1>5 DEF Accounted
      <3> QED  BY <3>2, <3>4, <1>4 DEF RemovalInv, Closing, Cleared
    <2>15. CASE \/ Refuse(m) \/ CheckPasses(m) \/ CheckFails(m) \/ Removed(m) \/ ArchiveAborts(m)
                \/ Finalized(m) \/ FinalizeFails(m) \/ Leaves(m) \/ CleanupRemoves(m)
                \/ CleanupPreserves(m)
      <3>1. pc'[m] \in {"done", "resolving", "finalizing", "leaving"}
        BY <2>15 DEF Exits, Refuse, CheckPasses, CheckFails, Removed, ArchiveAborts, Finalized,
                     FinalizeFails, Leaves, CleanupRemoves, CleanupPreserves, TypeOK
      <3> QED  BY <2>7, <3>1 DEF Closing
    <2> QED  BY <2>8, <2>9, <2>10, <2>11, <2>12, <2>13, <2>14, <2>15,
                <2>16 DEF MutationStep
  <1>8. \A n \in Mutations \ {m} : pc'[n] \notin Closing
    BY <1>1
  <1>9. \A n \in Mutations \ {m} : Accounted(n)'
    BY <1>8 DEF Accounted, Closing
  <1> QED  BY <1>3, <1>7, <1>8, <1>9 DEF RemovalInv, Closing, Cleared

\* A new call leaves the state of the slot alone.
LEMMA RemovalJoins ==
  ASSUME TypeOK, CallsTracked, ChainInv, RemovalInv,
         NEW m \in Mutations, NEW k \in Kinds, Joins(m, k)
  PROVE  RemovalInv'
  <1> USE DEF writerVars
  <1>1. /\ pc[m] = "idle" /\ pc' = [pc EXCEPT ![m] = "queued"]
        /\ leases' = leases /\ wpc' = wpc /\ at' = at /\ live' = live
        /\ listed' = listed /\ asking' = asking /\ unseen' = unseen
        /\ kind' = [kind EXCEPT ![m] = k]
    BY DEF Joins
  <1>2. (NoLease' <=> NoLease) /\ LiveWithin' = LiveWithin
    BY <1>1 DEF NoLease, LiveWithin
  <1>3. ASSUME NEW n \in Mutations, pc'[n] \in Closing
        PROVE  pc'[n] = pc[n] /\ n # m /\ obj'[slot'].state = obj[slot].state
    <2>1. n # m /\ pc'[n] = pc[n] /\ InFlight(n)
      BY <1>1, <1>3 DEF Closing, InFlight, TypeOK
    <2>2. slot \in Mutations /\ obj[slot] \in SlotObjects
      BY <2>1 DEF ChainInv, TypeOK
    <2>3. slot' = slot /\ obj' = [obj EXCEPT ![slot] = Waiting(obj[slot], m)]
      BY <2>2, NoneAssumption DEF Joins
    <2>4. obj'[slot] = Waiting(obj[slot], m)
      BY <2>2, <2>3 DEF TypeOK
    <2>5. Waiting(obj[slot], m).state = obj[slot].state
      BY <2>2 DEF Waiting, SlotObjects
    <2> QED  BY <2>1, <2>3, <2>4, <2>5
  <1>4. \A n \in Mutations : n # m => pc'[n] = pc[n] /\ kind'[n] = kind[n]
    BY <1>1 DEF TypeOK
  <1>5. pc'[m] = "queued"
    BY <1>1 DEF TypeOK
  <1>6. \A n \in Mutations :
          /\ pc'[n] \in Closing => obj'[slot'].state \in {"quiescing", "deleting"}
          /\ pc'[n] = "draining" => ~NoLease'
          /\ pc'[n] \in Cleared => NoLease'
    BY <1>1, <1>2, <1>3, <1>4, <1>5 DEF RemovalInv, Closing, Cleared
  <1>7. \A n \in Mutations \ {m} : Accounted(n)'
    BY <1>1, <1>2, <1>4, AccountedKept DEF RemovalInv
  <1>8. Accounted(m)'
    BY <1>5 DEF Accounted
  <1> QED  BY <1>1, <1>6, <1>7, <1>8 DEF RemovalInv

\* What a registration does leaves every closing mutation where it is.
LEMMA RemovalWriters ==
  ASSUME TypeOK, CallsTracked, ChainInv, RemovalInv, NEW w \in Writers,
         \/ \E p \in Paths : Admit(w, p)
         \/ FindsDirectory(w) \/ Register(w) \/ Release(w) \/ LateTerminal(w) \/ WorkerEnds(w)
  PROVE  RemovalInv'
  <1> USE DEF mutationVars
  <1>1. CASE \E p \in Paths : Admit(w, p)
    <2>1. PICK p \in Paths : Admit(w, p)
      BY <1>1
    <2>2. /\ wpc[w] = "idle" /\ ~Blocked(p) /\ w \notin live
          /\ leases' = [leases EXCEPT ![p] = @ \cup {w}]
          /\ wpc' = [wpc EXCEPT ![w] = "leased"] /\ at' = [at EXCEPT ![w] = p]
          /\ live' = live /\ unseen' = unseen /\ UNCHANGED mutationVars
      BY <2>1 DEF Admit, RemovalInv
    <2>3. LiveWithin' = LiveWithin /\ \A x \in LiveWithin : at'[x] = at[x]
      BY <2>2 DEF LiveWithin, TypeOK
    <2>4. ASSUME NEW m \in Mutations, pc[m] \in Closing PROVE NoLease' <=> NoLease
      <3>1. obj[slot].state # "active" /\ slot # None
        BY <2>4, NoneAssumption DEF RemovalInv, ChainInv, InFlight, Closing
      <3>2. p \notin Inside
        BY <2>2, <3>1 DEF Blocked
      <3> QED  BY <2>2, <3>2, PathsAssumption DEF NoLease, TypeOK
    <2>5. \A x \in Writers :
            /\ wpc'[x] \in {"leased", "found", "registered"} => at'[x] \in Paths /\ x \in leases'[at'[x]]
            /\ x \in live' => wpc'[x] # "idle"
      <3> SUFFICES ASSUME NEW x \in Writers
                   PROVE  /\ wpc'[x] \in {"leased", "found", "registered"} =>
                               at'[x] \in Paths /\ x \in leases'[at'[x]]
                          /\ x \in live' => wpc'[x] # "idle"
        OBVIOUS
      <3>1. CASE x = w
        BY <2>2, <3>1 DEF TypeOK
      <3>2. CASE x # w
        <4>1. wpc'[x] = wpc[x] /\ at'[x] = at[x] /\ \A q \in Paths : leases[q] \subseteq leases'[q]
          BY <2>2, <3>2 DEF TypeOK
        <4> QED  BY <2>2, <4>1 DEF RemovalInv
      <3> QED  BY <3>1, <3>2
    <2>6. pc' = pc /\ obj' = obj /\ slot' = slot /\ kind' = kind /\ listed' = listed
      BY <2>2
    <2>7. \A m \in Mutations : pc[m] \in Closing => (NoLease' <=> NoLease)
      BY <2>4
    <2>8. \A m \in Mutations : Accounted(m)'
      BY <2>2, <2>3, <2>6, AccountedKept DEF RemovalInv
    <2> QED  BY <2>5, <2>6, <2>7, <2>8 DEF RemovalInv, Closing, Cleared
  <1>2. CASE FindsDirectory(w) \/ WorkerEnds(w)
    <2>1. /\ UNCHANGED <<mutationVars, leases, at, unseen>> /\ live' \subseteq live
          /\ wpc' = wpc \/ (wpc[w] = "leased" /\ wpc' = [wpc EXCEPT ![w] = "found"])
      BY <1>2 DEF FindsDirectory, WorkerEnds
    <2>2. (NoLease' <=> NoLease) /\ LiveWithin' \subseteq LiveWithin
      BY <2>1 DEF NoLease, LiveWithin
    <2>3. \A m \in Mutations : Accounted(m)'
      BY <2>1, <2>2, AccountedKept DEF RemovalInv
    <2> QED  BY <2>1, <2>2, <2>3 DEF RemovalInv, TypeOK
  <1>3. CASE Register(w)
    <2>1. /\ UNCHANGED <<mutationVars, leases, at, unseen>> /\ live' = live \cup {w}
          /\ wpc[w] = "found" /\ wpc' = [wpc EXCEPT ![w] = "registered"]
      BY <1>3 DEF Register
    <2>2. NoLease' <=> NoLease
      BY <2>1 DEF NoLease
    <2>3. NoLease => LiveWithin' = LiveWithin
      <3> SUFFICES ASSUME NoLease PROVE at[w] \notin Inside
        BY <2>1 DEF LiveWithin
      <3>1. w \in leases[at[w]]
        BY <2>1 DEF RemovalInv
      <3> QED  BY <3>1 DEF NoLease
    <2>4. \A m \in Mutations : Accounted(m)'
      <3> SUFFICES ASSUME NEW m \in Mutations PROVE Accounted(m)'
        OBVIOUS
      <3>1. CASE pc[m] \in Cleared
        BY <2>1, <2>3, <3>1, AccountedKept DEF RemovalInv
      <3>2. CASE pc[m] \notin Cleared
        BY <2>1, <3>2 DEF Accounted, Cleared
      <3> QED  BY <3>1, <3>2
    <2> QED  BY <2>1, <2>2, <2>4 DEF RemovalInv, TypeOK
  <1>4. CASE Release(w)
    <2>1. /\ at[w] \in Paths /\ leases' = [leases EXCEPT ![at[w]] = @ \ {w}]
          /\ wpc' = [wpc EXCEPT ![w] = "done"] \/ wpc' = [wpc EXCEPT ![w] = "late"]
          /\ slot' = slot /\ obj' = obj /\ UNCHANGED <<kind, listed, asking, at, live, unseen>>
      BY <1>4 DEF Release, RemovalInv
    <2>2. LiveWithin' = LiveWithin /\ (NoLease => NoLease')
      BY <2>1 DEF LiveWithin, NoLease, TypeOK
    <2>3. LeasesWithin' = {} <=> NoLease'
      BY DEF LeasesWithin, NoLease
    <2>4. ~NoLease /\ NoLease' => leases'[at[w]] = {}
      BY <2>1 DEF NoLease, TypeOK
    <2>5. \A m \in Mutations :
            \/ m \in drains /\ pc'[m] = "drained" /\ NoLease'
            \/ pc'[m] = pc[m] /\ (m \in drains => leases'[at[w]] # {} \/ ~NoLease')
      BY <1>4, <2>3 DEF Release
    <2>6. \A m \in Mutations :
            \/ pc[m] = "draining" /\ pc'[m] = "drained" /\ NoLease'
            \/ pc'[m] = pc[m] /\ (pc[m] = "draining" => ~NoLease')
      BY <2>4, <2>5 DEF CallsTracked, RemovalInv
    <2>7. \A x \in Writers :
            /\ wpc'[x] \in {"leased", "found", "registered"} => at'[x] \in Paths /\ x \in leases'[at'[x]]
            /\ x \in live' => wpc'[x] # "idle"
      BY <2>1 DEF RemovalInv, TypeOK
    <2>8. \A m \in Mutations :
            /\ pc'[m] \in Closing => obj'[slot'].state \in {"quiescing", "deleting"}
            /\ pc'[m] = "draining" => ~NoLease'
            /\ pc'[m] \in Cleared => NoLease'
      BY <2>1, <2>2, <2>6 DEF RemovalInv, Closing, Cleared
    <2>9. \A m \in Mutations : Accounted(m)'
      <3> SUFFICES ASSUME NEW m \in Mutations PROVE Accounted(m)'
        OBVIOUS
      <3>1. CASE pc'[m] = "drained"
        BY <3>1 DEF Accounted
      <3>2. CASE pc'[m] = pc[m]
        BY <2>1, <2>2, <3>2, AccountedKept DEF RemovalInv
      <3> QED  BY <2>6, <3>1, <3>2
    <2> QED  BY <2>7, <2>8, <2>9 DEF RemovalInv
  <1>5. CASE LateTerminal(w)
    <2>1. /\ UNCHANGED <<mutationVars, leases, at>> /\ live' = live \cup {w}
          /\ unseen' = unseen \cup {w} /\ wpc[w] = "late" /\ w \in Terminals
          /\ wpc' = [wpc EXCEPT ![w] = "done"]
      BY <1>5 DEF LateTerminal, CallsTracked
    <2>2. (NoLease' <=> NoLease) /\ LiveWithin' \subseteq LiveWithin \cup (unseen' \cap Terminals)
      BY <2>1 DEF NoLease, LiveWithin
    <2>3. \A m \in Mutations : Accounted(m)'
      BY <2>1, <2>2, AccountedKept DEF RemovalInv
    <2> QED  BY <2>1, <2>2, <2>3 DEF RemovalInv, TypeOK
  <1> QED  BY <1>1, <1>2, <1>3, <1>4, <1>5

\* Every step keeps the removal safe.
LEMMA RemovalStep == TypeOK /\ CallsTracked /\ ChainInv /\ RemovalInv /\ [Next]_vars => RemovalInv'
  <1> SUFFICES ASSUME TypeOK, CallsTracked, ChainInv, RemovalInv, [Next]_vars
               PROVE  RemovalInv'
    OBVIOUS
  <1>1. ASSUME NEW m \in Mutations, Called(m)
        PROVE  RemovalInv'
    <2>1. PICK k \in Kinds : Joins(m, k)
      BY <1>1 DEF Called, Archive, AutoArchive, Cleanup, Kinds
    <2> QED  BY <2>1, RemovalJoins
  <1>2. ASSUME NEW m \in Mutations, MutationStep(m)
        PROVE  RemovalInv'
    BY <1>2, RemovalMove
  <1>3. ASSUME NEW w \in Writers,
               \/ \E p \in Paths : Admit(w, p)
               \/ FindsDirectory(w) \/ Register(w) \/ Release(w) \/ LateTerminal(w)
               \/ WorkerEnds(w)
        PROVE  RemovalInv'
    BY <1>3, RemovalWriters
  <1>4. CASE CreateTree \/ SetupSucceeds \/ Discard \/ UNCHANGED vars
    <2>1. UNCHANGED <<mutationVars, writerVars>>
      BY <1>4 DEF CreateTree, SetupSucceeds, Discard, vars
    <2> QED  BY <2>1 DEF mutationVars, writerVars, RemovalInv, NoLease, LiveWithin, Accounted
  <1> QED  BY <1>1, <1>2, <1>3, <1>4 DEF Next

\* All that the theorems below rest on.
LEMMA RemovalHolds == Spec => [](TypeOK /\ CallsTracked /\ ChainInv /\ RemovalInv)
  <1>1. Init => TypeOK /\ CallsTracked /\ ChainInv /\ RemovalInv
    BY NoneAssumption DEF Init, TypeOK, CallsTracked, ChainInv, InFlight, Holding, FreshSlot,
                          SlotObjects, States, Stages, RemovalInv, Closing, Cleared,
                          Accounted
  <1> QED  BY <1>1, TypeStep, ChainStep, RemovalStep, PTL DEF Spec

\* Whatever number of mutations and registrations interleave, a directory is
\* removed only when no registration is under way in it and, unless it is
\* what a failed setup left, when every agent there was stopped, and every
\* terminal but those that were made after their request had timed out or that
\* the worker process did not list (runWithWriteLease around the registration,
\* quiesce, list, teardown).
THEOREM RemovalIsSafe == Spec => []NothingUnderRemoval
  <1>1. RemovalInv => NothingUnderRemoval
    BY LeasesGone DEF RemovalInv, NothingUnderRemoval, Cleared, Accounted
  <1> QED  BY <1>1, RemovalHolds, PTL

\* A mutation that waits for leases always waits for some: the release of
\* the last lease finds it in writeDrainWaiters, or it did not wait at all.
THEOREM DrainIsNoticed == Spec => []DrainNoticed
  <1>1. TypeOK /\ CallsTracked /\ RemovalInv => DrainNoticed
    BY LeasesGone DEF TypeOK, CallsTracked, RemovalInv, DrainNoticed
  <1> QED  BY <1>1, RemovalHolds, PTL

-----------------------------------------------------------------------------
(* Queued calls get their turn, and leave no path blocked.                 *)

\* The states a call may leave behind.
Settled == {"active"} \cup Preserved

\* Why a path is not blocked for nothing.  Only calls under way use the slot,
\* so that the last one drops it unless its state is meant to stay; and a
\* call is over with "quiescing" and "deleting" before it leaves.
BlockInv ==
  /\ slot # None =>
       /\ \A n \in obj[slot].chain : pc[n] # "idle"
       /\ \A n \in obj[slot].holders \cup obj[slot].waiters : InFlight(n)
  /\ \A m \in Mutations : \A n \in after[m] : pc[n] # "idle"
  /\ \A m \in Mutations : pc[m] = "leaving" => obj[slot].state \in Settled
  /\ NoStaleBlock

\* The calls under way, in the order in which they came: q lists each once,
\* and a call awaits only earlier ones of them.
Lines(q) ==
  /\ \A m \in Mutations : InFlight(m) <=> \E i \in 1..Len(q) : q[i] = m
  /\ \A i, j \in 1..Len(q) : i # j => q[i] # q[j]
  /\ \A i \in 1..Len(q) : \A n \in after[q[i]] :
       InFlight(n) => \E j \in 1..(i - 1) : q[j] = n

OrderInv == \E q \in Seq(Mutations) : Lines(q)

\* The first in line has its turn, or takes it next.
LEMMA OrderImplies == TypeOK /\ BlockInv /\ OrderInv => TurnComes
  <1> SUFFICES ASSUME TypeOK, BlockInv, OrderInv, NEW k \in Mutations, pc[k] = "queued"
               PROVE  \E m \in Mutations : Holding(m) \/ (pc[m] = "queued" /\ Resolved(m))
    BY DEF TurnComes
  <1>1. PICK q \in Seq(Mutations) : Lines(q)
    BY DEF OrderInv
  <1>2. 1 \in 1..Len(q) /\ q[1] \in Mutations
    BY <1>1 DEF Lines, InFlight
  <1>3. InFlight(q[1])
    BY <1>1, <1>2 DEF Lines
  <1>4. \A n \in after[q[1]] : ~InFlight(n) /\ pc[n] # "idle"
    BY <1>1, <1>2 DEF Lines, BlockInv
  <1>5. Resolved(q[1])
    BY <1>4 DEF Resolved, InFlight
  <1> QED  BY <1>2, <1>3, <1>5 DEF Holding

\* What a step does that begins and ends no call.
LEMMA BlockFrame ==
  ASSUME TypeOK, BlockInv, OrderInv, slot' = slot, after' = after,
         \A m \in Mutations : /\ InFlight(m)' <=> InFlight(m)
                              /\ pc'[m] = "idle" <=> pc[m] = "idle",
         slot # None =>
           /\ obj'[slot].chain = obj[slot].chain
           /\ \A n \in obj'[slot].holders \cup obj'[slot].waiters :
                InFlight(n) \/ n \in obj[slot].holders \cup obj[slot].waiters
           /\ (\A m \in Mutations : ~InFlight(m)) => obj'[slot].state = obj[slot].state,
         obj' \in [Mutations -> SlotObjects],
         \A m \in Mutations : pc'[m] = "leaving" =>
           obj'[slot].state \in Settled \/ (pc[m] = "leaving" /\ obj'[slot].state = obj[slot].state)
  PROVE  BlockInv' /\ OrderInv'
  <1>1. slot # None => /\ obj[slot] \in SlotObjects /\ obj'[slot] \in SlotObjects
                       /\ obj[slot].chain \subseteq Mutations
                       /\ obj'[slot].holders \cup obj'[slot].waiters \subseteq Mutations
    BY DEF TypeOK, SlotObjects
  <1>2. \A m \in Mutations : after[m] \subseteq Mutations
    BY DEF TypeOK
  <1>3. BlockInv'
    BY <1>1, <1>2 DEF BlockInv, NoStaleBlock
  <1>4. PICK q \in Seq(Mutations) : Lines(q)
    BY DEF OrderInv
  <1>5. \A i \in 1..Len(q) : q[i] \in Mutations
    OBVIOUS
  <1>6. Lines(q)'
    BY <1>2, <1>4, <1>5 DEF Lines
  <1> QED  BY <1>3, <1>6 DEF OrderInv

\* A new call queues behind all that are under way.
LEMMA BlockJoins ==
  ASSUME TypeOK, ChainInv, BlockInv, OrderInv, NEW m \in Mutations, NEW k \in Kinds, Joins(m, k)
  PROVE  BlockInv' /\ OrderInv'
  <1> DEFINE o == IF slot = None THEN m ELSE slot
  <1>1. /\ o \in Mutations /\ slot' = o /\ pc[m] = "idle"
        /\ pc' = [pc EXCEPT ![m] = "queued"]
        /\ after' = [after EXCEPT ![m] = obj[o].chain]
        /\ obj' = [obj EXCEPT ![o] = Waiting(obj[o], m)]
        /\ obj[o] \in SlotObjects
    BY DEF Joins, TypeOK
  <1>2. /\ obj'[o].chain = obj[o].chain \cup {m} /\ obj'[o].state = obj[o].state
        /\ obj'[o].waiters = obj[o].waiters \cup {m} /\ obj'[o].holders = obj[o].holders
    BY <1>1 DEF Waiting, SlotObjects, TypeOK
  <1>3. /\ \A n \in obj[o].chain : pc[n] # "idle"
        /\ \A n \in obj[o].holders \cup obj[o].waiters : InFlight(n)
    <2>1. CASE slot = None
      BY <1>1, <2>1 DEF ChainInv, FreshSlot
    <2>2. CASE slot # None
      BY <2>2 DEF BlockInv
    <2> QED  BY <2>1, <2>2
  <1> HIDE DEF o
  <1>4. /\ InFlight(m)' /\ ~InFlight(m)
        /\ \A n \in Mutations : n # m => pc'[n] = pc[n] /\ after'[n] = after[n] /\ (InFlight(n)' <=> InFlight(n))
        /\ after'[m] = obj[o].chain
    BY <1>1 DEF InFlight, TypeOK
  <1>5. obj[o].chain \subseteq Mutations /\ obj[o].holders \cup obj[o].waiters \subseteq Mutations
    BY <1>1 DEF SlotObjects
  <1>6. BlockInv'
    <2>1. \A n \in obj'[slot'].chain : pc'[n] # "idle"
      BY <1>1, <1>2, <1>3, <1>4, <1>5 DEF InFlight
    <2>2. \A n \in obj'[slot'].holders \cup obj'[slot'].waiters : InFlight(n)'
      BY <1>1, <1>2, <1>3, <1>4, <1>5
    <2>3. \A a \in Mutations : \A n \in after'[a] : pc'[n] # "idle"
      BY <1>1, <1>3, <1>4 DEF BlockInv, TypeOK
    <2>4. ASSUME NEW n \in Mutations, pc'[n] = "leaving" PROVE obj'[slot'].state \in Settled
      <3>1. n # m /\ pc[n] = "leaving"
        BY <1>1, <1>4, <2>4 DEF TypeOK
      <3>2. slot # None /\ o = slot
        BY <3>1, NoneAssumption DEF ChainInv, InFlight, o
      <3> QED  BY <1>1, <1>2, <3>1, <3>2 DEF BlockInv
    <2> QED  BY <1>4, <2>1, <2>2, <2>3, <2>4 DEF BlockInv, NoStaleBlock
  <1>7. PICK q \in Seq(Mutations) : Lines(q)
    BY DEF OrderInv
  <1> DEFINE p == Append(q, m)
  <1>8. /\ p \in Seq(Mutations) /\ Len(q) \in Nat /\ Len(p) = Len(q) + 1 /\ p[Len(p)] = m
        /\ \A i \in 1..Len(q) : p[i] = q[i] /\ q[i] \in Mutations
    OBVIOUS
  <1> HIDE DEF p
  <1>9. \A i \in 1..Len(q) : q[i] # m
    BY <1>4, <1>7 DEF Lines
  <1>10. \A n \in Mutations : InFlight(n)' <=> \E i \in 1..Len(p) : p[i] = n
    <2> SUFFICES ASSUME NEW n \in Mutations PROVE InFlight(n)' <=> \E i \in 1..Len(p) : p[i] = n
      OBVIOUS
    <2>1. CASE n = m
      BY <1>4, <1>8, <2>1
    <2>2. CASE n # m
      <3>1. InFlight(n)' <=> \E i \in 1..Len(q) : q[i] = n
        BY <1>4, <1>7, <2>2 DEF Lines
      <3> QED  BY <1>8, <2>2, <3>1
    <2> QED  BY <2>1, <2>2
  <1>11. \A i, j \in 1..Len(p) : i # j => p[i] # p[j]
    BY <1>7, <1>8, <1>9 DEF Lines
  <1>12. ASSUME NEW i \in 1..Len(p), NEW n \in after'[p[i]], InFlight(n)'
         PROVE  \E j \in 1..(i - 1) : p[j] = n
    <2>1. CASE i = Len(p)
      <3>1. n \in Mutations /\ n # m
        BY <1>1, <1>3, <1>4, <1>5, <1>8, <1>12, <2>1
      <3>2. PICK j \in 1..Len(q) : q[j] = n
        BY <1>4, <1>7, <1>12, <3>1 DEF Lines
      <3> QED  BY <1>8, <2>1, <3>2
    <2>2. CASE i \in 1..Len(q)
      <3>1. n \in after[q[i]] /\ n \in Mutations
        BY <1>4, <1>8, <1>9, <1>12, <2>2 DEF TypeOK
      <3>2. InFlight(n)
        BY <1>1, <1>4, <1>12, <1>8, <2>2, <3>1 DEF BlockInv
      <3>3. PICK j \in 1..(i - 1) : q[j] = n
        BY <1>7, <2>2, <3>1, <3>2 DEF Lines
      <3> QED  BY <1>8, <2>2, <3>3
    <2> QED  BY <1>8, <2>1, <2>2
  <1>13. Lines(p)'
    BY <1>10, <1>11, <1>12 DEF Lines
  <1> QED  BY <1>6, <1>8, <1>13 DEF OrderInv

\* A call that ends is the first in line, and the last one to use the slot
\* drops it unless its state is meant to stay.
LEMMA BlockExits ==
  ASSUME TypeOK, CallsTracked, ChainInv, BlockInv, OrderInv, NEW m \in Mutations, InFlight(m),
         Resolved(m), NEW s \in Settled, Exits(m, s)
  PROVE  BlockInv' /\ OrderInv'
  <1>1. /\ slot \in Mutations /\ obj[slot] \in SlotObjects
        /\ pc' = [pc EXCEPT ![m] = "done"] /\ after' = [after EXCEPT ![m] = {}]
        /\ obj' = [obj EXCEPT ![slot] = Left(obj[slot], m, s)]
        /\ slot' = IF Prunable(obj'[slot]) THEN None ELSE slot
    BY DEF Exits, ChainInv, TypeOK
  <1>2. /\ obj'[slot].chain = obj[slot].chain /\ obj'[slot].state = s
        /\ obj'[slot].waiters = obj[slot].waiters \ {m}
        /\ obj'[slot].holders = obj[slot].holders \ {m}
        /\ obj[slot].chain \subseteq Mutations
        /\ obj[slot].holders \cup obj[slot].waiters \subseteq Mutations
    BY <1>1 DEF Left, SlotObjects, TypeOK
  <1>3. /\ ~InFlight(m)' /\ pc'[m] = "done" /\ after'[m] = {}
        /\ \A n \in Mutations : n # m =>
             pc'[n] = pc[n] /\ after'[n] = after[n] /\ (InFlight(n)' <=> InFlight(n))
    BY <1>1 DEF InFlight, TypeOK
  <1>4. BlockInv'
    <2>1. slot' # None =>
            /\ slot' = slot
            /\ \A n \in obj'[slot'].chain : pc'[n] # "idle"
            /\ \A n \in obj'[slot'].holders \cup obj'[slot'].waiters : InFlight(n)'
      BY <1>1, <1>2, <1>3, NoneAssumption DEF BlockInv
    <2>2. \A a \in Mutations : \A n \in after'[a] : pc'[n] # "idle"
      BY <1>1, <1>3 DEF BlockInv, TypeOK
    <2>3. ASSUME NEW n \in Mutations, pc'[n] = "leaving" PROVE obj'[slot'].state \in Settled
      <3>1. n # m /\ Holding(n)
        BY <1>3, <2>3 DEF Holding, InFlight
      <3> QED  BY <3>1, TurnIsAlone
    <2>4. NoStaleBlock'
      <3> SUFFICES ASSUME slot' # None, \A n \in Mutations : ~InFlight(n)'
                   PROVE  s \in {"setup_failed_recovery", "delete_complete_pending_finalize"}
        BY <1>1, <1>2, <2>1 DEF NoStaleBlock
      <3>1. obj'[slot].holders = {} /\ obj'[slot].waiters = {}
        BY <1>1, <1>2, <2>1
      <3> QED  BY <1>1, <1>2, <3>1 DEF Prunable, Settled, Preserved
    <2> QED  BY <2>1, <2>2, <2>3, <2>4 DEF BlockInv
  <1>5. PICK q \in Seq(Mutations) : Lines(q)
    BY DEF OrderInv
  <1>6. PICK k \in 1..Len(q) : q[k] = m
    BY <1>5 DEF Lines
  <1>7. k = 1
    <2> SUFFICES ASSUME k # 1 PROVE FALSE
      OBVIOUS
    <2>1. 1 \in 1..Len(q) /\ q[1] \in Mutations /\ q[1] # m
      BY <1>5, <1>6 DEF Lines
    <2>2. InFlight(q[1])
      BY <1>5, <2>1 DEF Lines
    <2>3. m \in after[q[1]] \/ q[1] \in after[m]
      BY <2>1, <2>2 DEF ChainInv
    <2>4. q[1] \notin after[m]
      BY <2>2 DEF Resolved, InFlight
    <2> QED  BY <1>5, <2>1, <2>3, <2>4 DEF Lines
  <1> DEFINE p == Tail(q)
  <1>8. /\ p \in Seq(Mutations) /\ Len(q) \in Nat /\ Len(p) = Len(q) - 1
        /\ \A i \in 1..Len(p) : p[i] = q[i + 1] /\ i + 1 \in 1..Len(q)
        /\ q[1] = m
    BY <1>6, <1>7
  <1> HIDE DEF p
  <1>9. \A n \in Mutations : InFlight(n)' <=> \E i \in 1..Len(p) : p[i] = n
    <2> SUFFICES ASSUME NEW n \in Mutations PROVE InFlight(n)' <=> \E i \in 1..Len(p) : p[i] = n
      OBVIOUS
    <2>1. CASE n = m
      <3>1. ASSUME NEW i \in 1..Len(p) PROVE p[i] # m
        <4>1. /\ i + 1 \in 1..Len(q) /\ 1 \in 1..Len(q) /\ i + 1 # 1
              /\ p[i] = q[i + 1] /\ q[1] = m
          BY <1>6, <1>7, <1>8
        <4> QED  BY <1>5, <4>1 DEF Lines
      <3> QED  BY <1>3, <2>1, <3>1
    <2>2. CASE n # m
      <3>1. InFlight(n)' <=> \E i \in 1..Len(q) : q[i] = n
        BY <1>3, <1>5, <2>2 DEF Lines
      <3>2. ASSUME NEW i \in 1..Len(q), q[i] = n PROVE \E j \in 1..Len(p) : p[j] = n
        <4>1. i - 1 \in 1..Len(p) /\ p[i - 1] = q[i]
          BY <1>8, <2>2, <3>2
        <4> QED  BY <3>2, <4>1
      <3> QED  BY <1>8, <3>1, <3>2
    <2> QED  BY <2>1, <2>2
  <1>10. \A i, j \in 1..Len(p) : i # j => p[i] # p[j]
    BY <1>5, <1>8 DEF Lines
  <1>11. ASSUME NEW i \in 1..Len(p), NEW n \in after'[p[i]], InFlight(n)'
         PROVE  \E j \in 1..(i - 1) : p[j] = n
    <2>1. p[i] \in Mutations /\ p[i] # m /\ p[i] = q[i + 1] /\ i + 1 \in 1..Len(q)
      BY <1>5, <1>6, <1>7, <1>8 DEF Lines
    <2>2. n \in after[q[i + 1]] /\ n \in Mutations
      BY <1>3, <1>11, <2>1 DEF TypeOK
    <2>3. InFlight(n) /\ n # m
      BY <1>3, <1>11, <2>2
    <2>4. PICK j \in 1..((i + 1) - 1) : q[j] = n
      BY <1>5, <2>1, <2>2, <2>3 DEF Lines
    <2>5. j - 1 \in 1..(i - 1) /\ p[j - 1] = n
      BY <1>8, <2>3, <2>4
    <2> QED  BY <2>5
  <1>12. Lines(p)'
    BY <1>9, <1>10, <1>11 DEF Lines
  <1> QED  BY <1>4, <1>8, <1>12 DEF OrderInv

\* Every step keeps the calls in line and the path free.
LEMMA BlockStep ==
  TypeOK /\ CallsTracked /\ ChainInv /\ BlockInv /\ OrderInv /\ [Next]_vars => BlockInv' /\ OrderInv'
  <1> SUFFICES ASSUME TypeOK, CallsTracked, ChainInv, BlockInv, OrderInv, [Next]_vars
               PROVE  BlockInv' /\ OrderInv'
    OBVIOUS
  <1> USE DEF writerVars, diskVars
  <1>0. TypeOK'
    BY TypeStep
  <1>1. ASSUME NEW m \in Mutations, Called(m)
        PROVE  BlockInv' /\ OrderInv'
    <2>1. PICK k \in Kinds : Joins(m, k)
      BY <1>1 DEF Called, Archive, AutoArchive, Cleanup, Kinds
    <2> QED  BY <2>1, BlockJoins
  <1>2. ASSUME NEW m \in Mutations, MutationStep(m)
        PROVE  BlockInv' /\ OrderInv'
    <2>1. /\ InFlight(m) /\ slot \in Mutations /\ mine[m] = slot /\ obj[slot] \in SlotObjects
          /\ \A n \in Mutations \ {m} : pc'[n] = pc[n]
      BY <1>2, MoverIsAlone
    <2>2. Resolved(m)
      BY <1>2 DEF MutationStep, InFlight, Holding, ChainInv, Acquire, Refuse, CheckPasses,
                  CheckFails, Quiesce, ListWorkers, Announced, ListTerminals, StopWorker, TornDown, Removed,
                  ArchiveAborts, Finalized, FinalizeFails, Leaves, CleanupStarts, CleanupRemoves,
                  CleanupPreserves
    <2>3. CASE Refuse(m) \/ CheckFails(m) \/ Leaves(m) \/ CleanupRemoves(m) \/ CleanupPreserves(m)
      <3>1. \A t : Caught(t) \in Settled
        BY DEF Caught, Settled
      <3>2. pc[m] = "leaving" => obj[mine[m]].state \in Settled
        BY <2>1 DEF BlockInv
      <3>3. PICK s \in Settled : Exits(m, s)
        BY <2>3, <3>1, <3>2 DEF Refuse, CheckFails, Leaves, CleanupRemoves, CleanupPreserves,
                                Settled, Preserved
      <3> QED  BY <2>1, <2>2, <3>3, BlockExits
    <2>4. CASE Acquire(m) \/ Quiesce(m) \/ TornDown(m) \/ ArchiveAborts(m) \/ Finalized(m)
                 \/ FinalizeFails(m)
      <3>1. PICK s \in States : /\ Holds(m, s) \/ SetState(m, s)
                                /\ pc'[m] = "leaving" => s \in Settled
        <4>1. Entered(m) \in States
          BY <2>1, StatesTyped
        <4>2. CASE Acquire(m)
          BY <4>1, <4>2 DEF Acquire, AwaitsDrain, States, TypeOK
        <4>3. CASE Quiesce(m) \/ TornDown(m)
          BY <4>3 DEF Quiesce, TornDown, AwaitsDrain, States, TypeOK
        <4>4. CASE ArchiveAborts(m) \/ Finalized(m) \/ FinalizeFails(m)
          BY <4>4 DEF ArchiveAborts, Finalized, FinalizeFails, States, Settled, Preserved
        <4> QED  BY <2>4, <4>2, <4>3, <4>4
      <3>2. slot' = slot /\ after' = after
        BY <2>4 DEF Acquire, Quiesce, TornDown, ArchiveAborts, Finalized, FinalizeFails
      <3>3. pc'[m] \notin {"idle", "done"}
        BY <2>4 DEF Acquire, Quiesce, TornDown, ArchiveAborts, Finalized, FinalizeFails,
                    AwaitsDrain, TypeOK
      <3>4. \A n \in Mutations : /\ InFlight(n)' <=> InFlight(n)
                                 /\ pc'[n] = "idle" <=> pc[n] = "idle"
        BY <2>1, <3>3 DEF InFlight
      <3>5. /\ obj'[slot].chain = obj[slot].chain /\ obj'[slot].state = s
            /\ obj'[slot].holders \cup obj'[slot].waiters
                 \subseteq obj[slot].holders \cup obj[slot].waiters \cup {m}
        <4>1. CASE Holds(m, s)
          <5>1. obj'[slot] = Held(obj[slot], m, s)
            BY <2>1, <4>1 DEF Holds, TypeOK
          <5> QED  BY <2>1, <5>1 DEF Held, SlotObjects
        <4>2. CASE SetState(m, s)
          <5>1. obj'[slot] = [obj[slot] EXCEPT !.state = s]
            BY <2>1, <4>2 DEF SetState, TypeOK
          <5> QED  BY <2>1, <5>1 DEF SlotObjects
        <4> QED  BY <3>1, <4>1, <4>2
      <3>6. \A n \in Mutations : pc'[n] = "leaving" => obj'[slot].state \in Settled
        <4> SUFFICES ASSUME NEW n \in Mutations, pc'[n] = "leaving" PROVE n = m
          BY <3>1, <3>5
        <4>1. n # m => Holding(n)
          BY <2>1 DEF Holding, InFlight
        <4> QED  BY <2>1, <2>2, <4>1, TurnIsAlone
      <3>7. obj' \in [Mutations -> SlotObjects]
        BY <1>0 DEF TypeOK
      <3> QED  BY <2>1, <3>2, <3>4, <3>5, <3>6, <3>7, BlockFrame
    <2>5. CASE \/ CheckPasses(m) \/ ListWorkers(m) \/ Announced(m) \/ Removed(m)
               \/ CleanupStarts(m) \/ (\E w \in Writers : StopWorker(m, w))
               \/ \E p \in Paths : ListTerminals(m, p)
      <3>1. slot' = slot /\ after' = after /\ obj' = obj
        BY <2>5 DEF CheckPasses, ListWorkers, Announced, ListTerminals, Removed, CleanupStarts, StopWorker,
                    mutationVars
      <3>2. \A n \in Mutations : /\ InFlight(n)' <=> InFlight(n)
                                 /\ pc'[n] = "idle" <=> pc[n] = "idle"
                                 /\ pc'[n] = "leaving" => pc[n] = "leaving"
        BY <2>5 DEF CheckPasses, ListWorkers, Announced, ListTerminals, Removed, CleanupStarts, StopWorker,
                    mutationVars, InFlight, TypeOK
      <3> QED  BY <3>1, <3>2, BlockFrame DEF TypeOK
    <2> QED  BY <1>2, <2>3, <2>4, <2>5 DEF MutationStep
  <1>3. ASSUME NEW w \in Writers, Release(w)
        PROVE  BlockInv' /\ OrderInv'
    <2>1. \A n \in Mutations : /\ InFlight(n)' <=> InFlight(n)
                               /\ pc'[n] = "idle" <=> pc[n] = "idle"
                               /\ pc'[n] = "leaving" => pc[n] = "leaving"
      BY <1>3 DEF Release, CallsTracked, InFlight, TypeOK
    <2> QED  BY <1>3, <2>1, BlockFrame DEF Release, TypeOK
  <1>4. CASE UNCHANGED mutationVars
    BY <1>4, BlockFrame DEF mutationVars, InFlight, TypeOK
  <1>5. ASSUME NEW w \in Writers, NEW p \in Paths, Admit(w, p)
        PROVE  UNCHANGED mutationVars
    BY <1>5 DEF Admit
  <1>6. ASSUME NEW w \in Writers, FindsDirectory(w) \/ Register(w) \/ LateTerminal(w) \/ WorkerEnds(w)
        PROVE  UNCHANGED mutationVars
    BY <1>6 DEF FindsDirectory, Register, LateTerminal, WorkerEnds
  <1>7. ASSUME CreateTree \/ SetupSucceeds \/ Discard \/ UNCHANGED vars
        PROVE  UNCHANGED mutationVars
    BY <1>7 DEF CreateTree, SetupSucceeds, Discard, vars
  <1> QED  BY <1>1, <1>2, <1>3, <1>4, <1>5, <1>6, <1>7 DEF Next

\* All that the two theorems below rest on.
LEMMA BlockHolds == Spec => [](TypeOK /\ BlockInv /\ OrderInv)
  <1>1. Init => TypeOK /\ CallsTracked /\ ChainInv
    BY NoneAssumption DEF Init, TypeOK, CallsTracked, ChainInv, InFlight, Holding, FreshSlot,
                          SlotObjects, States, Stages
  <1>2. Init => BlockInv /\ OrderInv
    <2> SUFFICES ASSUME Init PROVE BlockInv /\ OrderInv
      OBVIOUS
    <2>1. \A m \in Mutations : ~InFlight(m) /\ pc[m] = "idle" /\ after[m] = {}
      BY DEF Init, InFlight
    <2>2. BlockInv
      BY <2>1 DEF Init, BlockInv, NoStaleBlock
    <2>3. <<>> \in Seq(Mutations) /\ Len(<<>>) = 0
      OBVIOUS
    <2>4. Lines(<<>>)
      BY <2>1, <2>3 DEF Lines
    <2> QED  BY <2>2, <2>3, <2>4 DEF OrderInv
  <1> QED  BY <1>1, <1>2, TypeStep, ChainStep, BlockStep, PTL DEF Spec

\* A path is blocked after the last mutation only in the two states that are
\* meant to outlive it (shouldPruneSlot, the catch of runExclusive).
THEOREM NothingStaysBlocked == Spec => []NoStaleBlock
  BY BlockHolds, PTL DEF BlockInv

\* Of any number of queued calls one has its turn or may take it: the chain of
\* gates has no circle and no gate that nobody opens.
THEOREM TurnsCome == Spec => []TurnComes
  BY BlockHolds, OrderImplies, PTL
=============================================================================
