------------------------- MODULE WorkspaceMutation -------------------------
(***************************************************************************)
(* The coordination of destructive worktree mutations with the work that   *)
(* is registered in the worktree (workspace-mutation-coordinator.ts), and  *)
(* the callers that mutate: the archive service, the automatic archive of  *)
(* a merged branch and the cleanup of a failed setup.  One worktree root   *)
(* is followed.  All of it runs in the daemon's single thread: an action   *)
(* is the code between two awaits, and the state of a call between its     *)
(* awaits is kept in pc.                                                   *)
(*                                                                         *)
(* A mutation is one call of runExclusive on the root, a writer one call   *)
(* of runWithWriteLease: the creation, resumption or reload of an agent or *)
(* the creation of a terminal, which leave a worker in the directory.      *)
(***************************************************************************)
EXTENDS FiniteSets, Naturals

CONSTANTS
  Mutations,   \* calls of runExclusive
  Writers,     \* calls of runWithWriteLease
  Terminals,   \* those that ask the worker process for a terminal
  Paths,       \* the directories the writers are asked for
  Inside,      \* those equal to the worktree root or below it
  None

ASSUME PathsAssumption == Inside \subseteq Paths
ASSUME TerminalsAssumption == Terminals \subseteq Writers
ASSUME NoneAssumption == None \notin Mutations

VARIABLES
  slot,      \* entry of the map slots for the root: the mutation that made it, or None
  obj,       \* the slot objects, named after the mutation that made them
  pc,        \* where each mutation stands
  kind,      \* who asked for it
  mine,      \* the slot object it captured
  after,     \* the gates its turn awaits: the chain when it was called
  failed,    \* whether the archive's body is about to throw
  listed,    \* the workers the archive found and must stop
  asking,    \* the directories whose terminals the worker process is asked for
  drains,    \* writeDrainWaiters: mutations waiting for the leases
  leases,    \* writeLeases: the calls counted for each path
  wpc,       \* where each writer stands
  at,        \* the directory it was asked for
  live,      \* agents and terminals that exist, named after their writer
  unseen,    \* history: terminals that appeared when nobody held a lease for them,
             \* or that the last list of their directory did not have
  tree,      \* the worktree on disk
  record     \* the workspace's record in the registry

mutationVars == <<slot, obj, pc, kind, mine, after, failed, listed, asking, drains>>
writerVars   == <<leases, wpc, at, live, unseen>>
diskVars     == <<tree, record>>
vars         == <<mutationVars, writerVars, diskVars>>

States == {"active", "quiescing", "deleting", "archived",
           "setup_failed_recovery", "delete_complete_pending_finalize"}

\* What a failing mutation leaves alone.
Preserved == {"archived", "setup_failed_recovery", "delete_complete_pending_finalize"}

Kinds == {"archive", "auto", "cleanup"}

SlotObjects == [state : States, chain : SUBSET Mutations,
                holders : SUBSET Mutations, waiters : SUBSET Mutations]

FreshSlot == [state |-> "active", chain |-> {}, holders |-> {}, waiters |-> {}]

\* A slot object in which call m queues, takes its turn, and is gone.
Waiting(o, m) == [o EXCEPT !.chain = @ \cup {m}, !.waiters = @ \cup {m}]
Held(o, m, s) == [o EXCEPT !.state = s, !.waiters = @ \ {m}, !.holders = @ \cup {m}]
Left(o, m, s) == [o EXCEPT !.state = s, !.waiters = @ \ {m}, !.holders = @ \ {m}]

InFlight(m) == pc[m] \notin {"idle", "done"}
Holding(m)  == InFlight(m) /\ pc[m] # "queued"

\* Mutant: a root that is quiescing still admits work.
Blocked_OnlyDeleting(p) == slot # None /\ obj[slot].state = "deleting" /\ p \in Inside

LeasesWithin == UNION {leases[p] : p \in Inside}
LiveWithin   == {w \in live : at[w] \in Inside}

Blocked(p) == slot # None /\ obj[slot].state # "active" /\ p \in Inside

Init ==
  /\ slot = None
  /\ obj = [m \in Mutations |-> FreshSlot]
  /\ pc = [m \in Mutations |-> "idle"]
  /\ kind = [m \in Mutations |-> None]
  /\ mine = [m \in Mutations |-> None]
  /\ after = [m \in Mutations |-> {}]
  /\ failed = [m \in Mutations |-> FALSE]
  /\ listed = [m \in Mutations |-> {}]
  /\ asking = [m \in Mutations |-> {}]
  /\ drains = {}
  /\ leases = [p \in Paths |-> {}]
  /\ wpc = [w \in Writers |-> "idle"]
  /\ at = [w \in Writers |-> None]
  /\ live = {}
  /\ unseen = {}
  /\ tree = "ready"
  /\ record = "active"

-----------------------------------------------------------------------------
(* runExclusive.                                                           *)

\* Mutant: the call awaits the chain its own gate was added to.
Joins_OwnGate(m, k) ==
  LET o == IF slot = None THEN m ELSE slot IN
  /\ pc[m] = "idle"
  /\ slot' = o
  /\ obj' = [obj EXCEPT ![o] = Waiting(obj[o], m)]
  /\ pc' = [pc EXCEPT ![m] = "queued"]
  /\ kind' = [kind EXCEPT ![m] = k]
  /\ mine' = [mine EXCEPT ![m] = o]
  /\ after' = [after EXCEPT ![m] = obj[o].chain \cup {m}]
  /\ UNCHANGED <<failed, listed, asking, drains, writerVars>>

\* The call joins the chain of the slot in the map, which it makes if there
\* is none.
Joins(m, k) ==
  LET o == IF slot = None THEN m ELSE slot IN
  /\ pc[m] = "idle"
  /\ slot' = o
  /\ obj' = [obj EXCEPT ![o] = Waiting(obj[o], m)]
  /\ pc' = [pc EXCEPT ![m] = "queued"]
  /\ kind' = [kind EXCEPT ![m] = k]
  /\ mine' = [mine EXCEPT ![m] = o]
  /\ after' = [after EXCEPT ![m] = obj[o].chain]
  /\ UNCHANGED <<failed, listed, asking, drains, writerVars>>

\* The promise of a chain resolves when every gate in it was released.
Resolved(m) == \A n \in after[m] : pc[n] = "done"

\* The state in which the turn begins.
Entered(m) ==
  LET s == obj[mine[m]].state IN
  IF s = "archived" \/ (s = "setup_failed_recovery" /\ kind[m] = "cleanup")
  THEN "active" ELSE s

Holds(m, s) ==
  obj' = [obj EXCEPT ![mine[m]] = Held(obj[mine[m]], m, s)]

SetState(m, s) == obj' = [obj EXCEPT ![mine[m]].state = s]

\* Mutant: the slot is dropped although calls wait for it.
Prunable_WithWaiters(o) == o.holders = {} /\ o.state \in {"active", "archived"}

\* The catch block.
Caught(s) == IF s \in Preserved THEN s ELSE "active"

Prunable(o) ==
  o.holders = {} /\ o.waiters = {} /\ o.state \in {"active", "archived"}

\* The finally block: the slot is dropped when nobody uses it, and the gate
\* is released.  The locals of the call are gone with it.
Exits(m, s) ==
  /\ obj' = [obj EXCEPT ![mine[m]] = Left(obj[mine[m]], m, s)]
  /\ slot' = IF Prunable(obj'[mine[m]]) THEN None ELSE slot
  /\ pc' = [pc EXCEPT ![m] = "done"]
  /\ mine' = [mine EXCEPT ![m] = None]
  /\ after' = [after EXCEPT ![m] = {}]
  /\ failed' = [failed EXCEPT ![m] = FALSE]
  /\ listed' = [listed EXCEPT ![m] = {}]
  /\ asking' = [asking EXCEPT ![m] = {}]
  /\ UNCHANGED <<kind, drains, writerVars>>

\* Mutant: it waits for the next release even if there is nothing to wait for.
AwaitsDrain_Always(m) ==
  pc' = [pc EXCEPT ![m] = "draining"] /\ drains' = drains \cup {m}

\* waitForWritesToDrain: it waits only if a lease is held under the root.
AwaitsDrain(m) ==
  IF LeasesWithin = {}
  THEN pc' = [pc EXCEPT ![m] = "drained"] /\ UNCHANGED drains
  ELSE pc' = [pc EXCEPT ![m] = "draining"] /\ drains' = drains \cup {m}

\* The turn begins: an archive first asks git for the root of the worktree,
\* the others refuse new work at once.
Acquire(m) ==
  /\ pc[m] = "queued" /\ Resolved(m)
  /\ Entered(m) \in {"active", "delete_complete_pending_finalize"}
  /\ \/ /\ kind[m] = "archive"
        /\ Holds(m, Entered(m))
        /\ pc' = [pc EXCEPT ![m] = "resolving"]
        /\ UNCHANGED drains
     \/ /\ kind[m] = "auto"
        /\ Holds(m, "quiescing")
        /\ pc' = [pc EXCEPT ![m] = "checking"]
        /\ UNCHANGED drains
     \/ /\ kind[m] = "cleanup"
        /\ Holds(m, "quiescing")
        /\ AwaitsDrain(m)
  /\ UNCHANGED <<slot, kind, mine, after, failed, listed, asking, writerVars, diskVars>>

\* The turn begins in a state that admits no mutation: WorkspaceMutationBusyError.
Refuse(m) ==
  /\ pc[m] = "queued" /\ Resolved(m)
  /\ Entered(m) \notin {"active", "delete_complete_pending_finalize"}
  /\ Exits(m, Caught(Entered(m)))
  /\ UNCHANGED diskVars

-----------------------------------------------------------------------------
(* archiveIfSafe: the gate of the automatic archive.                       *)

\* One automatic archive of a directory at a time (inFlight).
AutoArchive(m) ==
  /\ \A n \in Mutations : kind[n] = "auto" => pc[n] = "done"
  /\ Joins(m, "auto")
  /\ UNCHANGED diskVars

\* Mutant: an automatic archive that gives up does not reopen the directory.
CheckFails_NoReset(m) ==
  /\ pc[m] = "checking"
  /\ Exits(m, obj[mine[m]].state)
  /\ UNCHANGED diskVars

\* The refreshed snapshot is clean and the directory still belongs to the
\* daemon; a directory that is gone has no clean snapshot.
CheckPasses(m) ==
  /\ pc[m] = "checking" /\ tree # "gone"
  /\ pc' = [pc EXCEPT ![m] = "resolving"]
  /\ UNCHANGED <<slot, obj, kind, mine, after, failed, listed, asking, drains, writerVars,
                 diskVars>>

CheckFails(m) ==
  /\ pc[m] = "checking"
  /\ Exits(m, "active")
  /\ UNCHANGED diskVars

-----------------------------------------------------------------------------
(* archiveChisaCodeWorktree.                                               *)

Archive(m) ==
  /\ Joins(m, "archive")
  /\ UNCHANGED diskVars

\* The root is known: no new work, and the admitted work is waited for.
Quiesce(m) ==
  /\ pc[m] = "resolving"
  /\ SetState(m, "quiescing")
  /\ AwaitsDrain(m)
  /\ UNCHANGED <<slot, kind, mine, after, failed, listed, asking, writerVars, diskVars>>

\* The live agents under the root are listed, then the stored ones.
ListWorkers(m) ==
  /\ pc[m] = "drained" /\ kind[m] # "cleanup"
  /\ listed' = [listed EXCEPT ![m] = LiveWithin \ Terminals]
  /\ pc' = [pc EXCEPT ![m] = "announcing"]
  /\ UNCHANGED <<slot, obj, kind, mine, after, failed, asking, drains, writerVars, diskVars>>

\* The teardown begins: the agents are archived, and for each directory that is
\* known to have terminals the worker process is asked for them.
Announced(m) ==
  /\ pc[m] = "announcing"
  /\ pc' = [pc EXCEPT ![m] = "teardown"]
  /\ asking' = [asking EXCEPT ![m] = {at[w] : w \in LiveWithin \cap Terminals}]
  /\ UNCHANGED <<slot, obj, kind, mine, after, failed, listed, drains, writerVars, diskVars>>

TerminalsIn(p) == {w \in live \cap Terminals : at[w] = p}

\* killTerminalsUnderPath: the worker process answers for a directory, or it fails,
\* exits or is silent for 10 s, which counts as a directory without terminals.
ListTerminals(m, p) ==
  /\ pc[m] = "teardown" /\ p \in asking[m]
  /\ asking' = [asking EXCEPT ![m] = @ \ {p}]
  /\ \/ listed' = [listed EXCEPT ![m] = @ \cup TerminalsIn(p)] /\ unseen' = unseen \ TerminalsIn(p)
     \/ unseen' = unseen \cup TerminalsIn(p) /\ UNCHANGED listed
  /\ UNCHANGED <<slot, obj, pc, kind, mine, after, failed, drains, leases, wpc, at, live, diskVars>>

\* One agent is archived, or one terminal killed, the terminals once all
\* directories are listed.
StopWorker(m, w) ==
  /\ pc[m] = "teardown" /\ w \in listed[m] \cap live
  /\ w \in Terminals => asking[m] = {}
  /\ live' = live \ {w}
  /\ UNCHANGED <<mutationVars, leases, wpc, at, unseen, diskVars>>

TornDown(m) ==
  /\ pc[m] = "teardown" /\ asking[m] = {} /\ listed[m] \cap live = {}
  /\ SetState(m, "deleting")
  /\ pc' = [pc EXCEPT ![m] = "removing"]
  /\ UNCHANGED <<slot, kind, mine, after, failed, listed, asking, drains, writerVars, diskVars>>

\* git removed the directory, or it was gone and git only prunes its list.
Removed(m) ==
  /\ pc[m] = "removing" /\ kind[m] # "cleanup"
  /\ tree' = "gone"
  /\ pc' = [pc EXCEPT ![m] = "finalizing"]
  /\ UNCHANGED <<slot, obj, kind, mine, after, failed, listed, asking, drains, writerVars, record>>

\* A step before the deletion failed, or git refused: the catch of the body.
ArchiveAborts(m) ==
  /\ \/ pc[m] = "announcing"
     \/ pc[m] = "teardown" /\ asking[m] = {}
     \/ pc[m] = "removing" /\ kind[m] # "cleanup"
  /\ SetState(m, "active")
  /\ failed' = [failed EXCEPT ![m] = TRUE]
  /\ pc' = [pc EXCEPT ![m] = "leaving"]
  /\ UNCHANGED <<slot, kind, mine, after, listed, asking, drains, writerVars, diskVars>>

Finalized(m) ==
  /\ pc[m] = "finalizing"
  /\ record' = "archived"
  /\ SetState(m, "archived")
  /\ pc' = [pc EXCEPT ![m] = "leaving"]
  /\ UNCHANGED <<slot, kind, mine, after, failed, listed, asking, drains, writerVars, tree>>

\* The record of the workspace could not be archived.
FinalizeFails(m) ==
  /\ pc[m] = "finalizing"
  /\ SetState(m, "delete_complete_pending_finalize")
  /\ pc' = [pc EXCEPT ![m] = "leaving"]
  /\ UNCHANGED <<slot, kind, mine, after, failed, listed, asking, drains, writerVars, diskVars>>

\* The finally block of the body announces the outcome, and may throw
\* itself; the automatic archive answers every error with "active".
Leaves(m) ==
  /\ pc[m] = "leaving"
  /\ \E threw \in {failed[m], TRUE} :
       Exits(m, IF ~threw THEN obj[mine[m]].state
                ELSE IF kind[m] = "auto" THEN "active"
                ELSE Caught(obj[mine[m]].state))
  /\ UNCHANGED diskVars

-----------------------------------------------------------------------------
(* createWorktree and cleanupFailedWorktreeSetup.                          *)

\* A worktree is made at the path once nothing is there.
CreateTree ==
  /\ tree = "gone"
  /\ tree' = "setup"
  /\ UNCHANGED <<mutationVars, writerVars, record>>

SetupSucceeds ==
  /\ tree = "setup"
  /\ tree' = "ready" /\ record' = "active"
  /\ UNCHANGED <<mutationVars, writerVars>>

\* A setup command failed.
Cleanup(m) ==
  /\ tree = "setup"
  /\ Joins(m, "cleanup")
  /\ tree' = "failed"
  /\ UNCHANGED record

CleanupStarts(m) ==
  /\ pc[m] = "drained" /\ kind[m] = "cleanup"
  /\ pc' = [pc EXCEPT ![m] = "removing"]
  /\ UNCHANGED <<slot, obj, kind, mine, after, failed, listed, asking, drains, writerVars,
                 diskVars>>

CleanupRemoves(m) ==
  /\ pc[m] = "removing" /\ kind[m] = "cleanup"
  /\ tree' = "gone"
  /\ Exits(m, "archived")
  /\ UNCHANGED record

\* git refused to remove what the setup left: it is kept for recovery.
CleanupPreserves(m) ==
  /\ pc[m] = "removing" /\ kind[m] = "cleanup"
  /\ Exits(m, "setup_failed_recovery")
  /\ UNCHANGED diskVars

\* Somebody removes by hand what a failed setup left.
Discard ==
  /\ tree = "failed"
  /\ tree' = "gone"
  /\ UNCHANGED <<mutationVars, writerVars, record>>

-----------------------------------------------------------------------------
(* runWithWriteLease around the registration of an agent or a terminal.    *)

Admit(w, p) ==
  /\ wpc[w] = "idle" /\ ~Blocked(p)
  /\ leases' = [leases EXCEPT ![p] = @ \cup {w}]
  /\ wpc' = [wpc EXCEPT ![w] = "leased"]
  /\ at' = [at EXCEPT ![w] = p]
  /\ UNCHANGED <<mutationVars, live, unseen, diskVars>>

\* The directory was there when the configuration of an agent was normalized; the
\* shell of a terminal is started wherever it was asked for.
FindsDirectory(w) ==
  /\ wpc[w] = "leased"
  /\ at[w] \in Inside /\ w \notin Terminals => tree # "gone"
  /\ wpc' = [wpc EXCEPT ![w] = "found"]
  /\ UNCHANGED <<mutationVars, leases, at, live, unseen, diskVars>>

\* The provider's session, or the terminal, exists and is registered.
Register(w) ==
  /\ wpc[w] = "found"
  /\ live' = live \cup {w}
  /\ wpc' = [wpc EXCEPT ![w] = "registered"]
  /\ UNCHANGED <<mutationVars, leases, at, unseen, diskVars>>

\* The lease is given back, and with the last one of a path the mutations
\* that wait for the whole root are looked at.  A request for a terminal that
\* timed out gives it back although the worker process may still be at it.
Release(w) ==
  /\ wpc[w] \in {"leased", "found", "registered"}
  /\ leases' = [leases EXCEPT ![at[w]] = @ \ {w}]
  /\ \E late \in BOOLEAN :
       /\ late => w \in Terminals /\ wpc[w] = "found"
       /\ wpc' = [wpc EXCEPT ![w] = IF late THEN "late" ELSE "done"]
  /\ LET woken == IF leases'[at[w]] = {} /\ LeasesWithin' = {} THEN drains ELSE {} IN
     /\ drains' = drains \ woken
     /\ pc' = [m \in Mutations |-> IF m \in woken THEN "drained" ELSE pc[m]]
  /\ UNCHANGED <<slot, obj, kind, mine, after, failed, listed, asking, at, live, unseen, diskVars>>

\* terminalCreated: the worker process made the terminal after all, and it is
\* registered without a lease, whatever happens to its directory.
LateTerminal(w) ==
  /\ wpc[w] = "late"
  /\ live' = live \cup {w} /\ unseen' = unseen \cup {w}
  /\ wpc' = [wpc EXCEPT ![w] = "done"]
  /\ UNCHANGED <<mutationVars, leases, at, diskVars>>

\* An agent is closed or a terminal exits on its own.
WorkerEnds(w) ==
  /\ w \in live
  /\ live' = live \ {w}
  /\ UNCHANGED <<mutationVars, leases, wpc, at, unseen, diskVars>>

-----------------------------------------------------------------------------
MutationStep(m) ==
  \/ Acquire(m) \/ Refuse(m)
  \/ CheckPasses(m) \/ CheckFails(m)
  \/ Quiesce(m) \/ ListWorkers(m) \/ Announced(m)
  \/ \E p \in Paths : ListTerminals(m, p)
  \/ \E w \in Writers : StopWorker(m, w)
  \/ TornDown(m) \/ Removed(m) \/ ArchiveAborts(m)
  \/ Finalized(m) \/ FinalizeFails(m) \/ Leaves(m)
  \/ CleanupStarts(m) \/ CleanupRemoves(m) \/ CleanupPreserves(m)

Called(m) == Archive(m) \/ AutoArchive(m) \/ Cleanup(m)

Next ==
  \/ \E m \in Mutations : Called(m) \/ MutationStep(m)
  \/ \E w \in Writers :
       \/ \E p \in Paths : Admit(w, p)
       \/ FindsDirectory(w) \/ Register(w) \/ Release(w)
       \/ LateTerminal(w) \/ WorkerEnds(w)
  \/ CreateTree \/ SetupSucceeds \/ Discard

Spec == Init /\ [][Next]_vars

-----------------------------------------------------------------------------
(* Properties.                                                             *)

Stages == {"idle", "queued", "checking", "resolving", "draining", "drained", "announcing",
           "teardown", "removing", "finalizing", "leaving", "done"}

\* The variables have their types.
TypeOK ==
  /\ slot \in Mutations \cup {None}
  /\ obj \in [Mutations -> SlotObjects]
  /\ pc \in [Mutations -> Stages]
  /\ kind \in [Mutations -> Kinds \cup {None}]
  /\ mine \in [Mutations -> Mutations \cup {None}]
  /\ after \in [Mutations -> SUBSET Mutations]
  /\ failed \in [Mutations -> BOOLEAN]
  /\ listed \in [Mutations -> SUBSET Writers]
  /\ asking \in [Mutations -> SUBSET Paths]
  /\ drains \subseteq Mutations
  /\ leases \in [Paths -> SUBSET Writers]
  /\ wpc \in [Writers -> {"idle", "leased", "found", "registered", "late", "done"}]
  /\ at \in [Writers -> Paths \cup {None}]
  /\ live \subseteq Writers /\ unseen \subseteq Terminals
  /\ tree \in {"ready", "setup", "failed", "gone"}
  /\ record \in {"active", "archived"}

\* At most one mutation is in its critical section, however calls queue
\* behind one another while the slot of the path is dropped and made again
\* (runExclusive: waiter accounting keeps the slot until the last one left).
OneMutation == \A m, n \in Mutations : Holding(m) /\ Holding(n) => m = n

\* While a mutation removes the directory no registration is under way in
\* it, and an archive has stopped every agent there and every terminal it could
\* know of: work that was admitted before the mutation was waited for, later work
\* was refused.  What it cannot know of: a terminal that the worker process made
\* after its request had timed out, and those it did not list when it was asked.
NothingUnderRemoval ==
  \A m \in Mutations : pc[m] = "removing" =>
    LeasesWithin = {} /\ (kind[m] # "cleanup" => LiveWithin \subseteq unseen)

\* A mutation that is over keeps no path blocked, except for the two states
\* that are meant to outlive it (shouldPruneSlot, the catch of runExclusive).
NoStaleBlock ==
  slot # None /\ (\A m \in Mutations : ~InFlight(m)) =>
    obj[slot].state \in {"setup_failed_recovery", "delete_complete_pending_finalize"}

\* A mutation that waits for leases waits for some: the release of the last
\* one is never missed (waitForWritesToDrain, resolveWriteDrainWaiters).
DrainNoticed == drains # {} => LeasesWithin # {}

\* Queued mutations never wait for one another in a circle, nor for a gate
\* that nobody will open.
TurnComes ==
  (\E m \in Mutations : pc[m] = "queued") =>
    \E m \in Mutations : Holding(m) \/ (pc[m] = "queued" /\ Resolved(m))
=============================================================================
