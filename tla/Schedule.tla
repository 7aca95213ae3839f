------------------------------ MODULE Schedule ------------------------------
(* The schedule service of the daemon: a timer starts a tick every second, a *)
(* tick walks over copies of all records and runs what is due one after the *)
(* other, while clients pause, resume, edit, delete or run a schedule by     *)
(* hand. Records are files that are read whole and written whole, without a  *)
(* lock and not atomically.                                                  *)
(*   server/schedule/service.ts, server/schedule/store.ts                    *)
EXTENDS Naturals, Sequences

CONSTANTS Count,     \* the schedules, numbered in the order of their creation
          Ticks,     \* calls of tick() that may be under way at once
          Users,     \* calls of clients that may be under way at once
          None,
          Period,    \* the cadence, "every"
          MaxRuns,   \* maxRuns of every schedule
          Expiry,    \* expiresAt of every schedule
          Horizon,   \* bound: the clock stops here
          Edits,     \* bound: client calls
          Faults     \* bound: crashes and failed writes

Schedules == 1..Count
Calls == Ticks \cup Users

Record == [status : {"active", "paused", "completed"}, next : Nat \cup {None},
           open : Seq(Calls), ended : 0..MaxRuns]

ASSUME ScheduleAssumption ==
  /\ Count \in Nat /\ Ticks \cap Users = {} /\ None \notin Calls \cup Nat \cup Record
  /\ Period \in Nat \ {0} /\ MaxRuns \in Nat \ {0}
  /\ Expiry \in Nat /\ Horizon \in Nat /\ Edits \in Nat /\ Faults \in Nat

VARIABLES
  now, up, boot,   \* the clock, whether the daemon runs, and since when
  disk,            \* the record files
  garbled,         \* files that hold a part of a record
  running,         \* runningScheduleIds
  pc, todo,        \* where a call is, and the schedules it still has to visit
  since,           \* the time at which a tick read the clock
  copy,            \* the records a call has read, or is about to write
  fd,              \* the file a call has open: truncated, shared with a later
                   \* write, or unlinked meanwhile
  retry,           \* calls whose next failure ends them
  edits, faults,
  \* history: copies older than their file, schedules a write of which failed or
  \* was based on an older record, slots
  \* fired by the timer and fired twice, timer runs, and paused schedules
  outdated, damaged, fired, twice, timed, held

store == <<disk, garbled>>
calls == <<pc, todo, since, copy, fd, retry>>
history == <<outdated, damaged, fired, twice, timed, held>>
vars == <<now, up, boot, store, running, calls, edits, faults, history>>

Phases == {"idle", "walking", "completing", "recording", "running", "inspecting",
           "finishing", "pausing", "editing"}
RunPhases == {"recording", "running", "inspecting", "finishing"}
WritePhases == {"completing", "recording", "finishing", "pausing", "editing"}

TypeOK ==
  /\ now \in 0..Horizon /\ boot \in 0..now /\ up \in BOOLEAN
  /\ disk \in [Schedules -> Record \cup {None}]
  /\ garbled \subseteq Schedules /\ running \subseteq Schedules
  /\ pc \in [Calls -> Phases] /\ todo \in [Calls -> SUBSET Schedules]
  /\ \A c \in Calls : pc[c] = "idle" <=> todo[c] = {}
  /\ since \in [Calls -> 0..now]
  /\ copy \in [Calls -> [Schedules -> Record \cup {None}]]
  /\ fd \in [Calls -> {"closed", "open", "shared", "unlinked"}] /\ retry \subseteq Calls
  /\ edits \in 0..Edits /\ faults \in 0..Faults
  /\ outdated \subseteq Calls \X Schedules /\ damaged \subseteq Schedules
  /\ fired \in [Schedules -> SUBSET Nat] /\ twice \subseteq Schedules
  /\ timed \in [Schedules -> 0..(MaxRuns + 1)] /\ held \subseteq Schedules
-----------------------------------------------------------------------------
(* Records.                                                                *)

NextAfter_Inclusive(after, t) ==
  IF t <= after THEN after ELSE after + Period * ((t - after) \div Period)

\* computeNextRunAt, repeated until the result lies after the time t.
NextAfter(after, t) ==
  after + Period * (IF t < after THEN 1 ELSE (t - after) \div Period + 1)

Expired(r, t) == t >= Expiry \/ r.ended >= MaxRuns
Completed(r) == [r EXCEPT !.status = "completed", !.next = None]

\* The open runs of a record, of which each call has at most one.
Runs(r) == {r.open[i] : i \in DOMAIN r.open}

Without(q, c) ==
  LET i == CHOOSE j \in DOMAIN q : q[j] = c
  IN SubSeq(q, 1, i - 1) \o SubSeq(q, i + 1, Len(q))

\* A record may name a run of this call that was never closed: one entry.
WithRun(r, c) ==
  [r EXCEPT !.open = Append(IF c \in Runs(r) THEN Without(@, c) ELSE @, c)]

CloseRun(r, c) ==
  IF c \in Runs(r)
  THEN [r EXCEPT !.open = Without(@, c), !.ended = IF @ < MaxRuns THEN @ + 1 ELSE @]
  ELSE r

Finished_Resumes(r, c, t) ==
  LET q == CloseRun(r, c)
  IN IF c \in Users THEN q
     ELSE IF Expired(q, t) THEN Completed(q)
     ELSE [q EXCEPT !.next = NextAfter(IF r.next = None THEN t ELSE r.next, t)]

\* finishRun: a run by hand only closes its entry.
Finished(r, c, t) ==
  LET q == CloseRun(r, c)
      after == IF r.next = None THEN t ELSE r.next
  IN IF c \in Users THEN q
     ELSE IF Expired(q, t) THEN Completed(q)
     ELSE [q EXCEPT !.next = IF q.status = "paused" THEN None ELSE NextAfter(after, t)]

Recovered_NextOnly(r, t) ==
  IF r.status = "active" /\ r.next # None /\ r.next <= t
  THEN [r EXCEPT !.next = NextAfter(r.next, t)] ELSE r

\* recoverInterruptedRuns: the first open run is marked as failed, and times
\* that went by are skipped.
Recovered(r, t) ==
  LET q == IF r.open = <<>> THEN r
           ELSE [r EXCEPT !.open = Tail(@), !.ended = IF @ < MaxRuns THEN @ + 1 ELSE @]
  IN IF q.status = "active" /\ q.next # None /\ q.next <= t
     THEN [q EXCEPT !.next = NextAfter(q.next, t)] ELSE q
-----------------------------------------------------------------------------
(* Files.                                                                  *)

\* list() sorts by the time of creation.
At(c) == CHOOSE s \in todo[c] : \A r \in todo[c] : s <= r
Writing(s) == {c \in Calls : fd[c] \in {"open", "shared"} /\ At(c) = s}

\* A file that is being written, or was left in part, does not parse.
Unreadable(s) == s \in garbled \/ Writing(s) # {}
Found(s) == disk[s] # None /\ ~Unreadable(s)

\* A schedule as create() stores it, with or without runOnCreate.
Created(n) == [status |-> "active", next |-> n, open |-> <<>>, ended |-> 0]

\* The schedules were created, and perhaps paused, before.
Init ==
  /\ now = 0 /\ up = TRUE /\ boot = 0
  /\ disk \in [Schedules -> {Created(n) : n \in {0, Period}} \cup {[Created(None) EXCEPT !.status = "paused"]}]
  /\ garbled = {} /\ running = {}
  /\ pc = [c \in Calls |-> "idle"] /\ todo = [c \in Calls |-> {}]
  /\ since = [c \in Calls |-> 0]
  /\ copy = [c \in Calls |-> [s \in Schedules |-> None]]
  /\ fd = [c \in Calls |-> "closed"] /\ retry = {}
  /\ edits = Edits /\ faults = Faults
  /\ outdated = {} /\ damaged = {} /\ twice = {}
  /\ held = {s \in Schedules : disk[s].status = "paused"}
  /\ fired = [s \in Schedules |-> {}] /\ timed = [s \in Schedules |-> 0]

\* The call is done with the schedule at hand and goes on to the next.
Leaves(c) ==
  /\ todo' = [todo EXCEPT ![c] = @ \ {At(c)}]
  /\ pc' = [pc EXCEPT ![c] = IF todo[c] = {At(c)} THEN "idle" ELSE "walking"]
  /\ copy' = [copy EXCEPT ![c][At(c)] = None]
  /\ since' = [since EXCEPT ![c] = IF todo[c] = {At(c)} THEN 0 ELSE @]

\* The call throws.
Throws(c) ==
  /\ todo' = [todo EXCEPT ![c] = {}]
  /\ pc' = [pc EXCEPT ![c] = "idle"]
  /\ copy' = [copy EXCEPT ![c] = [s \in Schedules |-> None]]
  /\ since' = [since EXCEPT ![c] = 0]
  /\ retry' = retry \ {c}

\* Whoever else holds a copy of the record now holds an old one.
Ages(c, s) ==
  outdated' = {d \in outdated : d # <<c, s>> /\ copy[d[1]][d[2]] # None}
              \cup {<<d, s>> : d \in {e \in Calls \ {c} : copy[e][s] # None}}

Opens(c) ==
  /\ pc[c] \in WritePhases /\ fd[c] = "closed"
  /\ fd' = [fd EXCEPT ![c] = "open"]
  /\ UNCHANGED <<now, up, boot, store, running, pc, todo, since, copy, retry, edits, faults, history>>

\* put() is through. Of two writes that were open together, the one that ends
\* last may leave the tail of the other behind its own record.
Lands(c) ==
  LET s == At(c) IN
  /\ fd[c] # "closed"
  /\ fd' = [d \in Calls |-> IF d = c THEN "closed"
                            ELSE IF d \in Writing(s) /\ fd[c] # "unlinked" THEN "shared" ELSE fd[d]]
  /\ IF fd[c] = "unlinked" THEN UNCHANGED <<store, outdated>>
     ELSE /\ disk' = [disk EXCEPT ![s] = copy[c][s]]
          /\ garbled' \in {garbled \ {s}} \cup (IF fd[c] = "shared" THEN {garbled \cup {s}} ELSE {})
          /\ Ages(c, s)
  /\ damaged' = damaged \cup (IF <<c, s>> \in outdated \/ s \in garbled' THEN {s} ELSE {})
-----------------------------------------------------------------------------
(* The timer.                                                              *)

TickLists_OneAtATime(t) ==
  /\ \A d \in Ticks : pc[d] = "idle"
  /\ up /\ (\A s \in Schedules : ~Unreadable(s)) /\ \E s \in Schedules : disk[s] # None
  /\ pc' = [pc EXCEPT ![t] = "walking"]
  /\ todo' = [todo EXCEPT ![t] = {s \in Schedules : disk[s] # None}]
  /\ since' = [since EXCEPT ![t] = now]
  /\ copy' = [copy EXCEPT ![t] = disk]
  /\ outdated' = {d \in outdated : d[1] # t}
  /\ UNCHANGED <<now, up, boot, store, running, fd, retry, edits, faults, damaged, fired, twice, timed, held>>

\* tick(): list() reads all files; if one cannot be read the tick is over. The
\* reads of the files are one step, with the reading of the clock.
TickLists(t) ==
  LET there == {s \in Schedules : disk[s] # None} IN
  /\ up /\ pc[t] = "idle" /\ there # {}
  /\ \A s \in Schedules : ~Unreadable(s)
  /\ pc' = [pc EXCEPT ![t] = "walking"]
  /\ todo' = [todo EXCEPT ![t] = there]
  /\ since' = [since EXCEPT ![t] = now]
  /\ copy' = [copy EXCEPT ![t] = disk]
  /\ outdated' = {d \in outdated : d[1] # t}
  /\ UNCHANGED <<now, up, boot, store, running, fd, retry, edits, faults, damaged, fired, twice, timed, held>>

Candidate(t) ==
  LET r == copy[t][At(t)]
  IN pc[t] = "walking" /\ r.status = "active" /\ r.next # None /\ At(t) \notin running

TickSkips(t) ==
  /\ pc[t] = "walking"
  /\ \/ ~Candidate(t)
     \/ Candidate(t) /\ ~Expired(copy[t][At(t)], since[t]) /\ copy[t][At(t)].next > since[t]
  /\ Leaves(t)
  /\ UNCHANGED <<now, up, boot, store, running, fd, retry, edits, faults, history>>

TickCompletes(t) ==
  /\ Candidate(t) /\ Expired(copy[t][At(t)], since[t])
  /\ pc' = [pc EXCEPT ![t] = "completing"]
  /\ copy' = [copy EXCEPT ![t][At(t)] = Completed(@)]
  /\ UNCHANGED <<now, up, boot, store, running, todo, since, fd, retry, edits, faults, history>>

\* runSchedule(): taken before the first await.
TickRuns(t) ==
  LET r == copy[t][At(t)] IN
  /\ Candidate(t) /\ ~Expired(r, since[t]) /\ r.next <= since[t]
  /\ running' = running \cup {At(t)}
  /\ pc' = [pc EXCEPT ![t] = "recording"]
  /\ copy' = [copy EXCEPT ![t][At(t)] = WithRun(r, t)]
  /\ UNCHANGED <<now, up, boot, store, todo, since, fd, retry, edits, faults, history>>

CompletionLands(t) ==
  /\ pc[t] = "completing" /\ Lands(t) /\ Leaves(t)
  /\ UNCHANGED <<now, up, boot, running, retry, edits, faults, fired, twice, timed, held>>
-----------------------------------------------------------------------------
(* Runs.                                                                   *)

\* The record with the new run is written; the runner starts.
RunStarts(c) ==
  LET s == At(c)
      slot == copy[c][s].next
  IN /\ pc[c] = "recording" /\ Lands(c)
     /\ pc' = [pc EXCEPT ![c] = "running"]
     /\ IF c \in Users THEN UNCHANGED <<fired, twice, timed>>
        ELSE /\ fired' = [fired EXCEPT ![s] = @ \cup {slot}]
             /\ twice' = twice \cup (IF slot \in fired[s] THEN {s} ELSE {})
             /\ timed' = [timed EXCEPT ![s] = IF @ > MaxRuns THEN @ ELSE @ + 1]
     /\ UNCHANGED <<now, up, boot, running, todo, since, copy, retry, edits, faults, held>>

\* The runner answers or throws; a run that failed is finished only once.
RunnerEnds(c) ==
  /\ pc[c] = "running"
  /\ pc' = [pc EXCEPT ![c] = "inspecting"]
  /\ copy' = [copy EXCEPT ![c][At(c)] = None]
  /\ retry' \in {retry, retry \cup {c}}
  /\ UNCHANGED <<now, up, boot, store, running, todo, since, fd, edits, faults, history>>

\* finishRun() could not read or write the record: the catch tries once more,
\* then the error leaves runSchedule, whose finally gives the schedule free.
FinishFails(c) ==
  IF c \in retry
  THEN Throws(c) /\ running' = running \ {At(c)}
  ELSE /\ retry' = retry \cup {c} /\ pc' = [pc EXCEPT ![c] = "inspecting"]
       /\ UNCHANGED <<running, todo, copy, since>>

FinishReads(c) ==
  LET s == At(c) IN
  /\ pc[c] = "inspecting"
  /\ IF Found(s)
     THEN /\ pc' = [pc EXCEPT ![c] = "finishing"]
          /\ copy' = [copy EXCEPT ![c][s] = Finished(disk[s], c, now)]
          /\ outdated' = outdated \ {<<c, s>>}
          /\ UNCHANGED <<running, todo, since, retry, damaged>>
     ELSE /\ FinishFails(c)
          /\ damaged' = damaged \cup (IF c \in retry THEN {s} ELSE {})
          /\ UNCHANGED outdated
  /\ UNCHANGED <<now, up, boot, store, fd, edits, faults, fired, twice, timed, held>>

FinishLands(c) ==
  /\ pc[c] = "finishing" /\ Lands(c) /\ Leaves(c)
  /\ running' = running \ {At(c)} /\ retry' = retry \ {c}
  /\ UNCHANGED <<now, up, boot, edits, faults, fired, twice, timed, held>>
-----------------------------------------------------------------------------
(* Clients.                                                                *)

Reads(u, s, phase, record) ==
  /\ up /\ edits > 0 /\ pc[u] = "idle" /\ Found(s)
  /\ edits' = edits - 1
  /\ pc' = [pc EXCEPT ![u] = phase]
  /\ todo' = [todo EXCEPT ![u] = {s}]
  /\ copy' = [copy EXCEPT ![u][s] = record]
  /\ outdated' = outdated \ {<<u, s>>}
  /\ UNCHANGED <<now, up, boot, store, since, fd, retry, faults, damaged, fired, twice, timed>>

Pause(u, s) ==
  /\ disk[s] # None /\ disk[s].status = "active"
  /\ Reads(u, s, "pausing", [disk[s] EXCEPT !.status = "paused", !.next = None])
  /\ UNCHANGED <<running, held>>

Resume(u, s) ==
  /\ disk[s] # None /\ disk[s].status = "paused"
  /\ Reads(u, s, "editing", [disk[s] EXCEPT !.status = "active", !.next = now + Period])
  /\ held' = held \ {s} /\ UNCHANGED running

\* update() of the cadence, or of a field the timer does not look at.  An edit of
\* maxRuns or expiresAt is left out: both stay as the schedule was created.
Update(u, s) ==
  /\ disk[s] # None
  /\ \E cadence \in BOOLEAN :
       Reads(u, s, "editing",
             IF ~cadence THEN disk[s]
             ELSE [disk[s] EXCEPT !.next = IF disk[s].status = "active" THEN now + Period ELSE None])
  /\ UNCHANGED <<running, held>>

RunOnce_Unchecked(u, s) ==
  /\ disk[s] # None /\ disk[s].status # "completed"
  /\ Reads(u, s, "recording", WithRun(disk[s], u))
  /\ running' = running \cup {s} /\ UNCHANGED held

\* inspect(), and after its await the test against running, are one step: a write
\* in between makes this copy an older one, as a write before RunStarts does.
RunOnce(u, s) ==
  /\ disk[s] # None /\ disk[s].status # "completed" /\ s \notin running
  /\ Reads(u, s, "recording", WithRun(disk[s], u))
  /\ running' = running \cup {s} /\ UNCHANGED held

EditLands(u) ==
  /\ pc[u] \in {"pausing", "editing"} /\ Lands(u) /\ Leaves(u)
  /\ held' = IF pc[u] = "pausing" /\ fd[u] # "unlinked" THEN held \cup {At(u)} ELSE held
  /\ UNCHANGED <<now, up, boot, running, retry, edits, faults, fired, twice, timed>>

\* rm(): a write that has the file open ends in the unlinked file.
Delete(s) ==
  /\ up /\ edits > 0 /\ edits' = edits - 1
  /\ disk' = [disk EXCEPT ![s] = None] /\ garbled' = garbled \ {s}
  /\ fd' = [c \in Calls |-> IF c \in Writing(s) THEN "unlinked" ELSE fd[c]]
  /\ outdated' = outdated \cup {<<c, s>> : c \in {d \in Calls : copy[d][s] # None}}
  /\ held' = held \ {s}
  /\ UNCHANGED <<now, up, boot, running, pc, todo, since, copy, retry, faults, damaged, fired, twice, timed>>
-----------------------------------------------------------------------------
(* Time and failures.                                                      *)

Clock == now < Horizon /\ now' = now + 1
         /\ UNCHANGED <<up, boot, store, running, calls, edits, faults, history>>

\* A write fails. The first put of runSchedule stands before its try: nobody
\* takes the schedule from runningScheduleIds again.
PutFails(c) ==
  /\ faults > 0 /\ faults' = faults - 1
  /\ pc[c] \in WritePhases /\ fd[c] # "unlinked"
  /\ IF pc[c] = "finishing" THEN FinishFails(c) ELSE Throws(c) /\ UNCHANGED running
  /\ fd' = [fd EXCEPT ![c] = "closed"]
  /\ garbled' = garbled \cup {s \in Schedules : c \in Writing(s)}
  /\ damaged' = damaged \cup {At(c)}
  /\ UNCHANGED <<now, up, boot, disk, edits, outdated, fired, twice, timed, held>>

Crash ==
  /\ up /\ faults > 0 /\ faults' = faults - 1 /\ up' = FALSE
  /\ garbled' = garbled \cup {s \in Schedules : Writing(s) # {}}
  /\ damaged' = damaged \cup {s \in Schedules : Writing(s) # {}}
  /\ running' = {} /\ retry' = {} /\ outdated' = {}
  /\ pc' = [c \in Calls |-> "idle"] /\ todo' = [c \in Calls |-> {}]
  /\ copy' = [c \in Calls |-> [s \in Schedules |-> None]]
  /\ fd' = [c \in Calls |-> "closed"]
  /\ since' = [c \in Calls |-> 0]
  /\ UNCHANGED <<now, boot, disk, edits, fired, twice, timed, held>>

\* start(), before anything else can call: it rejects if a file does not parse.
Start ==
  /\ ~up /\ garbled = {} /\ up' = TRUE /\ boot' = now
  /\ disk' = [s \in Schedules |-> IF disk[s] = None THEN None ELSE Recovered(disk[s], now)]
  /\ UNCHANGED <<now, garbled, running, calls, edits, faults, history>>
-----------------------------------------------------------------------------
Steps(c) == Opens(c) \/ RunStarts(c) \/ FinishReads(c) \/ FinishLands(c)
TickSteps(t) ==
  TickSkips(t) \/ TickCompletes(t) \/ TickRuns(t) \/ CompletionLands(t) \/ Steps(t)
UserSteps(u) == EditLands(u) \/ Steps(u)

Next ==
  \/ \E t \in Ticks : TickLists(t) \/ TickSteps(t)
  \/ \E u \in Users : UserSteps(u)
  \/ \E u \in Users, s \in Schedules : Pause(u, s) \/ Resume(u, s) \/ Update(u, s) \/ RunOnce(u, s)
  \/ \E c \in Calls : RunnerEnds(c) \/ PutFails(c)
  \/ \E s \in Schedules : Delete(s)
  \/ Clock \/ Crash \/ Start

Spec == Init /\ [][Next]_vars

\* The timer fires and file operations end. Nothing is assumed of the runner:
\* an agent may work for hours.
Fairness ==
  /\ WF_vars(\E t \in Ticks : TickLists(t))
  /\ \A t \in Ticks : WF_vars(TickSteps(t))
  /\ \A u \in Users : WF_vars(UserSteps(u))

FairSpec == Spec /\ Fairness
-----------------------------------------------------------------------------
(* Safety.                                                                 *)

\* Two runs of one schedule never overlap, by the timer or by hand, and the
\* set of running schedules names exactly the runs under way; only a schedule
\* whose record could not be written may stay in it.
RunExclusive ==
  \A s \in Schedules :
    LET runners == {c \in Calls : pc[c] \in RunPhases /\ At(c) = s}
    IN /\ \A c, d \in runners : c = d
       /\ runners # {} => s \in running
       /\ s \in running => runners # {} \/ s \in damaged

\* While no write of a record is lost, a due time is fired once.
SlotFiresOnce == \A s \in Schedules : s \in twice => s \in damaged

\* ... the timer starts no run beyond maxRuns,
RunsWithinMax == \A s \in Schedules : timed[s] > MaxRuns => s \in damaged

\* ... a record says "running" only of a run under way,
NoZombieRun ==
  up => \A s \in Schedules \ damaged :
    disk[s] # None => \A i \in DOMAIN disk[s].open :
      LET c == disk[s].open[i] IN pc[c] \in RunPhases /\ At(c) = s

\* ... and what a client paused stays paused until it is resumed, through the end
\* of a run that was under way and any other write that read the record after the
\* pause.  A write from an older copy undoes the pause (service.ts:436): it damages
\* the record.
PauseKept ==
  \A s \in held \ damaged :
    disk[s] # None => disk[s].status # "active" /\ disk[s].next = None

\* A daemon that was down runs nothing for the times it missed.
NoCatchUp ==
  \A t \in Ticks :
    pc[t] \in {"recording", "running"} => copy[t][At(t)].next >= boot

\* What the timer runs is what the records say.
TimerExact == SlotFiresOnce /\ RunsWithinMax /\ NoCatchUp

\* Liveness: a due schedule is run, completed or edited, also while the run of
\* another one never ends, unless a file stays unreadable.
DueFires ==
  \A s \in Schedules :
    LET due == up /\ disk[s] # None /\ disk[s].status = "active" /\ disk[s].next <= now /\ s \notin running
    IN due ~> (~due \/ [](garbled # {}))
=============================================================================
