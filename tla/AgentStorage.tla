---------------------------- MODULE AgentStorage -----------------------------
(***************************************************************************)
(* The durable record of one agent (server/agent/agent-storage.ts): the    *)
(* chain of queued writes, the cache that readers see, the record files,   *)
(* the delete fence, and a daemon that may crash between any two steps.    *)
(* Records of different agents do not interact, so one agent is modelled.  *)
(*                                                                         *)
(* A call reads a record and later queues a changed copy of it.  Promise   *)
(* continuations of several calls interleave between the two; requests and *)
(* I/O completions wait for them (Draining).                               *)
(***************************************************************************)
EXTENDS Naturals, Sequences, FiniteSets

CONSTANTS Calls,           \* calls of the storage, by whatever component
          None,            \* no record
          Kinds,           \* the operations that callers use
          Crashes          \* bound: crashes of the daemon

\* applySnapshot, the same with a title, setGeneratedTitle, archiveAgent, and
\* the calls on a stored record: markRecordArchived, unarchiveSnapshot and
\* updateAgentMetadata; delete.
AllKinds == {"snapshot", "title", "generated", "archive",
             "archiveStored", "unarchive", "rename", "delete"}

ASSUME StorageAssumption ==
  /\ Kinds \subseteq AllKinds
  /\ Crashes \in Nat

VARIABLES
  up, crashes,             \* the daemon runs; crashes so far
  live,                    \* this daemon has loaded the agent, open or closed
  disk,                    \* the record file in each directory
  refused,                 \* the file system has refused an unlink
  cache, pathById, indexed,\* in memory: record, its file, all its files
  deleting,                \* the delete fence
  writes, first,           \* queued writes, and how far the first has come
  pc, kind, base, ahead    \* per call: place, operation, record read, writes awaited

memory == <<cache, pathById, indexed>>
callVars == <<pc, kind, base, ahead>>
vars == <<up, crashes, live, disk, refused, memory, deleting, writes, first, callVars>>

\* A record is in the directory of its project; one that an older version wrote
\* is in the root directory until its next write.
Dirs == {"root", "project"}
Records == [by : Calls \cup {None}, title : {"none", "user", "generated"}, archived : BOOLEAN]
Files == Records \cup {None}
ASSUME NoneAssumption == None \notin Records \cup Dirs
\* A write waits for those before it, awaits writeFileAtomic, then cleans up.
Stages == {"queued", "writing", "landed"}
Ended == {"done", "failed", "lost"}
Places == {"new", "closing", "waiting", "reading", "queueing", "queued", "unlinking"} \cup Ended

TypeOK ==
  /\ up \in BOOLEAN /\ live \in BOOLEAN /\ refused \in BOOLEAN
  /\ deleting \in BOOLEAN /\ first \in Stages
  /\ crashes \in 0..Crashes
  /\ disk \in [Dirs -> Files]
  /\ cache \in Files
  /\ pathById \in Dirs \cup {None}
  /\ indexed \subseteq Dirs
  /\ writes \in Seq([by : Calls, record : Records])
  /\ first # "queued" => writes # <<>>
  /\ pc \in [Calls -> Places]
  /\ kind \in [Calls -> AllKinds]
  /\ base \in [Calls -> Files]
  /\ ahead \in [Calls -> Nat]

\* scanDisk reads the root directory first, so a project file overrides it.
Loaded_RootWins(files) == IF files["root"] # None THEN "root"
                          ELSE IF files["project"] # None THEN "project" ELSE None
Loaded(files) == IF files["project"] # None THEN "project"
                 ELSE IF files["root"] # None THEN "root" ELSE None
Loadable(files) == IF Loaded(files) = None THEN None ELSE files[Loaded(files)]
Present(files) == {d \in Dirs : files[d] # None}

Init ==
  /\ up = TRUE /\ crashes = 0 /\ live = TRUE /\ deleting = FALSE /\ refused = FALSE
  /\ \E d \in Dirs, title \in {"none", "user"}, archived \in BOOLEAN :
       disk = [e \in Dirs |-> IF e = d THEN [by |-> None, title |-> title, archived |-> archived]
                                       ELSE None]
  /\ cache = Loadable(disk) /\ pathById = Loaded(disk) /\ indexed = Present(disk)
  /\ writes = <<>> /\ first = "queued"
  /\ pc = [c \in Calls |-> "new"]
  /\ kind = [c \in Calls |-> "snapshot"]
  /\ base = [c \in Calls |-> None]
  /\ ahead = [c \in Calls |-> 0]

-----------------------------------------------------------------------------
(* A call up to its queued write.                                          *)

\* Promise continuations that run before the next request or I/O completion.
Starting == up /\ writes # <<>> /\ first = "queued"
Draining == \/ Starting
            \/ \E c \in Calls : \/ pc[c] \in {"reading", "queueing"}
                                \/ pc[c] = "waiting" /\ ahead[c] = 0
Idle == up /\ ~Draining

\* Operations on a loaded agent; those that await the last write queued.
NeedsLive == {"snapshot", "title", "generated", "archive"}
Waits == NeedsLive

Call(c, k) ==
  /\ Idle /\ pc[c] = "new"
  /\ k \in NeedsLive => live
  /\ kind' = [kind EXCEPT ![c] = k]
  /\ pc' = [pc EXCEPT ![c] = IF k = "delete" THEN "closing"
                             ELSE IF k \in Waits THEN "waiting" ELSE "reading"]
  /\ ahead' = [ahead EXCEPT ![c] = Len(writes)]
  /\ deleting' = (deleting \/ k = "delete")      \* beginDelete, before closeAgent
  /\ UNCHANGED <<up, crashes, live, disk, refused, memory, writes, first, base>>

\* What the call makes of the record it read; a first snapshot starts a record.
\* archiveAgent applies a snapshot, then continues as archiveStored.
Changed(c, record) ==
  LET start == IF record = None THEN [title |-> "none", archived |-> FALSE] ELSE record
  IN [by |-> c,
      title |-> CASE kind[c] \in {"title", "rename"} -> "user"
                  [] kind[c] = "generated" -> "generated"
                  [] OTHER -> start.title,
      archived |-> CASE kind[c] = "archiveStored" -> TRUE
                     [] kind[c] = "unarchive" -> FALSE
                     [] OTHER -> start.archived]

\* A stored record is missing, not archived or titled by the user: no write.
Refuses(k, record) == record = None /\ k \in {"generated", "archiveStored", "rename"}
NothingToDo(k, record) ==
  \/ k = "unarchive" /\ (IF record = None THEN TRUE ELSE ~record.archived)
  \/ k = "generated" /\ (IF record = None THEN FALSE ELSE record.title = "user")

Reads(c) == /\ pc[c] = "reading" \/ (pc[c] = "waiting" /\ ahead[c] = 0 /\ kind[c] \in Waits)
            /\ base' = [base EXCEPT ![c] = cache]

Read(c) ==
  /\ Reads(c)
  /\ pc' = [pc EXCEPT ![c] = IF Refuses(kind[c], cache) THEN "failed"
                             ELSE IF NothingToDo(kind[c], cache) THEN "done" ELSE "queueing"]
  /\ UNCHANGED <<up, crashes, live, disk, refused, memory, deleting, writes, first, kind, ahead>>

\* queueRecordWrite
Queue(c) ==
  /\ pc[c] = "queueing"
  /\ writes' = Append(writes, [by |-> c, record |-> Changed(c, base[c])])
  /\ pc' = [pc EXCEPT ![c] = "queued"]
  /\ UNCHANGED <<up, crashes, live, disk, refused, memory, deleting, first, kind, base, ahead>>

-----------------------------------------------------------------------------
(* The chain of writes.                                                    *)

ChainAdvances_DropsFollowers == writes' = <<>> /\ first' = "queued"
ChainAdvances == writes' = Tail(writes) /\ first' = "queued"

\* The first write ended: its caller continues, and so does whoever awaited it.
\* remove() awaits without a catch, so it fails with the write.
FirstEnds(how) ==
  LET w == Head(writes).by
      archives == kind[w] = "archive" /\ how = "done"
  IN /\ ChainAdvances
     /\ kind' = [kind EXCEPT ![w] = IF archives THEN "archiveStored" ELSE @]
     /\ pc' = [c \in Calls |->
                 CASE c = w -> IF archives THEN "reading" ELSE how
                   [] c # w /\ how = "failed" /\ pc[c] = "waiting" /\ ahead[c] = 1
                        /\ kind[c] = "delete" -> "failed"
                   [] OTHER -> pc[c]]
     /\ ahead' = [c \in Calls |-> IF ahead[c] = 0 THEN 0 ELSE ahead[c] - 1]

\* Behind the fence a queued write does nothing. The fence is read when the write
\* starts: one that has passed it lands although a delete begins meanwhile.
Fenced == deleting

WriteStarts ==
  /\ Starting /\ ~Fenced
  /\ first' = "writing"
  /\ UNCHANGED <<up, crashes, live, disk, refused, memory, deleting, writes, callVars>>

WriteSkipped ==
  /\ Starting /\ Fenced
  /\ FirstEnds("done")
  /\ UNCHANGED <<up, crashes, live, disk, refused, memory, deleting, base>>

\* writeFileAtomic: the file is replaced, or stays as it was.
Lands == indexed' = indexed \cup {"project"}

WriteLands ==
  /\ Idle /\ first = "writing"
  /\ first' = "landed"
  /\ disk' = [disk EXCEPT !["project"] = Head(writes).record]
  /\ Lands
  /\ UNCHANGED <<up, crashes, live, refused, cache, pathById, deleting, writes, callVars>>

WriteFails ==
  /\ Idle /\ first = "writing"
  /\ FirstEnds("failed")
  /\ UNCHANGED <<up, crashes, live, disk, refused, memory, deleting, base>>

\* The file of an older version is removed, then readers see the record.
CleansUp ==
  IF pathById \in {None, "project"}
  THEN UNCHANGED <<disk, indexed, refused>>
  ELSE /\ \/ disk' = [disk EXCEPT ![pathById] = None] /\ UNCHANGED refused
          \/ refused' = TRUE /\ UNCHANGED disk
       /\ indexed' = indexed \ {pathById}

WriteSettles ==
  /\ Idle /\ first = "landed"
  /\ CleansUp
  /\ cache' = Head(writes).record
  /\ pathById' = "project"
  /\ FirstEnds("done")
  /\ UNCHANGED <<up, crashes, live, deleting, base>>

-----------------------------------------------------------------------------
(* Delete, after its fence: the agent is closed, then remove().            *)

RemoveCall_NotAwaiting(c) ==
  /\ Idle /\ pc[c] = "closing"
  /\ pc' = [pc EXCEPT ![c] = "waiting"]
  /\ ahead' = [ahead EXCEPT ![c] = 0]
  /\ UNCHANGED <<up, crashes, live, disk, refused, memory, deleting, writes, first, kind, base>>
RemoveCall(c) ==
  /\ Idle /\ pc[c] = "closing"
  /\ pc' = [pc EXCEPT ![c] = "waiting"]
  /\ ahead' = [ahead EXCEPT ![c] = Len(writes)]
  /\ UNCHANGED <<up, crashes, live, disk, refused, memory, deleting, writes, first, kind, base>>

\* remove() has waited for the last write queued.
RemoveProceeds(c) ==
  /\ pc[c] = "waiting" /\ kind[c] = "delete" /\ ahead[c] = 0
  /\ pc' = [pc EXCEPT ![c] = "unlinking"]
  /\ UNCHANGED <<up, crashes, live, disk, refused, memory, deleting, writes, first, kind, base, ahead>>

RemoveUnlinks(c, d) ==
  /\ Idle /\ pc[c] = "unlinking" /\ d \in indexed /\ disk[d] # None
  /\ disk' = [disk EXCEPT ![d] = None]
  /\ UNCHANGED <<up, crashes, live, refused, memory, deleting, writes, first, callVars>>

\* A refused unlink is logged and forgotten.
RemoveReturns(c) ==
  /\ Idle /\ pc[c] = "unlinking"
  /\ refused' = (refused \/ \E d \in indexed : disk[d] # None)
  /\ cache' = None /\ pathById' = None /\ indexed' = {}
  /\ pc' = [pc EXCEPT ![c] = "done"]
  /\ UNCHANGED <<up, crashes, live, disk, deleting, writes, first, kind, base, ahead>>

-----------------------------------------------------------------------------
(* The daemon.                                                             *)

Crash ==
  /\ up /\ crashes < Crashes
  /\ up' = FALSE /\ crashes' = crashes + 1
  /\ live' = FALSE /\ deleting' = FALSE /\ writes' = <<>> /\ first' = "queued"
  /\ cache' = None /\ pathById' = None /\ indexed' = {}
  /\ pc' = [c \in Calls |-> IF pc[c] \in {"new"} \cup Ended THEN pc[c] ELSE "lost"]
  /\ UNCHANGED <<disk, refused, kind, base, ahead>>

\* doLoad
Restart ==
  /\ ~up /\ up' = TRUE
  /\ cache' = Loadable(disk) /\ pathById' = Loaded(disk) /\ indexed' = Present(disk)
  /\ UNCHANGED <<crashes, live, disk, refused, deleting, writes, first, callVars>>

\* The agent is loaded from its record.
Resume ==
  /\ Idle /\ ~live /\ cache # None
  /\ live' = TRUE
  /\ UNCHANGED <<up, crashes, disk, refused, memory, deleting, writes, first, callVars>>

WriteNext == WriteStarts \/ WriteSkipped \/ WriteLands \/ WriteFails \/ WriteSettles
Proceed(c) == \/ Read(c) \/ Queue(c)
              \/ RemoveCall(c) \/ RemoveProceeds(c) \/ RemoveReturns(c)
              \/ \E d \in Dirs : RemoveUnlinks(c, d)

Next ==
  \/ \E c \in Calls : \/ \E k \in Kinds : Call(c, k)
                      \/ Proceed(c)
  \/ WriteNext \/ Crash \/ Restart \/ Resume

Spec == Init /\ [][Next]_vars

-----------------------------------------------------------------------------
(* Properties.                                                             *)

Unlinking == \E c \in Calls : pc[c] = "unlinking"

\* What a restart would load is what readers see now, or the write that just
\* replaced its file: no crash loses a settled write or brings back an older
\* record (writeRecord replaces before it unlinks, scanDisk reads in that order).
\* With a refused unlink that is only so while there is a record.
RestartReadsNewest ==
  up /\ ~Unlinking /\ (refused => cache # None \/ first = "landed") =>
    Loadable(disk) = IF first = "landed" THEN Head(writes).record ELSE cache

\* Every record file is in the index that remove() unlinks, also after a write
\* moved the record between directories and after a restart between the two.
IndexCoversDisk == up /\ ~refused => Present(disk) \subseteq indexed

\* Files, cache and index agree, at every await and every crash.
RecordsAgree == RestartReadsNewest /\ IndexCoversDisk

\* Once a delete returned, no late snapshot, no queued write, no write that had
\* passed the fence before it closed and no restart brings the record back
\* (beginDelete, queueRecordWrite, remove).
DeletedStaysDeleted ==
  ~refused /\ (\E c \in Calls : kind[c] = "delete" /\ pc[c] = "done") =>
    Loadable(disk) = None /\ cache = None

\* Every call that waits has a write to wait for, also after writes failed, were
\* fenced or landed behind it: no failed write takes its followers with it, and
\* once the writes ahead end, every call continues.
WaitersHaveWrites ==
  \A c \in Calls : /\ pc[c] = "queued" <=> \E i \in 1..Len(writes) : writes[i].by = c
                   /\ pc[c] = "waiting" => ahead[c] <= Len(writes)
=============================================================================
