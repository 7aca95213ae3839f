------------------------- MODULE AgentStorageProofs -------------------------
(***************************************************************************)
(* Proofs about AgentStorage, for any set of calls, any operations they    *)
(* use and any number of crashes.                                          *)
(***************************************************************************)
EXTENDS AgentStorage, SequenceTheorems, TLAPS

(* Where the calls are: what has read a stored record is no delete, and a  *)
(* delete under way has its fence.                                         *)
CallsShape ==
  \A c \in Calls :
    /\ pc[c] \in {"reading", "queueing", "queued"} => kind[c] # "delete"
    /\ pc[c] = "reading" => kind[c] \notin NeedsLive
    /\ pc[c] \in {"closing", "waiting", "unlinking"} /\ kind[c] = "delete" => deleting
    /\ pc[c] = "closing" => kind[c] = "delete"
    /\ pc[c] = "unlinking" => kind[c] = "delete" /\ first = "queued"
    /\ pc[c] = "waiting" /\ kind[c] = "delete" /\ first # "queued" => ahead[c] # 0

(* The chain holds one write of each call that is queued.                  *)
ChainShape ==
  /\ \A i \in 1..Len(writes) : pc[writes[i].by] = "queued"
  /\ \A i, j \in 1..Len(writes) : writes[i].by = writes[j].by => i = j
  /\ first = "landed" => disk["project"] = Head(writes).record

(* A daemon that is down holds nothing.                                    *)
DownShape ==
  ~up => /\ ~live /\ ~deleting /\ first = "queued" /\ writes = <<>>
         /\ \A c \in Calls : pc[c] \in {"new"} \cup Ended

(* After a delete either its fence stands, or the daemon was restarted and *)
(* has no agent, no write and no call that could make one.                 *)
DeleteDone == ~refused /\ \E c \in Calls : kind[c] = "delete" /\ pc[c] = "done"

Quiet ==
  /\ ~live /\ writes = <<>>
  /\ \A c \in Calls : /\ pc[c] \notin {"queueing", "queued"}
                      /\ pc[c] = "waiting" => kind[c] = "delete"

AfterDelete ==
  DeleteDone =>
    /\ disk["root"] = None /\ disk["project"] = None /\ cache = None /\ first = "queued"
    /\ up /\ ~deleting => Quiet

IInv == /\ TypeOK /\ CallsShape /\ ChainShape /\ DownShape
        /\ IndexCoversDisk /\ RestartReadsNewest /\ AfterDelete /\ WaitersHaveWrites

Entry == [by : Calls, record : Records]

(* Facts about the chain, in the form the steps use.                       *)
LEMMA ChainTail ==
  ASSUME NEW s \in Seq(Entry), s # <<>>
  PROVE  /\ Head(s) \in Entry /\ Head(s) = s[1] /\ Len(s) \in Nat /\ Len(s) >= 1
         /\ Tail(s) \in Seq(Entry) /\ Len(Tail(s)) = Len(s) - 1
         /\ \A i \in 1..Len(Tail(s)) : i + 1 \in 1..Len(s) /\ Tail(s)[i] = s[i + 1]
<1>1. Len(s) \in Nat /\ Len(s) >= 1 /\ Head(s) = s[1] /\ Head(s) \in Entry
  BY HeadTailProperties, EmptySeq, LenProperties
<1>2. Tail(s) \in Seq(Entry) /\ Len(Tail(s)) = Len(s) - 1
  BY HeadTailProperties
<1>3. \A i \in 1..Len(Tail(s)) : Tail(s)[i] = s[i + 1]
  BY HeadTailProperties
<1> QED
  BY <1>1, <1>2, <1>3

LEMMA ChainAppend ==
  ASSUME NEW s \in Seq(Entry), NEW e \in Entry
  PROVE  /\ Append(s, e) \in Seq(Entry) /\ Len(s) \in Nat /\ Len(Append(s, e)) = Len(s) + 1
         /\ \A i \in 1..Len(s) : Append(s, e)[i] = s[i]
         /\ Append(s, e)[Len(s) + 1] = e
         /\ Append(s, e) # <<>>
         /\ s # <<>> => Head(Append(s, e)) = Head(s)
<1>1. /\ Append(s, e) \in Seq(Entry) /\ Len(s) \in Nat /\ Len(Append(s, e)) = Len(s) + 1
      /\ \A i \in 1..Len(s) : Append(s, e)[i] = s[i]
      /\ Append(s, e)[Len(s) + 1] = e
  BY AppendProperties, LenProperties
<1>2. Append(s, e) # <<>>
  BY <1>1, EmptySeq
<1>3. ASSUME s # <<>> PROVE Head(Append(s, e)) = Head(s)
  <2>1. Head(s) = s[1] /\ 1 \in 1..Len(s)
    BY <1>3, ChainTail
  <2>2. Head(Append(s, e)) = Append(s, e)[1]
    BY <1>1, <1>2, ChainTail
  <2> QED
    BY <1>1, <2>1, <2>2
<1> QED
  BY <1>1, <1>2, <1>3

LEMMA ChainEntries == TypeOK => \A i \in 1..Len(writes) : writes[i] \in Entry /\ writes[i].by \in Calls
<1> SUFFICES ASSUME TypeOK, NEW i \in 1..Len(writes) PROVE writes[i] \in Entry
  BY DEF Entry
<1> QED
  BY ElementOfSeq DEF TypeOK, Entry

LEMMA EmptyChain == <<>> \in Seq(Entry) /\ Len(<<>>) = 0
BY EmptySeq

(* The record a call queues.                                               *)
LEMMA ChangedIsRecord ==
  ASSUME TypeOK, NEW c \in Calls
  PROVE  Changed(c, base[c]) \in Records
<1>1. base[c] \in Files
  BY DEF TypeOK
<1>2. CASE base[c] = None
  BY <1>2 DEF Changed, Records
<1>3. CASE base[c] # None
  <2>1. base[c] \in Records
    BY <1>1, <1>3 DEF Files
  <2> QED
    BY <2>1, <1>3 DEF Changed, Records
<1> QED
  BY <1>2, <1>3

(* What the first write leaves when it ends.                               *)
LEMMA FirstEndsFacts ==
  ASSUME TypeOK, ChainShape, writes # <<>>, NEW how \in {"done", "failed"}, FirstEnds(how)
  PROVE  /\ Head(writes) \in Entry /\ Head(writes).by \in Calls /\ Head(writes).record \in Records
         /\ pc[Head(writes).by] = "queued"
         /\ first' = "queued" /\ writes' = Tail(writes)
         /\ pc' \in [Calls -> Places] /\ kind' \in [Calls -> AllKinds] /\ ahead' \in [Calls -> Nat]
         /\ \A c \in Calls : ahead'[c] = IF ahead[c] = 0 THEN 0 ELSE ahead[c] - 1
         /\ \A c \in Calls : c # Head(writes).by =>
              /\ kind'[c] = kind[c]
              /\ \/ pc'[c] = pc[c]
                 \/ pc[c] = "waiting" /\ kind[c] = "delete" /\ pc'[c] = "failed"
         /\ \/ pc'[Head(writes).by] = how /\ kind'[Head(writes).by] = kind[Head(writes).by]
            \/ pc'[Head(writes).by] = "reading" /\ kind'[Head(writes).by] = "archiveStored"
<1> DEFINE w == Head(writes).by
<1>1. Head(writes) \in Entry /\ Head(writes) = writes[1] /\ 1 \in 1..Len(writes)
  <2>1. writes \in Seq(Entry)
    BY DEF TypeOK, Entry
  <2>2. Head(writes) \in Entry /\ Head(writes) = writes[1] /\ Len(writes) \in Nat /\ Len(writes) >= 1
    BY <2>1, ChainTail
  <2> QED
    BY <2>2
<1>2. w \in Calls /\ Head(writes).record \in Records /\ pc[w] = "queued"
  BY <1>1 DEF Entry, ChainShape
<1>3. first' = "queued" /\ writes' = Tail(writes)
  BY DEF FirstEnds, ChainAdvances
<1>4. kind' = [kind EXCEPT ![w] = IF kind[w] = "archive" /\ how = "done" THEN "archiveStored" ELSE @]
  BY DEF FirstEnds
<1>5. pc' = [c \in Calls |->
               CASE c = w -> IF kind[w] = "archive" /\ how = "done" THEN "reading" ELSE how
                 [] c # w /\ how = "failed" /\ pc[c] = "waiting" /\ ahead[c] = 1
                      /\ kind[c] = "delete" -> "failed"
                 [] OTHER -> pc[c]]
  BY DEF FirstEnds
<1>6. ahead' = [c \in Calls |-> IF ahead[c] = 0 THEN 0 ELSE ahead[c] - 1]
  BY DEF FirstEnds
<1> HIDE DEF w
<1>7. kind' \in [Calls -> AllKinds]
  BY <1>2, <1>4 DEF TypeOK, AllKinds
<1>8. pc' \in [Calls -> Places]
  BY <1>2, <1>5 DEF TypeOK, Places, Ended
<1>9. ahead' \in [Calls -> Nat] /\ \A c \in Calls : ahead'[c] = IF ahead[c] = 0 THEN 0 ELSE ahead[c] - 1
  BY <1>6 DEF TypeOK
<1>10. \A c \in Calls : c # w =>
         /\ kind'[c] = kind[c]
         /\ pc'[c] = pc[c] \/ (pc[c] = "waiting" /\ kind[c] = "delete" /\ pc'[c] = "failed")
  BY <1>2, <1>4, <1>5 DEF TypeOK
<1>11. \/ pc'[w] = how /\ kind'[w] = kind[w]
       \/ pc'[w] = "reading" /\ kind'[w] = "archiveStored"
  BY <1>2, <1>4, <1>5 DEF TypeOK
<1> QED
  BY <1>1, <1>2, <1>3, <1>7, <1>8, <1>9, <1>10, <1>11 DEF w

(* Every variable keeps its type.                                          *)
LEMMA TypeStep == IInv /\ [Next]_vars => TypeOK'
<1> SUFFICES ASSUME IInv, [Next]_vars PROVE TypeOK'
  OBVIOUS
<1>1. ASSUME NEW c \in Calls, NEW k \in Kinds, Call(c, k) PROVE TypeOK'
  BY <1>1, StorageAssumption DEF Call, memory, callVars, IInv, TypeOK, Stages, AllKinds, Places, Ended, NeedsLive, Waits, Idle
<1>2. ASSUME NEW c \in Calls, Read(c) PROVE TypeOK'
  BY <1>2 DEF Read, Reads, memory, callVars, IInv, TypeOK, Stages, Places, Ended
<1>3. ASSUME NEW c \in Calls, Queue(c) PROVE TypeOK'
  <2>1. writes' \in Seq(Entry) /\ writes' # <<>>
    BY <1>3, ChangedIsRecord, ChainAppend DEF Queue, IInv, TypeOK, Stages, Entry
  <2> QED
    BY <1>3, <2>1 DEF Queue, memory, IInv, TypeOK, Stages, Entry, Places
<1>4. ASSUME NEW c \in Calls, RemoveCall(c) PROVE TypeOK'
  BY <1>4, LenProperties DEF RemoveCall, memory, callVars, IInv, TypeOK, Stages, Places
<1>5. ASSUME NEW c \in Calls, RemoveProceeds(c) PROVE TypeOK'
  BY <1>5 DEF RemoveProceeds, memory, callVars, IInv, TypeOK, Stages, Places
<1>6. ASSUME NEW c \in Calls, RemoveReturns(c) PROVE TypeOK'
  <2>1. refused' \in BOOLEAN
    BY <1>6, Zenon DEF RemoveReturns
  <2>2. cache' \in Files /\ pathById' \in Dirs \cup {None} /\ indexed' \subseteq Dirs
    BY <1>6 DEF RemoveReturns, Files
  <2>3. pc' \in [Calls -> Places]
    BY <1>6 DEF RemoveReturns, IInv, TypeOK, Stages, Places, Ended
  <2> QED
    BY <1>6, <2>1, <2>2, <2>3 DEF RemoveReturns, IInv, TypeOK, Stages
<1>7. ASSUME NEW c \in Calls, NEW d \in Dirs, RemoveUnlinks(c, d) PROVE TypeOK'
  BY <1>7 DEF RemoveUnlinks, memory, callVars, IInv, TypeOK, Stages, Files
<1>8. ASSUME WriteSkipped PROVE TypeOK'
  <2>1. writes # <<>> /\ TypeOK /\ ChainShape
    BY <1>8 DEF IInv, TypeOK, Stages, WriteSkipped, Starting
  <2>2. FirstEnds("done")
    BY <1>8 DEF WriteSkipped, Starting
  <2>3. writes' \in Seq(Entry)
    BY <2>1, <2>2, FirstEndsFacts, ChainTail DEF TypeOK, Stages, Entry
  <2> QED
    BY <1>8, <2>1, <2>2, <2>3, FirstEndsFacts DEF WriteSkipped, Starting, memory, TypeOK, Stages, Entry
<1>9. ASSUME WriteLands PROVE TypeOK'
  <2>1. Head(writes).record \in Records
    BY <1>9, ChainTail DEF WriteLands, IInv, TypeOK, Stages, Entry
  <2> QED
    BY <1>9, <2>1 DEF WriteLands, Lands, callVars, IInv, TypeOK, Stages, Files, Dirs
<1>10. ASSUME WriteFails PROVE TypeOK'
  <2>1. writes # <<>> /\ TypeOK /\ ChainShape
    BY <1>10 DEF IInv, TypeOK, Stages, WriteFails
  <2>2. FirstEnds("failed")
    BY <1>10 DEF WriteFails
  <2>3. writes' \in Seq(Entry)
    BY <2>1, <2>2, FirstEndsFacts, ChainTail DEF TypeOK, Stages, Entry
  <2> QED
    BY <1>10, <2>1, <2>2, <2>3, FirstEndsFacts DEF WriteFails, memory, TypeOK, Stages, Entry
<1>11. ASSUME WriteSettles PROVE TypeOK'
  <2>1. writes # <<>> /\ TypeOK /\ ChainShape
    BY <1>11 DEF IInv, TypeOK, Stages, WriteSettles
  <2>2. FirstEnds("done")
    BY <1>11 DEF WriteSettles
  <2>3. writes' \in Seq(Entry)
    BY <2>1, <2>2, FirstEndsFacts, ChainTail DEF TypeOK, Stages, Entry
  <2>4. disk' \in [Dirs -> Files] /\ indexed' \subseteq Dirs /\ refused' \in BOOLEAN
    BY <1>11 DEF WriteSettles, CleansUp, IInv, TypeOK, Stages, Files
  <2>5. cache' \in Files /\ pathById' \in Dirs \cup {None}
    BY <1>11, <2>1, <2>2, FirstEndsFacts DEF WriteSettles, Files, Dirs
  <2> QED
    BY <1>11, <2>1, <2>2, <2>3, <2>4, <2>5, FirstEndsFacts DEF WriteSettles, TypeOK, Stages, Entry
<1>12. ASSUME Crash PROVE TypeOK'
  <2>1. pc' \in [Calls -> Places]
    BY <1>12 DEF Crash, IInv, TypeOK, Stages, Places, Ended
  <2>2. writes' \in Seq([by : Calls, record : Records])
    BY <1>12, EmptyChain DEF Crash, Entry
  <2>3. crashes' \in 0..Crashes
    BY <1>12, StorageAssumption DEF Crash, IInv, TypeOK, Stages
  <2>4. cache' \in Files /\ pathById' \in Dirs \cup {None} /\ indexed' \subseteq Dirs
    BY <1>12 DEF Crash, Files
  <2> QED
    BY <1>12, <2>1, <2>2, <2>3, <2>4 DEF Crash, IInv, TypeOK, Stages
<1>13. ASSUME Restart PROVE TypeOK'
  BY <1>13 DEF Restart, memory, callVars, IInv, TypeOK, Stages, Loadable, Loaded, Present, Files, Dirs
<1>14. ASSUME Resume PROVE TypeOK'
  BY <1>14 DEF Resume, memory, callVars, IInv, TypeOK, Stages
<1>15. ASSUME UNCHANGED vars PROVE TypeOK'
  BY <1>15 DEF vars, memory, callVars, IInv, TypeOK, Stages
<1>16. ASSUME WriteStarts PROVE TypeOK'
  BY <1>16 DEF WriteStarts, Starting, memory, callVars, IInv, TypeOK, Stages
<1> QED
  BY <1>1, <1>2, <1>3, <1>4, <1>5, <1>6, <1>7, <1>8, <1>9, <1>10, <1>11, <1>12, <1>13, <1>14, <1>15, <1>16 DEF Next, Proceed, WriteNext

(* Where the calls are.                                                    *)
LEMMA CallsStep == IInv /\ [Next]_vars => CallsShape'
<1> SUFFICES ASSUME IInv, [Next]_vars PROVE CallsShape'
  OBVIOUS
<1>1. ASSUME NEW c \in Calls, NEW k \in Kinds, Call(c, k) PROVE CallsShape'
  BY <1>1 DEF Call, memory, callVars, IInv, TypeOK, CallsShape, NeedsLive, Waits
<1>2. ASSUME NEW c \in Calls, Read(c) PROVE CallsShape'
  BY <1>2 DEF Read, Reads, memory, callVars, IInv, TypeOK, CallsShape, NeedsLive, Waits
<1>3. ASSUME NEW c \in Calls, Queue(c) PROVE CallsShape'
  BY <1>3 DEF Queue, memory, callVars, IInv, TypeOK, CallsShape
<1>4. ASSUME NEW c \in Calls, RemoveCall(c) PROVE CallsShape'
  BY <1>4, ChainTail DEF RemoveCall, memory, callVars, IInv, TypeOK, CallsShape, Entry
<1>5. ASSUME NEW c \in Calls, RemoveProceeds(c) PROVE CallsShape'
  BY <1>5 DEF RemoveProceeds, memory, callVars, IInv, TypeOK, CallsShape
<1>6. ASSUME NEW c \in Calls, RemoveReturns(c) PROVE CallsShape'
  BY <1>6 DEF RemoveReturns, memory, callVars, IInv, TypeOK, CallsShape
<1>7. ASSUME NEW c \in Calls, NEW d \in Dirs, RemoveUnlinks(c, d) PROVE CallsShape'
  BY <1>7 DEF RemoveUnlinks, memory, callVars, IInv, TypeOK, CallsShape
<1>8. ASSUME WriteSkipped PROVE CallsShape'
  <2>1. writes # <<>> /\ TypeOK /\ ChainShape
    BY <1>8 DEF IInv, TypeOK, WriteSkipped, Starting
  <2>2. FirstEnds("done")
    BY <1>8 DEF WriteSkipped, Starting
  <2> QED
    BY <1>8, <2>1, <2>2, FirstEndsFacts DEF WriteSkipped, Starting, IInv, CallsShape, NeedsLive, memory
<1>9. ASSUME WriteLands PROVE CallsShape'
  BY <1>9 DEF WriteLands, Lands, memory, callVars, IInv, TypeOK, CallsShape, Idle, Draining, Fenced
<1>10. ASSUME WriteFails PROVE CallsShape'
  <2>1. writes # <<>> /\ TypeOK /\ ChainShape
    BY <1>10 DEF IInv, TypeOK, WriteFails
  <2>2. FirstEnds("failed")
    BY <1>10 DEF WriteFails
  <2> QED
    BY <1>10, <2>1, <2>2, FirstEndsFacts DEF WriteFails, IInv, CallsShape, NeedsLive, memory
<1>11. ASSUME WriteSettles PROVE CallsShape'
  <2>1. writes # <<>> /\ TypeOK /\ ChainShape
    BY <1>11 DEF IInv, TypeOK, WriteSettles
  <2>2. FirstEnds("done")
    BY <1>11 DEF WriteSettles
  <2> QED
    BY <1>11, <2>1, <2>2, FirstEndsFacts DEF WriteSettles, IInv, CallsShape, NeedsLive, memory
<1>12. ASSUME Crash PROVE CallsShape'
  BY <1>12 DEF Crash, memory, callVars, IInv, TypeOK, CallsShape, Ended
<1>13. ASSUME Restart PROVE CallsShape'
  BY <1>13 DEF Restart, memory, callVars, IInv, TypeOK, CallsShape, DownShape, Ended
<1>14. ASSUME Resume PROVE CallsShape'
  BY <1>14 DEF Resume, memory, callVars, IInv, TypeOK, CallsShape
<1>15. ASSUME UNCHANGED vars PROVE CallsShape'
  BY <1>15 DEF vars, memory, callVars, IInv, TypeOK, CallsShape
<1>16. ASSUME WriteStarts PROVE CallsShape'
  BY <1>16 DEF WriteStarts, Starting, Fenced, memory, callVars, IInv, TypeOK, CallsShape
<1> QED
  BY <1>1, <1>2, <1>3, <1>4, <1>5, <1>6, <1>7, <1>8, <1>9, <1>10, <1>11, <1>12, <1>13, <1>14, <1>15, <1>16 DEF Next, Proceed, WriteNext

(* The chain.                                                              *)
LEMMA ChainStep == IInv /\ [Next]_vars => ChainShape'
<1> SUFFICES ASSUME IInv, [Next]_vars PROVE ChainShape'
  OBVIOUS
<1>1. ASSUME NEW c \in Calls, NEW k \in Kinds, Call(c, k) PROVE ChainShape'
  <2>1. \A d \in Calls : pc[d] = "queued" => pc'[d] = "queued"
    BY <1>1 DEF Call, IInv, TypeOK
  <2>2. \A i \in 1..Len(writes) : writes[i].by \in Calls
    BY ChainEntries DEF IInv
  <2>3. UNCHANGED <<writes, first>> /\ (first = "landed" => disk'["project"] = disk["project"])
    BY <1>1 DEF Call, IInv, TypeOK, CallsShape, memory, callVars
  <2> QED
    BY <2>1, <2>2, <2>3 DEF IInv, ChainShape
<1>2. ASSUME NEW c \in Calls, Read(c) PROVE ChainShape'
  <2>1. \A d \in Calls : pc[d] = "queued" => pc'[d] = "queued"
    BY <1>2 DEF Read, Reads, IInv, TypeOK
  <2>2. \A i \in 1..Len(writes) : writes[i].by \in Calls
    BY ChainEntries DEF IInv
  <2>3. UNCHANGED <<writes, first>> /\ (first = "landed" => disk'["project"] = disk["project"])
    BY <1>2 DEF Read, Reads, IInv, TypeOK, CallsShape, memory, callVars
  <2> QED
    BY <2>1, <2>2, <2>3 DEF IInv, ChainShape
<1>3. ASSUME NEW c \in Calls, Queue(c) PROVE ChainShape'
  <2> DEFINE e == [by |-> c, record |-> Changed(c, base[c])]
  <2>1. e \in Entry
    BY ChangedIsRecord DEF IInv, Entry
  <2>2. writes' = Append(writes, e) /\ pc' = [pc EXCEPT ![c] = "queued"] /\ pc[c] = "queueing"
        /\ UNCHANGED <<first, disk>> /\ writes \in Seq(Entry) /\ pc \in [Calls -> Places]
    BY <1>3 DEF Queue, IInv, TypeOK, Entry
  <2>2a. e.by = c
    OBVIOUS
  <2> HIDE DEF e
  <2>3. /\ Len(writes) \in Nat /\ Len(writes') = Len(writes) + 1
        /\ \A i \in 1..Len(writes) : writes'[i] = writes[i]
        /\ writes'[Len(writes) + 1] = e
        /\ writes # <<>> => Head(writes') = Head(writes)
    BY <2>1, <2>2, ChainAppend
  <2>4. \A i \in 1..Len(writes) : writes[i].by \in Calls /\ pc[writes[i].by] = "queued" /\ writes[i].by # c
    BY <2>2, ChainEntries DEF IInv, ChainShape
  <2>5. \A i \in 1..Len(writes') : i \in 1..Len(writes) \/ i = Len(writes) + 1
    BY <2>3
  <2>6. \A i \in 1..Len(writes') : pc'[writes'[i].by] = "queued"
    BY <2>2, <2>2a, <2>3, <2>4, <2>5
  <2>7. \A i, j \in 1..Len(writes') : writes'[i].by = writes'[j].by => i = j
    BY <2>2a, <2>3, <2>4, <2>5 DEF IInv, ChainShape
  <2>8. first' = "landed" => disk'["project"] = Head(writes').record
    BY <2>2, <2>3 DEF IInv, ChainShape, TypeOK
  <2> QED
    BY <2>6, <2>7, <2>8 DEF ChainShape
<1>4. ASSUME NEW c \in Calls, RemoveCall(c) PROVE ChainShape'
  <2>1. \A d \in Calls : pc[d] = "queued" => pc'[d] = "queued"
    BY <1>4 DEF RemoveCall, IInv, TypeOK
  <2>2. \A i \in 1..Len(writes) : writes[i].by \in Calls
    BY ChainEntries DEF IInv
  <2>3. UNCHANGED <<writes, first>> /\ (first = "landed" => disk'["project"] = disk["project"])
    BY <1>4 DEF RemoveCall, IInv, TypeOK, CallsShape, memory, callVars
  <2> QED
    BY <2>1, <2>2, <2>3 DEF IInv, ChainShape
<1>5. ASSUME NEW c \in Calls, RemoveProceeds(c) PROVE ChainShape'
  <2>1. \A d \in Calls : pc[d] = "queued" => pc'[d] = "queued"
    BY <1>5 DEF RemoveProceeds, IInv, TypeOK
  <2>2. \A i \in 1..Len(writes) : writes[i].by \in Calls
    BY ChainEntries DEF IInv
  <2>3. UNCHANGED <<writes, first>> /\ (first = "landed" => disk'["project"] = disk["project"])
    BY <1>5 DEF RemoveProceeds, IInv, TypeOK, CallsShape, memory, callVars
  <2> QED
    BY <2>1, <2>2, <2>3 DEF IInv, ChainShape
<1>6. ASSUME NEW c \in Calls, RemoveReturns(c) PROVE ChainShape'
  <2>1. \A d \in Calls : pc[d] = "queued" => pc'[d] = "queued"
    BY <1>6 DEF RemoveReturns, IInv, TypeOK
  <2>2. \A i \in 1..Len(writes) : writes[i].by \in Calls
    BY ChainEntries DEF IInv
  <2>3. UNCHANGED <<writes, first>> /\ (first = "landed" => disk'["project"] = disk["project"])
    BY <1>6 DEF RemoveReturns, IInv, TypeOK, CallsShape, memory, callVars
  <2> QED
    BY <2>1, <2>2, <2>3 DEF IInv, ChainShape
<1>7. ASSUME NEW c \in Calls, NEW d \in Dirs, RemoveUnlinks(c, d) PROVE ChainShape'
  BY <1>7 DEF RemoveUnlinks, memory, callVars, IInv, TypeOK, ChainShape, CallsShape
<1>8. ASSUME WriteSkipped PROVE ChainShape'
  <2>1. writes # <<>> /\ TypeOK /\ ChainShape
    BY <1>8 DEF IInv, TypeOK, WriteSkipped, Starting
  <2>2. FirstEnds("done")
    BY <1>8 DEF WriteSkipped, Starting
  <2>3. /\ first' = "queued" /\ writes' = Tail(writes)
        /\ \A c \in Calls : c # Head(writes).by /\ pc[c] = "queued" => pc'[c] = "queued"
    BY <2>1, <2>2, FirstEndsFacts
  <2>4. /\ Head(writes) = writes[1] /\ Len(writes) \in Nat /\ Len(writes) >= 1
        /\ \A i \in 1..Len(Tail(writes)) : i + 1 \in 1..Len(writes) /\ Tail(writes)[i] = writes[i + 1]
        /\ Len(Tail(writes)) = Len(writes) - 1
    BY <2>1, ChainTail DEF TypeOK, Entry
  <2>5. ASSUME NEW i \in 1..Len(Tail(writes))
        PROVE  writes[i + 1].by \in Calls /\ writes[i + 1].by # Head(writes).by /\ pc[writes[i + 1].by] = "queued"
    <3>1. i + 1 \in 1..Len(writes) /\ 1 \in 1..Len(writes) /\ i + 1 # 1
      BY <2>4
    <3>2. writes[i + 1] \in Entry
      BY <3>1, <2>1, ElementOfSeq DEF TypeOK, Entry
    <3> QED
      BY <3>1, <3>2, <2>1, <2>4 DEF ChainShape, Entry
  <2>6. \A i \in 1..Len(Tail(writes)) : pc'[Tail(writes)[i].by] = "queued"
    BY <2>3, <2>4, <2>5
  <2>7. \A i, j \in 1..Len(Tail(writes)) : Tail(writes)[i].by = Tail(writes)[j].by => i = j
    <3> SUFFICES ASSUME NEW i \in 1..Len(Tail(writes)), NEW j \in 1..Len(Tail(writes)),
                        Tail(writes)[i].by = Tail(writes)[j].by
                 PROVE  i = j
      OBVIOUS
    <3>1. i + 1 \in 1..Len(writes) /\ j + 1 \in 1..Len(writes) /\ writes[i + 1].by = writes[j + 1].by
      BY <2>4
    <3>2. i + 1 = j + 1
      BY <3>1, <2>1 DEF ChainShape
    <3> QED
      BY <3>2, <2>4
  <2> QED
    BY <2>3, <2>6, <2>7 DEF ChainShape
<1>9. ASSUME WriteLands PROVE ChainShape'
  BY <1>9 DEF WriteLands, Lands, memory, callVars, IInv, TypeOK, ChainShape, Dirs
<1>10. ASSUME WriteFails PROVE ChainShape'
  <2>1. writes # <<>> /\ TypeOK /\ ChainShape
    BY <1>10 DEF IInv, TypeOK, WriteFails
  <2>2. FirstEnds("failed")
    BY <1>10 DEF WriteFails
  <2>3. /\ first' = "queued" /\ writes' = Tail(writes)
        /\ \A c \in Calls : c # Head(writes).by /\ pc[c] = "queued" => pc'[c] = "queued"
    BY <2>1, <2>2, FirstEndsFacts
  <2>4. /\ Head(writes) = writes[1] /\ Len(writes) \in Nat /\ Len(writes) >= 1
        /\ \A i \in 1..Len(Tail(writes)) : i + 1 \in 1..Len(writes) /\ Tail(writes)[i] = writes[i + 1]
        /\ Len(Tail(writes)) = Len(writes) - 1
    BY <2>1, ChainTail DEF TypeOK, Entry
  <2>5. ASSUME NEW i \in 1..Len(Tail(writes))
        PROVE  writes[i + 1].by \in Calls /\ writes[i + 1].by # Head(writes).by /\ pc[writes[i + 1].by] = "queued"
    <3>1. i + 1 \in 1..Len(writes) /\ 1 \in 1..Len(writes) /\ i + 1 # 1
      BY <2>4
    <3>2. writes[i + 1] \in Entry
      BY <3>1, <2>1, ElementOfSeq DEF TypeOK, Entry
    <3> QED
      BY <3>1, <3>2, <2>1, <2>4 DEF ChainShape, Entry
  <2>6. \A i \in 1..Len(Tail(writes)) : pc'[Tail(writes)[i].by] = "queued"
    BY <2>3, <2>4, <2>5
  <2>7. \A i, j \in 1..Len(Tail(writes)) : Tail(writes)[i].by = Tail(writes)[j].by => i = j
    <3> SUFFICES ASSUME NEW i \in 1..Len(Tail(writes)), NEW j \in 1..Len(Tail(writes)),
                        Tail(writes)[i].by = Tail(writes)[j].by
                 PROVE  i = j
      OBVIOUS
    <3>1. i + 1 \in 1..Len(writes) /\ j + 1 \in 1..Len(writes) /\ writes[i + 1].by = writes[j + 1].by
      BY <2>4
    <3>2. i + 1 = j + 1
      BY <3>1, <2>1 DEF ChainShape
    <3> QED
      BY <3>2, <2>4
  <2> QED
    BY <2>3, <2>6, <2>7 DEF ChainShape
<1>11. ASSUME WriteSettles PROVE ChainShape'
  <2>1. writes # <<>> /\ TypeOK /\ ChainShape
    BY <1>11 DEF IInv, TypeOK, WriteSettles
  <2>2. FirstEnds("done")
    BY <1>11 DEF WriteSettles
  <2>3. /\ first' = "queued" /\ writes' = Tail(writes)
        /\ \A c \in Calls : c # Head(writes).by /\ pc[c] = "queued" => pc'[c] = "queued"
    BY <2>1, <2>2, FirstEndsFacts
  <2>4. /\ Head(writes) = writes[1] /\ Len(writes) \in Nat /\ Len(writes) >= 1
        /\ \A i \in 1..Len(Tail(writes)) : i + 1 \in 1..Len(writes) /\ Tail(writes)[i] = writes[i + 1]
        /\ Len(Tail(writes)) = Len(writes) - 1
    BY <2>1, ChainTail DEF TypeOK, Entry
  <2>5. ASSUME NEW i \in 1..Len(Tail(writes))
        PROVE  writes[i + 1].by \in Calls /\ writes[i + 1].by # Head(writes).by /\ pc[writes[i + 1].by] = "queued"
    <3>1. i + 1 \in 1..Len(writes) /\ 1 \in 1..Len(writes) /\ i + 1 # 1
      BY <2>4
    <3>2. writes[i + 1] \in Entry
      BY <3>1, <2>1, ElementOfSeq DEF TypeOK, Entry
    <3> QED
      BY <3>1, <3>2, <2>1, <2>4 DEF ChainShape, Entry
  <2>6. \A i \in 1..Len(Tail(writes)) : pc'[Tail(writes)[i].by] = "queued"
    BY <2>3, <2>4, <2>5
  <2>7. \A i, j \in 1..Len(Tail(writes)) : Tail(writes)[i].by = Tail(writes)[j].by => i = j
    <3> SUFFICES ASSUME NEW i \in 1..Len(Tail(writes)), NEW j \in 1..Len(Tail(writes)),
                        Tail(writes)[i].by = Tail(writes)[j].by
                 PROVE  i = j
      OBVIOUS
    <3>1. i + 1 \in 1..Len(writes) /\ j + 1 \in 1..Len(writes) /\ writes[i + 1].by = writes[j + 1].by
      BY <2>4
    <3>2. i + 1 = j + 1
      BY <3>1, <2>1 DEF ChainShape
    <3> QED
      BY <3>2, <2>4
  <2> QED
    BY <2>3, <2>6, <2>7 DEF ChainShape
<1>12. ASSUME Crash PROVE ChainShape'
  BY <1>12, EmptyChain DEF Crash, memory, callVars, IInv, TypeOK, ChainShape
<1>13. ASSUME Restart PROVE ChainShape'
  BY <1>13 DEF Restart, memory, callVars, IInv, TypeOK, ChainShape
<1>14. ASSUME Resume PROVE ChainShape'
  BY <1>14 DEF Resume, memory, callVars, IInv, TypeOK, ChainShape
<1>15. ASSUME UNCHANGED vars PROVE ChainShape'
  BY <1>15 DEF vars, memory, callVars, IInv, TypeOK, ChainShape
<1>16. ASSUME WriteStarts PROVE ChainShape'
  BY <1>16 DEF WriteStarts, memory, callVars, IInv, TypeOK, ChainShape
<1> QED
  BY <1>1, <1>2, <1>3, <1>4, <1>5, <1>6, <1>7, <1>8, <1>9, <1>10, <1>11, <1>12, <1>13, <1>14, <1>15, <1>16 DEF Next, Proceed, WriteNext

(* A daemon that is down does nothing until it restarts.                   *)
LEMMA DownStep == IInv /\ [Next]_vars => DownShape'
<1> SUFFICES ASSUME IInv, [Next]_vars PROVE DownShape'
  OBVIOUS
<1>1. ASSUME NEW c \in Calls, NEW k \in Kinds, Call(c, k) PROVE DownShape'
  BY <1>1 DEF Call, memory, callVars, IInv, DownShape, Idle
<1>2. ASSUME NEW c \in Calls, Read(c) PROVE DownShape'
  BY <1>2 DEF Read, Reads, memory, callVars, IInv, DownShape, Ended
<1>3. ASSUME NEW c \in Calls, Queue(c) PROVE DownShape'
  BY <1>3 DEF Queue, memory, callVars, IInv, DownShape, Ended
<1>4. ASSUME NEW c \in Calls, RemoveCall(c) PROVE DownShape'
  BY <1>4 DEF RemoveCall, memory, callVars, IInv, DownShape, Idle
<1>5. ASSUME NEW c \in Calls, RemoveProceeds(c) PROVE DownShape'
  BY <1>5 DEF RemoveProceeds, memory, callVars, IInv, DownShape, Ended
<1>6. ASSUME NEW c \in Calls, RemoveReturns(c) PROVE DownShape'
  BY <1>6 DEF RemoveReturns, memory, callVars, IInv, DownShape, Idle
<1>7. ASSUME NEW c \in Calls, NEW d \in Dirs, RemoveUnlinks(c, d) PROVE DownShape'
  BY <1>7 DEF RemoveUnlinks, memory, callVars, IInv, DownShape, Idle
<1>8. ASSUME WriteSkipped PROVE DownShape'
  BY <1>8 DEF WriteSkipped, Starting, memory, callVars, IInv, DownShape, Idle
<1>9. ASSUME WriteLands PROVE DownShape'
  BY <1>9 DEF WriteLands, Lands, memory, callVars, IInv, DownShape, Idle
<1>10. ASSUME WriteFails PROVE DownShape'
  BY <1>10 DEF WriteFails, memory, callVars, IInv, DownShape, Idle
<1>11. ASSUME WriteSettles PROVE DownShape'
  BY <1>11 DEF WriteSettles, CleansUp, memory, callVars, IInv, DownShape, Idle
<1>12. ASSUME Crash PROVE DownShape'
  BY <1>12 DEF Crash, memory, callVars, IInv, DownShape, TypeOK, Ended
<1>13. ASSUME Restart PROVE DownShape'
  BY <1>13 DEF Restart, memory, callVars, IInv, DownShape
<1>14. ASSUME Resume PROVE DownShape'
  BY <1>14 DEF Resume, memory, callVars, IInv, DownShape, Idle
<1>15. ASSUME UNCHANGED vars PROVE DownShape'
  BY <1>15 DEF vars, memory, callVars, IInv, DownShape
<1>16. ASSUME WriteStarts PROVE DownShape'
  BY <1>16 DEF WriteStarts, Starting, DownShape
<1> QED
  BY <1>1, <1>2, <1>3, <1>4, <1>5, <1>6, <1>7, <1>8, <1>9, <1>10, <1>11, <1>12, <1>13, <1>14, <1>15, <1>16 DEF Next, Proceed, WriteNext

(* Every record file is indexed.                                           *)
LEMMA IndexStep == IInv /\ [Next]_vars => IndexCoversDisk'
<1> SUFFICES ASSUME IInv, [Next]_vars PROVE IndexCoversDisk'
  OBVIOUS
<1>1. ASSUME NEW c \in Calls, NEW k \in Kinds, Call(c, k) PROVE IndexCoversDisk'
  BY <1>1 DEF Call, memory, callVars, IInv, TypeOK, IndexCoversDisk, Present, Idle
<1>2. ASSUME NEW c \in Calls, Read(c) PROVE IndexCoversDisk'
  BY <1>2 DEF Read, Reads, memory, callVars, IInv, TypeOK, IndexCoversDisk, Present
<1>3. ASSUME NEW c \in Calls, Queue(c) PROVE IndexCoversDisk'
  BY <1>3 DEF Queue, memory, callVars, IInv, TypeOK, IndexCoversDisk, Present
<1>4. ASSUME NEW c \in Calls, RemoveCall(c) PROVE IndexCoversDisk'
  BY <1>4 DEF RemoveCall, memory, callVars, IInv, TypeOK, IndexCoversDisk, Present, Idle
<1>5. ASSUME NEW c \in Calls, RemoveProceeds(c) PROVE IndexCoversDisk'
  BY <1>5 DEF RemoveProceeds, memory, callVars, IInv, TypeOK, IndexCoversDisk, Present
<1>6. ASSUME NEW c \in Calls, RemoveReturns(c) PROVE IndexCoversDisk'
  BY <1>6 DEF RemoveReturns, memory, callVars, IInv, TypeOK, IndexCoversDisk, Present, Idle
<1>7. ASSUME NEW c \in Calls, NEW d \in Dirs, RemoveUnlinks(c, d) PROVE IndexCoversDisk'
  BY <1>7 DEF RemoveUnlinks, memory, callVars, IInv, TypeOK, IndexCoversDisk, Present, Idle
<1>8. ASSUME WriteSkipped PROVE IndexCoversDisk'
  BY <1>8 DEF WriteSkipped, Starting, memory, callVars, IInv, TypeOK, IndexCoversDisk, Present, Idle
<1>9. ASSUME WriteLands PROVE IndexCoversDisk'
  BY <1>9 DEF WriteLands, Lands, memory, callVars, IInv, TypeOK, IndexCoversDisk, Present, Dirs
<1>10. ASSUME WriteFails PROVE IndexCoversDisk'
  BY <1>10 DEF WriteFails, memory, callVars, IInv, TypeOK, IndexCoversDisk, Present, Idle
<1>11. ASSUME WriteSettles PROVE IndexCoversDisk'
  BY <1>11 DEF WriteSettles, CleansUp, memory, callVars, IInv, TypeOK, IndexCoversDisk, Present, Dirs
<1>12. ASSUME Crash PROVE IndexCoversDisk'
  BY <1>12 DEF Crash, memory, callVars, IInv, TypeOK, IndexCoversDisk, Present
<1>13. ASSUME Restart PROVE IndexCoversDisk'
  BY <1>13 DEF Restart, memory, callVars, IInv, TypeOK, IndexCoversDisk, Present
<1>14. ASSUME Resume PROVE IndexCoversDisk'
  BY <1>14 DEF Resume, memory, callVars, IInv, TypeOK, IndexCoversDisk, Present
<1>15. ASSUME UNCHANGED vars PROVE IndexCoversDisk'
  BY <1>15 DEF vars, memory, callVars, IInv, TypeOK, IndexCoversDisk, Present
<1>16. ASSUME WriteStarts PROVE IndexCoversDisk'
  BY <1>16 DEF WriteStarts, memory, callVars, IInv, IndexCoversDisk, Present
<1> QED
  BY <1>1, <1>2, <1>3, <1>4, <1>5, <1>6, <1>7, <1>8, <1>9, <1>10, <1>11, <1>12, <1>13, <1>14, <1>15, <1>16 DEF Next, Proceed, WriteNext

(* A restart reads the newest record.                                      *)
LEMMA NewestStep == IInv /\ [Next]_vars => RestartReadsNewest'
<1> SUFFICES ASSUME IInv, [Next]_vars PROVE RestartReadsNewest'
  OBVIOUS
<1>1. ASSUME NEW c \in Calls, NEW k \in Kinds, Call(c, k) PROVE RestartReadsNewest'
  <2>1. UNCHANGED <<up, disk, refused, cache, first>> /\ (first = "landed" => Head(writes') = Head(writes))
    BY <1>1 DEF Call, memory, callVars, IInv, TypeOK
  <2>2. \A d \in Calls : pc[d] = "unlinking" => pc'[d] = "unlinking"
    BY <1>1 DEF Call, IInv, TypeOK
  <2> QED
    BY <2>1, <2>2 DEF IInv, RestartReadsNewest, Unlinking, Loadable, Loaded
<1>2. ASSUME NEW c \in Calls, Read(c) PROVE RestartReadsNewest'
  <2>1. UNCHANGED <<up, disk, refused, cache, first>> /\ (first = "landed" => Head(writes') = Head(writes))
    BY <1>2 DEF Read, Reads, memory, callVars, IInv, TypeOK
  <2>2. \A d \in Calls : pc[d] = "unlinking" => pc'[d] = "unlinking"
    BY <1>2 DEF Read, Reads, IInv, TypeOK
  <2> QED
    BY <2>1, <2>2 DEF IInv, RestartReadsNewest, Unlinking, Loadable, Loaded
<1>3. ASSUME NEW c \in Calls, Queue(c) PROVE RestartReadsNewest'
  <2>1. UNCHANGED <<up, disk, refused, cache, first>> /\ writes' = Append(writes, [by |-> c, record |-> Changed(c, base[c])])
    BY <1>3 DEF Queue, memory
  <2>2. first = "landed" => Head(writes') = Head(writes)
    BY <2>1, ChangedIsRecord, ChainAppend DEF IInv, TypeOK, Entry
  <2>3. \A d \in Calls : pc[d] = "unlinking" => pc'[d] = "unlinking"
    BY <1>3 DEF Queue, IInv, TypeOK
  <2> QED
    BY <2>1, <2>2, <2>3 DEF IInv, RestartReadsNewest, Unlinking, Loadable, Loaded
<1>4. ASSUME NEW c \in Calls, RemoveCall(c) PROVE RestartReadsNewest'
  <2>1. UNCHANGED <<up, disk, refused, cache, first>> /\ (first = "landed" => Head(writes') = Head(writes))
    BY <1>4 DEF RemoveCall, memory, callVars, IInv, TypeOK
  <2>2. \A d \in Calls : pc[d] = "unlinking" => pc'[d] = "unlinking"
    BY <1>4 DEF RemoveCall, IInv, TypeOK
  <2> QED
    BY <2>1, <2>2 DEF IInv, RestartReadsNewest, Unlinking, Loadable, Loaded
<1>5. ASSUME NEW c \in Calls, RemoveProceeds(c) PROVE RestartReadsNewest'
  <2>1. UNCHANGED <<up, disk, refused, cache, first>> /\ (first = "landed" => Head(writes') = Head(writes))
    BY <1>5 DEF RemoveProceeds, memory, callVars, IInv, TypeOK
  <2>2. \A d \in Calls : pc[d] = "unlinking" => pc'[d] = "unlinking"
    BY <1>5 DEF RemoveProceeds, IInv, TypeOK
  <2> QED
    BY <2>1, <2>2 DEF IInv, RestartReadsNewest, Unlinking, Loadable, Loaded
<1>6. ASSUME NEW c \in Calls, RemoveReturns(c) PROVE RestartReadsNewest'
  <2>1. first' = "queued" /\ cache' = None /\ UNCHANGED <<up, disk>> /\ up
    BY <1>6 DEF RemoveReturns, memory, Idle, IInv, CallsShape
  <2>2. ASSUME ~refused' PROVE Loadable(disk') = None
    <3>1. ~refused /\ \A d \in indexed : disk[d] = None
      BY <1>6, <2>2 DEF RemoveReturns, IInv, TypeOK
    <3>2. disk["root"] = None /\ disk["project"] = None
      BY <3>1, <2>1 DEF IInv, IndexCoversDisk, Present, Dirs
    <3> QED
      BY <3>2, <2>1 DEF Loadable, Loaded
  <2>3. Loadable(disk)' = Loadable(disk')
    BY DEF Loadable, Loaded
  <2> QED
    BY <2>1, <2>2, <2>3 DEF RestartReadsNewest, IInv, TypeOK
<1>7. ASSUME NEW c \in Calls, NEW d \in Dirs, RemoveUnlinks(c, d) PROVE RestartReadsNewest'
  <2>1. Unlinking'
    BY <1>7 DEF RemoveUnlinks, callVars, Unlinking
  <2> QED
    BY <2>1 DEF RestartReadsNewest
<1>8. ASSUME WriteSkipped PROVE RestartReadsNewest'
  <2>1. writes # <<>> /\ TypeOK /\ ChainShape
    BY <1>8 DEF IInv, TypeOK, WriteSkipped, Starting
  <2>2. FirstEnds("done")
    BY <1>8 DEF WriteSkipped, Starting
  <2>3. \A d \in Calls : pc[d] = "unlinking" => pc'[d] = "unlinking"
    BY <2>1, <2>2, FirstEndsFacts
  <2>4. UNCHANGED <<up, disk, refused, cache>> /\ first # "landed" /\ first' = "queued"
    BY <1>8, <2>1, <2>2, FirstEndsFacts DEF WriteSkipped, Starting, memory
  <2> QED
    BY <2>3, <2>4 DEF IInv, RestartReadsNewest, Unlinking, Loadable, Loaded
<1>9. ASSUME WriteLands PROVE RestartReadsNewest'
  <2>1. first' = "landed" /\ writes' = writes /\ disk'["project"] = Head(writes).record
    BY <1>9 DEF WriteLands, IInv, TypeOK, Dirs
  <2>2. Head(writes).record \in Records
    BY <1>9, ChainTail DEF WriteLands, IInv, TypeOK, Entry
  <2>3. disk'["project"] # None /\ "project" # None
    BY <2>1, <2>2, NoneAssumption DEF Dirs
  <2> QED
    BY <2>1, <2>3 DEF RestartReadsNewest, Loadable, Loaded
<1>10. ASSUME WriteFails PROVE RestartReadsNewest'
  <2>1. writes # <<>> /\ TypeOK /\ ChainShape
    BY <1>10 DEF IInv, TypeOK, WriteFails
  <2>2. FirstEnds("failed")
    BY <1>10 DEF WriteFails
  <2>3. \A d \in Calls : pc[d] = "unlinking" => pc'[d] = "unlinking"
    BY <2>1, <2>2, FirstEndsFacts
  <2>4. UNCHANGED <<up, disk, refused, cache>> /\ first # "landed" /\ first' = "queued"
    BY <1>10, <2>1, <2>2, FirstEndsFacts DEF WriteFails, memory
  <2> QED
    BY <2>3, <2>4 DEF IInv, RestartReadsNewest, Unlinking, Loadable, Loaded
<1>11. ASSUME WriteSettles PROVE RestartReadsNewest'
  <2>1. writes # <<>> /\ TypeOK /\ ChainShape
    BY <1>11 DEF IInv, TypeOK, WriteSettles
  <2>2. FirstEnds("done")
    BY <1>11 DEF WriteSettles
  <2>3. Head(writes).record \in Records /\ first' = "queued"
    BY <2>1, <2>2, FirstEndsFacts
  <2>4. disk["project"] = Head(writes).record
    BY <1>11 DEF WriteSettles, IInv, ChainShape
  <2>5. disk'["project"] = disk["project"] /\ cache' = Head(writes).record
    BY <1>11 DEF WriteSettles, CleansUp, IInv, TypeOK, Dirs
  <2>6. disk'["project"] # None /\ "project" # None
    BY <2>3, <2>4, <2>5, NoneAssumption DEF Dirs
  <2> QED
    BY <2>3, <2>4, <2>5, <2>6 DEF RestartReadsNewest, Loadable, Loaded
<1>12. ASSUME Crash PROVE RestartReadsNewest'
  BY <1>12 DEF Crash, memory, callVars, IInv, TypeOK, RestartReadsNewest, Unlinking, Loadable, Loaded
<1>13. ASSUME Restart PROVE RestartReadsNewest'
  <2>1. first' = "queued" /\ cache' = Loadable(disk)'
    BY <1>13 DEF Restart, IInv, DownShape, Loadable, Loaded
  <2> QED
    BY <2>1 DEF RestartReadsNewest
<1>14. ASSUME Resume PROVE RestartReadsNewest'
  <2>1. UNCHANGED <<up, disk, refused, cache, first>> /\ (first = "landed" => Head(writes') = Head(writes))
    BY <1>14 DEF Resume, callVars, memory, callVars, IInv, TypeOK
  <2>2. \A d \in Calls : pc[d] = "unlinking" => pc'[d] = "unlinking"
    BY <1>14 DEF Resume, callVars, IInv, TypeOK
  <2> QED
    BY <2>1, <2>2 DEF IInv, RestartReadsNewest, Unlinking, Loadable, Loaded
<1>15. ASSUME UNCHANGED vars PROVE RestartReadsNewest'
  <2>1. UNCHANGED <<up, disk, refused, cache, first>> /\ (first = "landed" => Head(writes') = Head(writes))
    BY <1>15 DEF vars, callVars, memory, callVars, IInv, TypeOK
  <2>2. \A d \in Calls : pc[d] = "unlinking" => pc'[d] = "unlinking"
    BY <1>15 DEF vars, callVars, IInv, TypeOK
  <2> QED
    BY <2>1, <2>2 DEF IInv, RestartReadsNewest, Unlinking, Loadable, Loaded
<1>16. ASSUME WriteStarts PROVE RestartReadsNewest'
  BY <1>16 DEF WriteStarts, Starting, memory, callVars, IInv, RestartReadsNewest, Unlinking, Loadable, Loaded
<1> QED
  BY <1>1, <1>2, <1>3, <1>4, <1>5, <1>6, <1>7, <1>8, <1>9, <1>10, <1>11, <1>12, <1>13, <1>14, <1>15, <1>16 DEF Next, Proceed, WriteNext

(* After a delete.                                                         *)
LEMMA AfterStep == IInv /\ [Next]_vars => AfterDelete'
<1> SUFFICES ASSUME IInv, [Next]_vars PROVE AfterDelete'
  OBVIOUS
<1>1. ASSUME NEW c \in Calls, NEW k \in Kinds, Call(c, k) PROVE AfterDelete'
  <2> SUFFICES ASSUME DeleteDone' PROVE AfterDelete'
    BY DEF AfterDelete
  <2>1. DeleteDone
    BY <1>1 DEF Call, memory, callVars, DeleteDone, IInv, TypeOK, CallsShape, NeedsLive, Waits
  <2>2. disk["root"] = None /\ disk["project"] = None /\ cache = None /\ first = "queued" /\ (up /\ ~deleting => Quiet)
    BY <2>1 DEF IInv, AfterDelete
  <2> QED
    BY <1>1, <2>2 DEF Call, memory, callVars, AfterDelete, Quiet, IInv, TypeOK, CallsShape, NeedsLive, Waits
<1>2. ASSUME NEW c \in Calls, Read(c) PROVE AfterDelete'
  <2> SUFFICES ASSUME DeleteDone' PROVE AfterDelete'
    BY DEF AfterDelete
  <2>1. DeleteDone
    BY <1>2 DEF Read, Reads, memory, callVars, DeleteDone, IInv, TypeOK, CallsShape, NeedsLive, Waits, Refuses, NothingToDo, AllKinds
  <2>2. disk["root"] = None /\ disk["project"] = None /\ cache = None /\ first = "queued" /\ (up /\ ~deleting => Quiet)
    BY <2>1 DEF IInv, AfterDelete
  <2> QED
    BY <1>2, <2>2 DEF Read, Reads, memory, callVars, AfterDelete, Quiet, IInv, TypeOK, CallsShape, NeedsLive, Waits, Refuses, NothingToDo, AllKinds
<1>3. ASSUME NEW c \in Calls, Queue(c) PROVE AfterDelete'
  <2> SUFFICES ASSUME DeleteDone' PROVE AfterDelete'
    BY DEF AfterDelete
  <2>1. DeleteDone
    BY <1>3 DEF Queue, DeleteDone, IInv, TypeOK
  <2>2. up /\ deleting
    BY <1>3, <2>1 DEF Queue, IInv, AfterDelete, Quiet, DownShape, Ended, TypeOK
  <2> QED
    BY <1>3, <2>1, <2>2 DEF Queue, memory, IInv, AfterDelete
<1>4. ASSUME NEW c \in Calls, RemoveCall(c) PROVE AfterDelete'
  <2> SUFFICES ASSUME DeleteDone' PROVE AfterDelete'
    BY DEF AfterDelete
  <2>1. DeleteDone
    BY <1>4 DEF RemoveCall, memory, callVars, DeleteDone, IInv, TypeOK, CallsShape
  <2>2. disk["root"] = None /\ disk["project"] = None /\ cache = None /\ first = "queued" /\ (up /\ ~deleting => Quiet)
    BY <2>1 DEF IInv, AfterDelete
  <2> QED
    BY <1>4, <2>2 DEF RemoveCall, memory, callVars, AfterDelete, Quiet, IInv, TypeOK, CallsShape
<1>5. ASSUME NEW c \in Calls, RemoveProceeds(c) PROVE AfterDelete'
  <2> SUFFICES ASSUME DeleteDone' PROVE AfterDelete'
    BY DEF AfterDelete
  <2>1. DeleteDone
    BY <1>5 DEF RemoveProceeds, memory, callVars, DeleteDone, IInv, TypeOK, CallsShape
  <2>2. disk["root"] = None /\ disk["project"] = None /\ cache = None /\ first = "queued" /\ (up /\ ~deleting => Quiet)
    BY <2>1 DEF IInv, AfterDelete
  <2> QED
    BY <1>5, <2>2 DEF RemoveProceeds, memory, callVars, AfterDelete, Quiet, IInv, TypeOK, CallsShape
<1>6. ASSUME NEW c \in Calls, RemoveReturns(c) PROVE AfterDelete'
  <2> SUFFICES ASSUME DeleteDone' PROVE AfterDelete'
    BY DEF AfterDelete
  <2>1. first = "queued" /\ deleting /\ up
    BY <1>6 DEF RemoveReturns, IInv, CallsShape, Idle
  <2>2. ~refused /\ \A d \in indexed : disk[d] = None
    BY <1>6 DEF RemoveReturns, IInv, TypeOK, DeleteDone
  <2>3. disk["root"] = None /\ disk["project"] = None
    BY <2>1, <2>2 DEF IInv, IndexCoversDisk, Present, Dirs
  <2> QED
    BY <1>6, <2>1, <2>3 DEF RemoveReturns, AfterDelete
<1>7. ASSUME NEW c \in Calls, NEW d \in Dirs, RemoveUnlinks(c, d) PROVE AfterDelete'
  <2>1. DeleteDone' => FALSE
    <3>1. SUFFICES ASSUME DeleteDone' PROVE FALSE
      OBVIOUS
    <3>2. DeleteDone
      BY <1>7, <3>1 DEF RemoveUnlinks, callVars, DeleteDone
    <3> QED
      BY <1>7, <3>2 DEF RemoveUnlinks, Dirs, IInv, AfterDelete
  <2> QED
    BY <2>1 DEF AfterDelete
<1>8. ASSUME WriteSkipped PROVE AfterDelete'
  <2>1. writes # <<>> /\ TypeOK /\ ChainShape
    BY <1>8 DEF IInv, TypeOK, WriteSkipped, Starting
  <2>2. FirstEnds("done")
    BY <1>8 DEF WriteSkipped, Starting
  <2> SUFFICES ASSUME DeleteDone' PROVE AfterDelete'
    BY DEF AfterDelete
  <2>3. DeleteDone
    BY <1>8, <2>1, <2>2, FirstEndsFacts DEF DeleteDone, WriteSkipped, Starting, IInv, CallsShape
  <2>4. UNCHANGED <<up, disk, cache, deleting>> /\ first' = "queued" /\ up
    BY <1>8, <2>1, <2>2, FirstEndsFacts DEF WriteSkipped, Starting, memory, Idle
  <2>5. deleting
    BY <2>1, <2>3, <2>4 DEF IInv, AfterDelete, Quiet
  <2> QED
    BY <2>3, <2>4, <2>5 DEF IInv, AfterDelete
<1>9. ASSUME WriteLands PROVE AfterDelete'
  <2>1. ~DeleteDone
    BY <1>9 DEF WriteLands, Fenced, Idle, IInv, AfterDelete, Quiet, TypeOK
  <2>2. ~DeleteDone'
    BY <1>9, <2>1 DEF WriteLands, callVars, DeleteDone
  <2> QED
    BY <2>2 DEF AfterDelete
<1>10. ASSUME WriteFails PROVE AfterDelete'
  <2>1. writes # <<>> /\ TypeOK /\ ChainShape
    BY <1>10 DEF IInv, TypeOK, WriteFails
  <2>2. FirstEnds("failed")
    BY <1>10 DEF WriteFails
  <2> SUFFICES ASSUME DeleteDone' PROVE AfterDelete'
    BY DEF AfterDelete
  <2>3. DeleteDone
    BY <1>10, <2>1, <2>2, FirstEndsFacts DEF DeleteDone, WriteFails, IInv, CallsShape
  <2>4. UNCHANGED <<up, disk, cache, deleting>> /\ first' = "queued" /\ up
    BY <1>10, <2>1, <2>2, FirstEndsFacts DEF WriteFails, memory, Idle
  <2>5. deleting
    BY <2>1, <2>3, <2>4 DEF IInv, AfterDelete, Quiet
  <2> QED
    BY <2>3, <2>4, <2>5 DEF IInv, AfterDelete
<1>11. ASSUME WriteSettles PROVE AfterDelete'
  <2>1. writes # <<>> /\ TypeOK /\ ChainShape
    BY <1>11 DEF IInv, TypeOK, WriteSettles
  <2>2. FirstEnds("done")
    BY <1>11 DEF WriteSettles
  <2>3. ~DeleteDone
    BY <1>11 DEF WriteSettles, IInv, AfterDelete
  <2>4. refused => refused'
    BY <1>11 DEF WriteSettles, CleansUp
  <2>5. ~DeleteDone'
    BY <1>11, <2>1, <2>2, <2>3, <2>4, FirstEndsFacts DEF DeleteDone, WriteSettles, IInv, CallsShape, TypeOK
  <2> QED
    BY <2>5 DEF AfterDelete
<1>12. ASSUME Crash PROVE AfterDelete'
  <2> SUFFICES ASSUME DeleteDone' PROVE AfterDelete'
    BY DEF AfterDelete
  <2>1. DeleteDone
    BY <1>12 DEF Crash, memory, callVars, DeleteDone, IInv, TypeOK, CallsShape, Ended
  <2>2. disk["root"] = None /\ disk["project"] = None /\ cache = None /\ first = "queued" /\ (up /\ ~deleting => Quiet)
    BY <2>1 DEF IInv, AfterDelete
  <2> QED
    BY <1>12, <2>2 DEF Crash, memory, callVars, AfterDelete, Quiet, IInv, TypeOK, CallsShape, Ended
<1>13. ASSUME Restart PROVE AfterDelete'
  <2> SUFFICES ASSUME DeleteDone' PROVE AfterDelete'
    BY DEF AfterDelete
  <2>1. DeleteDone
    BY <1>13 DEF Restart, memory, callVars, DeleteDone, IInv, TypeOK, CallsShape, Loadable, Loaded, DownShape, Ended
  <2>2. disk["root"] = None /\ disk["project"] = None /\ cache = None /\ first = "queued" /\ (up /\ ~deleting => Quiet)
    BY <2>1 DEF IInv, AfterDelete
  <2> QED
    BY <1>13, <2>2 DEF Restart, memory, callVars, AfterDelete, Quiet, IInv, TypeOK, CallsShape, Loadable, Loaded, DownShape, Ended
<1>14. ASSUME Resume PROVE AfterDelete'
  <2> SUFFICES ASSUME DeleteDone' PROVE AfterDelete'
    BY DEF AfterDelete
  <2>1. DeleteDone
    BY <1>14 DEF Resume, memory, callVars, DeleteDone, IInv, TypeOK, CallsShape
  <2>2. disk["root"] = None /\ disk["project"] = None /\ cache = None /\ first = "queued" /\ (up /\ ~deleting => Quiet)
    BY <2>1 DEF IInv, AfterDelete
  <2> QED
    BY <1>14, <2>2 DEF Resume, memory, callVars, AfterDelete, Quiet, IInv, TypeOK, CallsShape
<1>15. ASSUME UNCHANGED vars PROVE AfterDelete'
  <2> SUFFICES ASSUME DeleteDone' PROVE AfterDelete'
    BY DEF AfterDelete
  <2>1. DeleteDone
    BY <1>15 DEF vars, memory, callVars, DeleteDone, IInv, TypeOK, CallsShape
  <2>2. disk["root"] = None /\ disk["project"] = None /\ cache = None /\ first = "queued" /\ (up /\ ~deleting => Quiet)
    BY <2>1 DEF IInv, AfterDelete
  <2> QED
    BY <1>15, <2>2 DEF vars, memory, callVars, AfterDelete, Quiet, IInv, TypeOK, CallsShape
<1>16. ASSUME WriteStarts PROVE AfterDelete'
  BY <1>16 DEF WriteStarts, Starting, Fenced, memory, callVars, IInv, AfterDelete, DeleteDone, Quiet
<1> QED
  BY <1>1, <1>2, <1>3, <1>4, <1>5, <1>6, <1>7, <1>8, <1>9, <1>10, <1>11, <1>12, <1>13, <1>14, <1>15, <1>16 DEF Next, Proceed, WriteNext

(* Who waits has a write to wait for.                                      *)
LEMMA WaitersStep == IInv /\ [Next]_vars => WaitersHaveWrites'
<1> SUFFICES ASSUME IInv, [Next]_vars PROVE WaitersHaveWrites'
  OBVIOUS
<1>1. ASSUME NEW c \in Calls, NEW k \in Kinds, Call(c, k) PROVE WaitersHaveWrites'
  <2>1. writes' = writes /\ Len(writes) \in Nat
    BY <1>1, LenProperties DEF Call, IInv, TypeOK, callVars
  <2>2. \A d \in Calls : pc'[d] = "queued" <=> pc[d] = "queued"
    BY <1>1 DEF Call, IInv, TypeOK, callVars, NeedsLive, Waits
  <2>3. \A d \in Calls : pc'[d] = "waiting" =>
          ahead'[d] = Len(writes) \/ (pc[d] = "waiting" /\ ahead'[d] = ahead[d])
    BY <1>1, <2>1 DEF Call, IInv, TypeOK, callVars
  <2> QED
    BY <2>1, <2>2, <2>3 DEF IInv, WaitersHaveWrites
<1>2. ASSUME NEW c \in Calls, Read(c) PROVE WaitersHaveWrites'
  <2>1. writes' = writes /\ Len(writes) \in Nat
    BY <1>2, LenProperties DEF Read, Reads, IInv, TypeOK, callVars
  <2>2. \A d \in Calls : pc'[d] = "queued" <=> pc[d] = "queued"
    BY <1>2 DEF Read, Reads, IInv, TypeOK, callVars, NeedsLive, Waits
  <2>3. \A d \in Calls : pc'[d] = "waiting" =>
          ahead'[d] = Len(writes) \/ (pc[d] = "waiting" /\ ahead'[d] = ahead[d])
    BY <1>2, <2>1 DEF Read, Reads, IInv, TypeOK, callVars
  <2> QED
    BY <2>1, <2>2, <2>3 DEF IInv, WaitersHaveWrites
<1>3. ASSUME NEW c \in Calls, Queue(c) PROVE WaitersHaveWrites'
  <2> DEFINE e == [by |-> c, record |-> Changed(c, base[c])]
  <2>1. e \in Entry /\ e.by = c
    BY ChangedIsRecord DEF IInv, Entry
  <2>2. writes' = Append(writes, e) /\ pc' = [pc EXCEPT ![c] = "queued"] /\ ahead' = ahead
        /\ writes \in Seq(Entry) /\ pc \in [Calls -> Places] /\ ahead \in [Calls -> Nat]
    BY <1>3 DEF Queue, IInv, TypeOK, Entry
  <2> HIDE DEF e
  <2>3. /\ Len(writes) \in Nat /\ Len(writes') = Len(writes) + 1
        /\ \A i \in 1..Len(writes) : writes'[i] = writes[i]
        /\ writes'[Len(writes) + 1] = e
    BY <2>1, <2>2, ChainAppend
  <2>4. \A i \in 1..Len(writes') : i \in 1..Len(writes) \/ i = Len(writes) + 1
    BY <2>3
  <2>5. Len(writes) + 1 \in 1..Len(writes') /\ 1..Len(writes) \subseteq 1..Len(writes')
    BY <2>3
  <2>6. ASSUME NEW d \in Calls, pc'[d] = "queued" PROVE \E i \in 1..Len(writes') : writes'[i].by = d
    <3>1. CASE d = c
      BY <3>1, <2>1, <2>3, <2>5
    <3>2. CASE d # c
      <4>1. \E i \in 1..Len(writes) : writes[i].by = d
        BY <3>2, <2>2, <2>6 DEF IInv, WaitersHaveWrites
      <4> QED
        BY <4>1, <2>3, <2>5
    <3> QED
      BY <3>1, <3>2
  <2>7. ASSUME NEW d \in Calls, NEW i \in 1..Len(writes'), writes'[i].by = d PROVE pc'[d] = "queued"
    <3>1. CASE i \in 1..Len(writes)
      BY <3>1, <2>2, <2>3, <2>7 DEF IInv, WaitersHaveWrites
    <3>2. CASE i = Len(writes) + 1
      BY <3>2, <2>1, <2>2, <2>3, <2>7
    <3> QED
      BY <3>1, <3>2, <2>4
  <2>8. \A d \in Calls : pc'[d] = "waiting" => ahead'[d] <= Len(writes')
    <3> SUFFICES ASSUME NEW d \in Calls, pc'[d] = "waiting" PROVE ahead'[d] <= Len(writes')
      OBVIOUS
    <3>1. pc[d] = "waiting" /\ ahead[d] \in Nat
      BY <2>2
    <3>2. ahead[d] <= Len(writes)
      BY <3>1 DEF IInv, WaitersHaveWrites
    <3> QED
      BY <2>2, <2>3, <3>1, <3>2
  <2> QED
    BY <2>6, <2>7, <2>8 DEF WaitersHaveWrites
<1>4. ASSUME NEW c \in Calls, RemoveCall(c) PROVE WaitersHaveWrites'
  <2>1. writes' = writes /\ Len(writes) \in Nat
    BY <1>4, LenProperties DEF RemoveCall, IInv, TypeOK, callVars
  <2>2. \A d \in Calls : pc'[d] = "queued" <=> pc[d] = "queued"
    BY <1>4 DEF RemoveCall, IInv, TypeOK, callVars, NeedsLive, Waits
  <2>3. \A d \in Calls : pc'[d] = "waiting" =>
          ahead'[d] = Len(writes) \/ (pc[d] = "waiting" /\ ahead'[d] = ahead[d])
    BY <1>4, <2>1 DEF RemoveCall, IInv, TypeOK, callVars
  <2> QED
    BY <2>1, <2>2, <2>3 DEF IInv, WaitersHaveWrites
<1>5. ASSUME NEW c \in Calls, RemoveProceeds(c) PROVE WaitersHaveWrites'
  <2>1. writes' = writes /\ Len(writes) \in Nat
    BY <1>5, LenProperties DEF RemoveProceeds, IInv, TypeOK, callVars
  <2>2. \A d \in Calls : pc'[d] = "queued" <=> pc[d] = "queued"
    BY <1>5 DEF RemoveProceeds, IInv, TypeOK, callVars, NeedsLive, Waits
  <2>3. \A d \in Calls : pc'[d] = "waiting" =>
          ahead'[d] = Len(writes) \/ (pc[d] = "waiting" /\ ahead'[d] = ahead[d])
    BY <1>5, <2>1 DEF RemoveProceeds, IInv, TypeOK, callVars
  <2> QED
    BY <2>1, <2>2, <2>3 DEF IInv, WaitersHaveWrites
<1>6. ASSUME NEW c \in Calls, RemoveReturns(c) PROVE WaitersHaveWrites'
  <2>1. writes' = writes /\ Len(writes) \in Nat
    BY <1>6, LenProperties DEF RemoveReturns, IInv, TypeOK, callVars
  <2>2. \A d \in Calls : pc'[d] = "queued" <=> pc[d] = "queued"
    BY <1>6 DEF RemoveReturns, IInv, TypeOK, callVars, NeedsLive, Waits
  <2>3. \A d \in Calls : pc'[d] = "waiting" =>
          ahead'[d] = Len(writes) \/ (pc[d] = "waiting" /\ ahead'[d] = ahead[d])
    BY <1>6, <2>1 DEF RemoveReturns, IInv, TypeOK, callVars
  <2> QED
    BY <2>1, <2>2, <2>3 DEF IInv, WaitersHaveWrites
<1>7. ASSUME NEW c \in Calls, NEW d \in Dirs, RemoveUnlinks(c, d) PROVE WaitersHaveWrites'
  <2>1. writes' = writes /\ Len(writes) \in Nat
    BY <1>7, LenProperties DEF RemoveUnlinks, IInv, TypeOK, callVars
  <2>2. \A b \in Calls : pc'[b] = "queued" <=> pc[b] = "queued"
    BY <1>7 DEF RemoveUnlinks, IInv, TypeOK, callVars, NeedsLive, Waits
  <2>3. \A b \in Calls : pc'[b] = "waiting" =>
          ahead'[b] = Len(writes) \/ (pc[b] = "waiting" /\ ahead'[b] = ahead[b])
    BY <1>7, <2>1 DEF RemoveUnlinks, IInv, TypeOK, callVars
  <2> QED
    BY <2>1, <2>2, <2>3 DEF IInv, WaitersHaveWrites
<1>8. ASSUME WriteSkipped PROVE WaitersHaveWrites'
  <2>1. writes # <<>> /\ TypeOK /\ ChainShape
    BY <1>8 DEF IInv, TypeOK, WriteSkipped, Starting
  <2>2. FirstEnds("done")
    BY <1>8 DEF WriteSkipped, Starting
  <2>3. /\ writes' = Tail(writes) /\ Head(writes).by \in Calls
        /\ ahead \in [Calls -> Nat] /\ pc \in [Calls -> Places]
        /\ pc'[Head(writes).by] \in {"done", "failed", "reading"}
        /\ \A c \in Calls : /\ ahead'[c] = IF ahead[c] = 0 THEN 0 ELSE ahead[c] - 1
                            /\ c # Head(writes).by /\ pc'[c] \in {"queued", "waiting"} => pc'[c] = pc[c]
                            /\ c # Head(writes).by /\ pc[c] = "queued" => pc'[c] = "queued"
    BY <2>1, <2>2, FirstEndsFacts DEF TypeOK
  <2>4. /\ Head(writes) = writes[1] /\ Len(writes) \in Nat /\ Len(writes) >= 1
        /\ \A i \in 1..Len(Tail(writes)) : i + 1 \in 1..Len(writes) /\ Tail(writes)[i] = writes[i + 1]
        /\ Len(Tail(writes)) = Len(writes) - 1
    BY <2>1, ChainTail DEF TypeOK, Entry
  <2>5. \A i \in 1..Len(Tail(writes)) : Tail(writes)[i].by # Head(writes).by
    <3> SUFFICES ASSUME NEW i \in 1..Len(Tail(writes)), Tail(writes)[i].by = Head(writes).by PROVE FALSE
      OBVIOUS
    <3>1. i + 1 \in 1..Len(writes) /\ 1 \in 1..Len(writes) /\ writes[i + 1].by = writes[1].by
      BY <2>4
    <3>2. i + 1 = 1
      BY <3>1, <2>1 DEF ChainShape
    <3> QED
      BY <3>2
  <2>6. ASSUME NEW c \in Calls, c # Head(writes).by, pc[c] = "queued"
        PROVE  \E i \in 1..Len(Tail(writes)) : Tail(writes)[i].by = c
    <3>1. PICK j \in 1..Len(writes) : writes[j].by = c
      BY <2>6 DEF IInv, WaitersHaveWrites
    <3>2. j # 1
      BY <2>4, <2>6, <3>1
    <3>3. j - 1 \in 1..Len(Tail(writes)) /\ (j - 1) + 1 = j
      BY <2>4, <3>2
    <3>4. Tail(writes)[j - 1].by = c
      BY <2>4, <3>1, <3>3
    <3> QED
      BY <3>3, <3>4
  <2>7. ASSUME NEW c \in Calls, \E i \in 1..Len(Tail(writes)) : Tail(writes)[i].by = c
        PROVE  c # Head(writes).by /\ pc[c] = "queued"
    <3>1. PICK i \in 1..Len(Tail(writes)) : Tail(writes)[i].by = c
      BY <2>7
    <3>2. i + 1 \in 1..Len(writes) /\ writes[i + 1].by = c
      BY <2>4, <3>1
    <3> QED
      BY <2>5, <3>1, <3>2, <2>1 DEF ChainShape
  <2>8. \A c \in Calls : pc'[c] = "queued" <=> \E i \in 1..Len(Tail(writes)) : Tail(writes)[i].by = c
    BY <2>3, <2>6, <2>7
  <2>9. \A c \in Calls : pc'[c] = "waiting" => ahead'[c] <= Len(Tail(writes))
    <3> SUFFICES ASSUME NEW c \in Calls, pc'[c] = "waiting" PROVE ahead'[c] <= Len(Tail(writes))
      OBVIOUS
    <3>1. pc[c] = "waiting" /\ ahead[c] \in Nat /\ ahead'[c] = IF ahead[c] = 0 THEN 0 ELSE ahead[c] - 1
      BY <2>3
    <3>2. ahead[c] <= Len(writes)
      BY <3>1 DEF IInv, WaitersHaveWrites
    <3> QED
      BY <3>1, <3>2, <2>4
  <2> QED
    BY <2>3, <2>8, <2>9 DEF WaitersHaveWrites
<1>9. ASSUME WriteLands PROVE WaitersHaveWrites'
  <2>1. writes' = writes /\ Len(writes) \in Nat
    BY <1>9, LenProperties DEF WriteLands, Lands, IInv, TypeOK, callVars
  <2>2. \A d \in Calls : pc'[d] = "queued" <=> pc[d] = "queued"
    BY <1>9 DEF WriteLands, Lands, IInv, TypeOK, callVars, NeedsLive, Waits
  <2>3. \A d \in Calls : pc'[d] = "waiting" =>
          ahead'[d] = Len(writes) \/ (pc[d] = "waiting" /\ ahead'[d] = ahead[d])
    BY <1>9, <2>1 DEF WriteLands, Lands, IInv, TypeOK, callVars
  <2> QED
    BY <2>1, <2>2, <2>3 DEF IInv, WaitersHaveWrites
<1>10. ASSUME WriteFails PROVE WaitersHaveWrites'
  <2>1. writes # <<>> /\ TypeOK /\ ChainShape
    BY <1>10 DEF IInv, TypeOK, WriteFails
  <2>2. FirstEnds("failed")
    BY <1>10 DEF WriteFails
  <2>3. /\ writes' = Tail(writes) /\ Head(writes).by \in Calls
        /\ ahead \in [Calls -> Nat] /\ pc \in [Calls -> Places]
        /\ pc'[Head(writes).by] \in {"done", "failed", "reading"}
        /\ \A c \in Calls : /\ ahead'[c] = IF ahead[c] = 0 THEN 0 ELSE ahead[c] - 1
                            /\ c # Head(writes).by /\ pc'[c] \in {"queued", "waiting"} => pc'[c] = pc[c]
                            /\ c # Head(writes).by /\ pc[c] = "queued" => pc'[c] = "queued"
    BY <2>1, <2>2, FirstEndsFacts DEF TypeOK
  <2>4. /\ Head(writes) = writes[1] /\ Len(writes) \in Nat /\ Len(writes) >= 1
        /\ \A i \in 1..Len(Tail(writes)) : i + 1 \in 1..Len(writes) /\ Tail(writes)[i] = writes[i + 1]
        /\ Len(Tail(writes)) = Len(writes) - 1
    BY <2>1, ChainTail DEF TypeOK, Entry
  <2>5. \A i \in 1..Len(Tail(writes)) : Tail(writes)[i].by # Head(writes).by
    <3> SUFFICES ASSUME NEW i \in 1..Len(Tail(writes)), Tail(writes)[i].by = Head(writes).by PROVE FALSE
      OBVIOUS
    <3>1. i + 1 \in 1..Len(writes) /\ 1 \in 1..Len(writes) /\ writes[i + 1].by = writes[1].by
      BY <2>4
    <3>2. i + 1 = 1
      BY <3>1, <2>1 DEF ChainShape
    <3> QED
      BY <3>2
  <2>6. ASSUME NEW c \in Calls, c # Head(writes).by, pc[c] = "queued"
        PROVE  \E i \in 1..Len(Tail(writes)) : Tail(writes)[i].by = c
    <3>1. PICK j \in 1..Len(writes) : writes[j].by = c
      BY <2>6 DEF IInv, WaitersHaveWrites
    <3>2. j # 1
      BY <2>4, <2>6, <3>1
    <3>3. j - 1 \in 1..Len(Tail(writes)) /\ (j - 1) + 1 = j
      BY <2>4, <3>2
    <3>4. Tail(writes)[j - 1].by = c
      BY <2>4, <3>1, <3>3
    <3> QED
      BY <3>3, <3>4
  <2>7. ASSUME NEW c \in Calls, \E i \in 1..Len(Tail(writes)) : Tail(writes)[i].by = c
        PROVE  c # Head(writes).by /\ pc[c] = "queued"
    <3>1. PICK i \in 1..Len(Tail(writes)) : Tail(writes)[i].by = c
      BY <2>7
    <3>2. i + 1 \in 1..Len(writes) /\ writes[i + 1].by = c
      BY <2>4, <3>1
    <3> QED
      BY <2>5, <3>1, <3>2, <2>1 DEF ChainShape
  <2>8. \A c \in Calls : pc'[c] = "queued" <=> \E i \in 1..Len(Tail(writes)) : Tail(writes)[i].by = c
    BY <2>3, <2>6, <2>7
  <2>9. \A c \in Calls : pc'[c] = "waiting" => ahead'[c] <= Len(Tail(writes))
    <3> SUFFICES ASSUME NEW c \in Calls, pc'[c] = "waiting" PROVE ahead'[c] <= Len(Tail(writes))
      OBVIOUS
    <3>1. pc[c] = "waiting" /\ ahead[c] \in Nat /\ ahead'[c] = IF ahead[c] = 0 THEN 0 ELSE ahead[c] - 1
      BY <2>3
    <3>2. ahead[c] <= Len(writes)
      BY <3>1 DEF IInv, WaitersHaveWrites
    <3> QED
      BY <3>1, <3>2, <2>4
  <2> QED
    BY <2>3, <2>8, <2>9 DEF WaitersHaveWrites
<1>11. ASSUME WriteSettles PROVE WaitersHaveWrites'
  <2>1. writes # <<>> /\ TypeOK /\ ChainShape
    BY <1>11 DEF IInv, TypeOK, WriteSettles
  <2>2. FirstEnds("done")
    BY <1>11 DEF WriteSettles
  <2>3. /\ writes' = Tail(writes) /\ Head(writes).by \in Calls
        /\ ahead \in [Calls -> Nat] /\ pc \in [Calls -> Places]
        /\ pc'[Head(writes).by] \in {"done", "failed", "reading"}
        /\ \A c \in Calls : /\ ahead'[c] = IF ahead[c] = 0 THEN 0 ELSE ahead[c] - 1
                            /\ c # Head(writes).by /\ pc'[c] \in {"queued", "waiting"} => pc'[c] = pc[c]
                            /\ c # Head(writes).by /\ pc[c] = "queued" => pc'[c] = "queued"
    BY <2>1, <2>2, FirstEndsFacts DEF TypeOK
  <2>4. /\ Head(writes) = writes[1] /\ Len(writes) \in Nat /\ Len(writes) >= 1
        /\ \A i \in 1..Len(Tail(writes)) : i + 1 \in 1..Len(writes) /\ Tail(writes)[i] = writes[i + 1]
        /\ Len(Tail(writes)) = Len(writes) - 1
    BY <2>1, ChainTail DEF TypeOK, Entry
  <2>5. \A i \in 1..Len(Tail(writes)) : Tail(writes)[i].by # Head(writes).by
    <3> SUFFICES ASSUME NEW i \in 1..Len(Tail(writes)), Tail(writes)[i].by = Head(writes).by PROVE FALSE
      OBVIOUS
    <3>1. i + 1 \in 1..Len(writes) /\ 1 \in 1..Len(writes) /\ writes[i + 1].by = writes[1].by
      BY <2>4
    <3>2. i + 1 = 1
      BY <3>1, <2>1 DEF ChainShape
    <3> QED
      BY <3>2
  <2>6. ASSUME NEW c \in Calls, c # Head(writes).by, pc[c] = "queued"
        PROVE  \E i \in 1..Len(Tail(writes)) : Tail(writes)[i].by = c
    <3>1. PICK j \in 1..Len(writes) : writes[j].by = c
      BY <2>6 DEF IInv, WaitersHaveWrites
    <3>2. j # 1
      BY <2>4, <2>6, <3>1
    <3>3. j - 1 \in 1..Len(Tail(writes)) /\ (j - 1) + 1 = j
      BY <2>4, <3>2
    <3>4. Tail(writes)[j - 1].by = c
      BY <2>4, <3>1, <3>3
    <3> QED
      BY <3>3, <3>4
  <2>7. ASSUME NEW c \in Calls, \E i \in 1..Len(Tail(writes)) : Tail(writes)[i].by = c
        PROVE  c # Head(writes).by /\ pc[c] = "queued"
    <3>1. PICK i \in 1..Len(Tail(writes)) : Tail(writes)[i].by = c
      BY <2>7
    <3>2. i + 1 \in 1..Len(writes) /\ writes[i + 1].by = c
      BY <2>4, <3>1
    <3> QED
      BY <2>5, <3>1, <3>2, <2>1 DEF ChainShape
  <2>8. \A c \in Calls : pc'[c] = "queued" <=> \E i \in 1..Len(Tail(writes)) : Tail(writes)[i].by = c
    BY <2>3, <2>6, <2>7
  <2>9. \A c \in Calls : pc'[c] = "waiting" => ahead'[c] <= Len(Tail(writes))
    <3> SUFFICES ASSUME NEW c \in Calls, pc'[c] = "waiting" PROVE ahead'[c] <= Len(Tail(writes))
      OBVIOUS
    <3>1. pc[c] = "waiting" /\ ahead[c] \in Nat /\ ahead'[c] = IF ahead[c] = 0 THEN 0 ELSE ahead[c] - 1
      BY <2>3
    <3>2. ahead[c] <= Len(writes)
      BY <3>1 DEF IInv, WaitersHaveWrites
    <3> QED
      BY <3>1, <3>2, <2>4
  <2> QED
    BY <2>3, <2>8, <2>9 DEF WaitersHaveWrites
<1>12. ASSUME Crash PROVE WaitersHaveWrites'
  <2>1. writes' = <<>> /\ \A d \in Calls : pc'[d] \notin {"queued", "waiting"}
    BY <1>12 DEF Crash, Ended
  <2>2. Len(writes') = 0
    BY <2>1, EmptyChain
  <2>3. 1..Len(writes') = {}
    BY <2>2
  <2> QED
    BY <2>1, <2>3 DEF WaitersHaveWrites
<1>13. ASSUME Restart PROVE WaitersHaveWrites'
  <2>1. writes' = writes /\ Len(writes) \in Nat
    BY <1>13, LenProperties DEF Restart, IInv, TypeOK, callVars
  <2>2. \A d \in Calls : pc'[d] = "queued" <=> pc[d] = "queued"
    BY <1>13 DEF Restart, IInv, TypeOK, callVars, NeedsLive, Waits
  <2>3. \A d \in Calls : pc'[d] = "waiting" =>
          ahead'[d] = Len(writes) \/ (pc[d] = "waiting" /\ ahead'[d] = ahead[d])
    BY <1>13, <2>1 DEF Restart, IInv, TypeOK, callVars
  <2> QED
    BY <2>1, <2>2, <2>3 DEF IInv, WaitersHaveWrites
<1>14. ASSUME Resume PROVE WaitersHaveWrites'
  <2>1. writes' = writes /\ Len(writes) \in Nat
    BY <1>14, LenProperties DEF Resume, IInv, TypeOK, callVars
  <2>2. \A d \in Calls : pc'[d] = "queued" <=> pc[d] = "queued"
    BY <1>14 DEF Resume, IInv, TypeOK, callVars, NeedsLive, Waits
  <2>3. \A d \in Calls : pc'[d] = "waiting" =>
          ahead'[d] = Len(writes) \/ (pc[d] = "waiting" /\ ahead'[d] = ahead[d])
    BY <1>14, <2>1 DEF Resume, IInv, TypeOK, callVars
  <2> QED
    BY <2>1, <2>2, <2>3 DEF IInv, WaitersHaveWrites
<1>15. ASSUME UNCHANGED vars PROVE WaitersHaveWrites'
  <2>1. writes' = writes /\ Len(writes) \in Nat
    BY <1>15, LenProperties DEF vars, IInv, TypeOK, callVars
  <2>2. \A d \in Calls : pc'[d] = "queued" <=> pc[d] = "queued"
    BY <1>15 DEF vars, IInv, TypeOK, callVars, NeedsLive, Waits
  <2>3. \A d \in Calls : pc'[d] = "waiting" =>
          ahead'[d] = Len(writes) \/ (pc[d] = "waiting" /\ ahead'[d] = ahead[d])
    BY <1>15, <2>1 DEF vars, IInv, TypeOK, callVars
  <2> QED
    BY <2>1, <2>2, <2>3 DEF IInv, WaitersHaveWrites
<1>16. ASSUME WriteStarts PROVE WaitersHaveWrites'
  BY <1>16 DEF WriteStarts, memory, callVars, IInv, WaitersHaveWrites
<1> QED
  BY <1>1, <1>2, <1>3, <1>4, <1>5, <1>6, <1>7, <1>8, <1>9, <1>10, <1>11, <1>12, <1>13, <1>14, <1>15, <1>16 DEF Next, Proceed, WriteNext

LEMMA InitInv == Init => IInv
<1> SUFFICES ASSUME Init PROVE IInv
  OBVIOUS
<1>1. PICK d \in Dirs, title \in {"none", "user"}, archived \in BOOLEAN :
        disk = [e \in Dirs |-> IF e = d THEN [by |-> None, title |-> title, archived |-> archived]
                                        ELSE None]
  BY DEF Init
<1>2. [by |-> None, title |-> title, archived |-> archived] \in Records
  BY DEF Records
<1>3. disk \in [Dirs -> Files]
  BY <1>1, <1>2 DEF Files
<1>4. writes = <<>> /\ writes \in Seq(Entry) /\ Len(writes) = 0 /\ first = "queued"
  BY EmptyChain DEF Init
<1>5a. cache \in Files /\ pathById \in Dirs \cup {None} /\ indexed \subseteq Dirs
  BY <1>3 DEF Init, Loadable, Loaded, Present, Files, Dirs
<1>5b. pc \in [Calls -> Places] /\ kind \in [Calls -> AllKinds] /\ base \in [Calls -> Files] /\ ahead \in [Calls -> Nat]
  BY DEF Init, Files, Places, AllKinds
<1>5c. up \in BOOLEAN /\ live \in BOOLEAN /\ refused \in BOOLEAN /\ deleting \in BOOLEAN
       /\ crashes = 0
  BY DEF Init
<1>5d. crashes \in 0..Crashes
  BY <1>5c, StorageAssumption
<1>5. TypeOK
  BY <1>3, <1>5a, <1>5b, <1>5c, <1>5d, <1>4 DEF TypeOK, Stages, Entry
<1>6. CallsShape /\ DownShape /\ IndexCoversDisk /\ AfterDelete
  BY <1>4 DEF Init, CallsShape, DownShape, IndexCoversDisk, AfterDelete, DeleteDone
<1>7. ChainShape /\ WaitersHaveWrites
  BY <1>4 DEF Init, ChainShape, WaitersHaveWrites
<1>8. RestartReadsNewest
  BY DEF Init, RestartReadsNewest
<1> QED
  BY <1>5, <1>6, <1>7, <1>8 DEF IInv

-----------------------------------------------------------------------------
(* The strengthening is inductive: it holds in every reachable state of    *)
(* agent-storage.ts as modelled, crashes and refused unlinks included.     *)
THEOREM InductiveInvariant == Spec => []IInv
<1>1. IInv /\ [Next]_vars => IInv'
  BY TypeStep, CallsStep, ChainStep, DownStep, IndexStep, NewestStep, AfterStep, WaitersStep DEF IInv
<1> QED
  BY InitInv, <1>1, PTL DEF Spec

(* Every variable of the storage of one agent keeps its type.              *)
THEOREM TypeCorrect == Spec => []TypeOK
<1>1. IInv => TypeOK
  BY DEF IInv
<1> QED
  BY InductiveInvariant, <1>1, PTL

(* Files, cache and index agree at every await and every crash: writeRecord *)
(* replaces before it unlinks, and doLoad reads in the matching order.     *)
THEOREM FilesAgree == Spec => []RecordsAgree
<1>1. IInv => RecordsAgree
  BY DEF IInv, RecordsAgree
<1> QED
  BY InductiveInvariant, <1>1, PTL

(* Once remove() returned, nothing brings the record back.                 *)
THEOREM DeleteIsFinal == Spec => []DeletedStaysDeleted
<1>1. IInv => DeletedStaysDeleted
  BY DEF IInv, AfterDelete, DeleteDone, DeletedStaysDeleted, Loadable, Loaded
<1> QED
  BY InductiveInvariant, <1>1, PTL

(* Every call that waits has a write of the chain to wait for.             *)
THEOREM WaitersAreServed == Spec => []WaitersHaveWrites
<1>1. IInv => WaitersHaveWrites
  BY DEF IInv
<1> QED
  BY InductiveInvariant, <1>1, PTL
=============================================================================
