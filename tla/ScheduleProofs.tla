--------------------------- MODULE ScheduleProofs ---------------------------
(***************************************************************************)
(* Proofs about Schedule, for any number of schedules, of timer ticks and  *)
(* of calls under way, any cadence, maxRuns and expiry.                    *)
(***************************************************************************)
EXTENDS Schedule, SequenceTheorems, WellFoundedInduction, TLAPS

-----------------------------------------------------------------------------
(* The order of visits, and the time of the next run.                      *)

(* A set of natural numbers that is not empty has a least member.           *)
LEMMA LeastNat ==
  ASSUME NEW T \in SUBSET Nat, T # {}
  PROVE \E x \in T : \A y \in T : x <= y
<1>1. \E x \in T : \A y \in T : ~(<<y, x>> \in OpToRel(<, Nat))
  BY WFMin, NatLessThanWellFounded, Zenon
<1>2. \A x, y \in T : y < x => <<y,x>> \in OpToRel(<, Nat)
  BY DEF OpToRel
<1>3. \A x, y \in T : ~(y < x) => x <= y
  OBVIOUS
<1> QED BY <1>1, <1>2, <1>3

(* Among the schedules a call still has to visit there is a first one.      *)
LEMMA AtIsNext ==
  ASSUME NEW c, todo[c] \in SUBSET Schedules, todo[c] # {}
  PROVE  At(c) \in todo[c] /\ At(c) \in Schedules
<1>1. \E s \in todo[c] : \A r \in todo[c] : s <= r
  BY LeastNat, ScheduleAssumption DEF Schedules
<1> QED BY <1>1 DEF At

(* computeNextRunAt, repeated, gives a time after the present.              *)
LEMMA NextAfterLater ==
  ASSUME NEW after \in Nat, NEW t \in Nat
  PROVE  NextAfter(after, t) \in Nat /\ NextAfter(after, t) > t
<1> Period \in Nat \ {0} BY ScheduleAssumption
<1>1. CASE t < after
  BY <1>1 DEF NextAfter
<1>2. CASE after <= t
  <2> DEFINE q == (t - after) \div Period
  <2>1. q \in Nat /\ t - after < Period * q + Period /\ Period * q \in Nat
    BY <1>2
  <2>2. NextAfter(after, t) = after + Period * (q + 1)
    BY <1>2 DEF NextAfter
  <2> HIDE DEF q
  <2>3. Period * (q + 1) = Period * q + Period
    BY <2>1
  <2> QED BY <2>1, <2>2, <2>3, <1>2
<1> QED BY <1>1, <1>2

(* A record without one of its open runs is a record.                       *)
LEMMA WithoutSeq ==
  ASSUME NEW q \in Seq(Calls), NEW c, \E i \in DOMAIN q : q[i] = c
  PROVE  Without(q, c) \in Seq(Calls)
<1>1. PICK i \in DOMAIN q : i = CHOOSE j \in DOMAIN q : q[j] = c
  OBVIOUS
<1>2. i \in 1..Len(q)
  BY <1>1
<1>3. SubSeq(q, 1, i - 1) \in Seq(Calls) /\ SubSeq(q, i + 1, Len(q)) \in Seq(Calls)
  BY <1>2, SubSeqProperties
<1> QED BY <1>1, <1>3 DEF Without

LEMMA WithoutOnly ==
  ASSUME NEW c
  PROVE  Without(<<c>>, c) = <<>>
<1> DEFINE i == CHOOSE j \in DOMAIN <<c>> : <<c>>[j] = c
<1>1. i = 1
  OBVIOUS
<1>2. SubSeq(<<c>>, 1, 0) = <<>> /\ SubSeq(<<c>>, 2, 1) = <<>>
  BY SubSeqEmpty
<1> QED BY <1>1, <1>2 DEF Without

(* addRun: the schedule itself stays as it is, and a record without open    *)
(* runs gets exactly one.                                                   *)
LEMMA WithRunRecord ==
  ASSUME NEW r \in Record, NEW c \in Calls
  PROVE  /\ WithRun(r, c) \in Record
         /\ WithRun(r, c).status = r.status
         /\ WithRun(r, c).next = r.next
         /\ WithRun(r, c).ended = r.ended
         /\ r.open = <<>> => WithRun(r, c).open = <<c>>
<1> DEFINE o == IF c \in Runs(r) THEN Without(r.open, c) ELSE r.open
<1>1. o \in Seq(Calls)
  BY WithoutSeq DEF Runs, Record
<1>2. Append(o, c) \in Seq(Calls)
  BY <1>1
<1>3. WithRun(r, c) = [r EXCEPT !.open = Append(o, c)]
  BY DEF WithRun
<1>4. r.open = <<>> => Append(o, c) = <<c>>
  <2>1. r.open = <<>> => o = <<>>
    BY DEF Runs
  <2>2. Append(<<>>, c) = <<c>>
    OBVIOUS
  <2> QED BY <2>1, <2>2
<1> DEFINE p == Append(o, c)
<1>5. p \in Seq(Calls) /\ WithRun(r, c) = [r EXCEPT !.open = p] /\ (r.open = <<>> => p = <<c>>)
  BY <1>2, <1>3, <1>4
<1> HIDE DEF p
<1> QED BY <1>5 DEF Record

(* A record whose only open run is closed has none, and one run more that   *)
(* ended, up to maxRuns.                                                    *)
LEMMA CloseRunRecord ==
  ASSUME NEW r \in Record, NEW c \in Calls
  PROVE  /\ CloseRun(r, c) \in Record
         /\ CloseRun(r, c).status = r.status
         /\ CloseRun(r, c).next = r.next
         /\ r.open = <<>> => CloseRun(r, c) = r
         /\ r.open = <<c>> =>
              /\ CloseRun(r, c).open = <<>>
              /\ CloseRun(r, c).ended = r.ended + 1 \/ CloseRun(r, c).ended = MaxRuns
<1> MaxRuns \in Nat BY ScheduleAssumption
<1>1. CASE c \notin Runs(r)
  BY <1>1 DEF CloseRun, Runs
<1>2. CASE c \in Runs(r)
  <2> DEFINE o == Without(r.open, c)
  <2>1. o \in Seq(Calls)
    BY <1>2, WithoutSeq DEF Runs, Record
  <2>2. CloseRun(r, c) = [r EXCEPT !.open = o, !.ended = IF @ < MaxRuns THEN @ + 1 ELSE @]
    BY <1>2 DEF CloseRun
  <2>3. r.open # <<>>
    BY <1>2 DEF Runs
  <2>4. r.open = <<c>> => o = <<>>
    BY WithoutOnly
  <2> DEFINE e == IF r.ended < MaxRuns THEN r.ended + 1 ELSE r.ended
  <2>5. e \in 0..MaxRuns /\ (e = r.ended + 1 \/ e = MaxRuns)
    BY DEF Record
  <2>6. CloseRun(r, c) = [r EXCEPT !.open = o, !.ended = e]
    BY <2>2
  <2> HIDE DEF o, e
  <2>7. CloseRun(r, c) = [status |-> r.status, next |-> r.next, open |-> o, ended |-> e]
    BY <2>6 DEF Record
  <2> QED BY <2>1, <2>3, <2>4, <2>5, <2>7 DEF Record
<1> QED BY <1>1, <1>2

(* What completing and moving the next time change of a record.             *)
LEMMA CompletedRecord ==
  ASSUME NEW r \in Record
  PROVE  /\ Completed(r) \in Record
         /\ Completed(r).status = "completed" /\ Completed(r).next = None
         /\ Completed(r).open = r.open /\ Completed(r).ended = r.ended
<1>1. PICK q : q = [r EXCEPT !.status = "completed", !.next = None]
  OBVIOUS
<1>2. /\ q \in Record /\ q.status = "completed" /\ q.next = None
      /\ q.open = r.open /\ q.ended = r.ended
  BY <1>1 DEF Record
<1>3. Completed(r) = q
  BY <1>1 DEF Completed
<1> QED BY <1>2, <1>3

LEMMA MovedRecord ==
  ASSUME NEW r \in Record, NEW n \in Nat \cup {None}
  PROVE  /\ [r EXCEPT !.next = n] \in Record
         /\ [r EXCEPT !.next = n].status = r.status /\ [r EXCEPT !.next = n].next = n
         /\ [r EXCEPT !.next = n].open = r.open /\ [r EXCEPT !.next = n].ended = r.ended
BY DEF Record

(* finishRun: after a run of the timer the record is completed, is paused   *)
(* and has no next time, or is due at a later time than the present.        *)
LEMMA FinishedRecord ==
  ASSUME NEW r \in Record, NEW c \in Calls, NEW t \in Nat
  PROVE  LET f == Finished(r, c, t) IN
         /\ f \in Record
         /\ f.open = CloseRun(r, c).open /\ f.ended = CloseRun(r, c).ended
         /\ c \in Users => f = CloseRun(r, c)
         /\ c \notin Users =>
              \/ f.status = "completed" /\ f.next = None
              \/ f.status = r.status /\ f.next = None /\ r.status = "paused"
              \/ f.status = r.status /\ f.next \in Nat /\ f.next > t /\ r.status # "paused"
<1> DEFINE q == CloseRun(r, c)
           after == IF r.next = None THEN t ELSE r.next
           n == NextAfter(after, t)
           f == Finished(r, c, t)
<1>1. q \in Record /\ q.status = r.status
  BY CloseRunRecord
<1>2. after \in Nat
  BY DEF Record
<1>3. n \in Nat /\ n > t
  BY <1>2, NextAfterLater
<1>4. f = IF c \in Users THEN q
          ELSE IF Expired(q, t) THEN Completed(q)
          ELSE [q EXCEPT !.next = IF q.status = "paused" THEN None ELSE n]
  BY DEF Finished
<1> HIDE DEF q, after, n, f
<1>5. CASE c \in Users
  BY <1>1, <1>4, <1>5 DEF q, f
<1>6. CASE c \notin Users /\ Expired(q, t)
  <2>1. f = Completed(q)
    BY <1>4, <1>6
  <2> QED BY <1>1, <1>6, <2>1, CompletedRecord DEF q, f
<1>7. CASE c \notin Users /\ ~Expired(q, t) /\ q.status = "paused"
  <2>1. f = [q EXCEPT !.next = None]
    BY <1>4, <1>7
  <2>2. f \in Record /\ f.status = q.status /\ f.next = None /\ f.open = q.open /\ f.ended = q.ended
    BY <1>1, <2>1, MovedRecord
  <2> QED BY <1>1, <1>7, <2>2 DEF q, f
<1>8. CASE c \notin Users /\ ~Expired(q, t) /\ q.status # "paused"
  <2>1. f = [q EXCEPT !.next = n]
    BY <1>4, <1>8
  <2>2. f \in Record /\ f.status = q.status /\ f.next = n /\ f.open = q.open /\ f.ended = q.ended
    BY <1>1, <1>3, <2>1, MovedRecord
  <2> QED BY <1>1, <1>3, <1>8, <2>2 DEF q, f
<1> QED BY <1>5, <1>6, <1>7, <1>8

(* recoverInterruptedRuns: an active record is due after the start, and the *)
(* run that was interrupted is counted.                                     *)
LEMMA RecoveredRecord ==
  ASSUME NEW r \in Record, NEW t \in Nat
  PROVE  /\ Recovered(r, t) \in Record
         /\ Recovered(r, t).status = r.status
         /\ Recovered(r, t).next = r.next \/ Recovered(r, t).next \in Nat
         /\ r.status = "active" /\ r.next # None => Recovered(r, t).next > t
         /\ r.status # "active" \/ r.next = None => Recovered(r, t).next = r.next
         /\ r.open = <<>> => Recovered(r, t).open = <<>> /\ Recovered(r, t).ended = r.ended
         /\ \A c : r.open = <<c>> =>
              /\ Recovered(r, t).open = <<>>
              /\ Recovered(r, t).ended = r.ended + 1 \/ Recovered(r, t).ended = MaxRuns
<1> MaxRuns \in Nat BY ScheduleAssumption
<1> DEFINE q == IF r.open = <<>> THEN r
           ELSE [r EXCEPT !.open = Tail(@), !.ended = IF @ < MaxRuns THEN @ + 1 ELSE @]
<1>1. r.open # <<>> => Tail(r.open) \in Seq(Calls)
  BY HeadTailProperties DEF Record
<1> DEFINE e == IF r.ended < MaxRuns THEN r.ended + 1 ELSE r.ended
           o == Tail(r.open)
<1>a. e \in 0..MaxRuns /\ (e = r.ended + 1 \/ e = MaxRuns)
  BY DEF Record
<1>b. q = IF r.open = <<>> THEN r ELSE [r EXCEPT !.open = o, !.ended = e]
  OBVIOUS
<1>c. \A c : r.open = <<c>> => o = <<>>
  OBVIOUS
<1> HIDE DEF q, e, o
<1>d. q = IF r.open = <<>> THEN r ELSE [status |-> r.status, next |-> r.next, open |-> o, ended |-> e]
  <2>1. CASE r.open = <<>>
    BY <2>1, <1>b
  <2>2. CASE r.open # <<>>
    <3>1. q = [r EXCEPT !.open = o, !.ended = e]
      BY <2>2, <1>b
    <3>2. q = [status |-> r.status, next |-> r.next, open |-> o, ended |-> e]
      BY <3>1 DEF Record
    <3> QED BY <3>2, <2>2
  <2> QED BY <2>1, <2>2
<1>2. q \in Record /\ q.status = r.status /\ q.next = r.next
  BY <1>1, <1>a, <1>d DEF Record, o
<1>3. \A c : r.open = <<c>> => q.open = <<>> /\ (q.ended = r.ended + 1 \/ q.ended = MaxRuns)
  BY <1>a, <1>c, <1>d DEF Record
<1>4. r.open = <<>> => q = r
  BY <1>d
<1>5. q.next # None => NextAfter(q.next, t) \in Nat /\ NextAfter(q.next, t) > t
  BY <1>2, NextAfterLater DEF Record
<1> DEFINE n == NextAfter(q.next, t)
<1>6. Recovered(r, t) = IF q.status = "active" /\ q.next # None /\ q.next <= t
     THEN [q EXCEPT !.next = n] ELSE q
  BY DEF Recovered, q
<1>7. (q.next # None => n \in Nat /\ n > t)
  BY <1>5
<1> HIDE DEF n
<1>8. CASE q.status = "active" /\ q.next # None /\ q.next <= t
  <2>1. Recovered(r, t) = [q EXCEPT !.next = n] /\ n \in Nat /\ n > t
    BY <1>6, <1>7, <1>8
  <2> HIDE DEF q, n
  <2>2. LET f == Recovered(r, t) IN
        f \in Record /\ f.status = q.status /\ f.next = n /\ f.open = q.open /\ f.ended = q.ended
    BY <1>2, <2>1, MovedRecord
  <2> QED BY <1>2, <1>3, <1>4, <1>8, <2>1, <2>2
<1>9. CASE ~(q.status = "active" /\ q.next # None /\ q.next <= t)
  <2>1. Recovered(r, t) = q
    BY <1>6, <1>9
  <2>2. q.next # None => q.next \in Nat
    BY <1>2 DEF Record
  <2> HIDE DEF q
  <2> QED BY <1>2, <1>3, <1>4, <1>9, <2>1, <2>2
<1> QED BY <1>8, <1>9

-----------------------------------------------------------------------------
(* Calls.                                                                  *)

(* What is true of a call between two steps.                                *)
CallOK(c) ==
  /\ c \in Ticks => pc[c] \notin {"pausing", "editing"}
  /\ c \in Users => /\ pc[c] \notin {"walking", "completing"}
                    /\ pc[c] # "idle" => \E s \in Schedules : todo[c] = {s}
  /\ pc[c] # "idle" => up
  /\ fd[c] # "closed" => pc[c] \in WritePhases
  /\ fd[c] = "unlinked" => <<c, At(c)>> \in outdated
  /\ \A s \in Schedules : copy[c][s] # None => s \in todo[c]
  /\ \A s \in todo[c] : copy[c][s] = None => s = At(c) /\ pc[c] = "inspecting"
  /\ c \in Ticks /\ pc[c] \in {"recording", "running"} =>
       /\ copy[c][At(c)] # None /\ copy[c][At(c)].status = "active"
       /\ copy[c][At(c)].next \in 0..now

(* Types, the shape of calls, and that nothing fires before its time.       *)
Base ==
  /\ TypeOK
  /\ \A c \in Calls : CallOK(c)
  /\ \A s \in Schedules : fired[s] \subseteq 0..now

(* A call stays where it is as long as its list stays.                      *)
LEMMA AtSame ==
  ASSUME NEW c, todo'[c] = todo[c]
  PROVE  At(c)' = At(c)
BY DEF At

LEMMA AtOnly ==
  ASSUME NEW c, NEW s \in Schedules, todo[c] = {s}
  PROVE  At(c) = s
<1>1. At(c) \in todo[c]
  BY AtIsNext
<1> QED BY <1>1

LEMMA AtThere ==
  ASSUME TypeOK, NEW c \in Calls, pc[c] # "idle"
  PROVE  At(c) \in todo[c] /\ At(c) \in Schedules
BY AtIsNext DEF TypeOK

(* A call that writes holds a copy of the record. *)
LEMMA WriterHolds ==
  ASSUME Base, NEW c \in Calls, pc[c] \notin {"idle", "inspecting"}
  PROVE  /\ At(c) \in todo[c] /\ At(c) \in Schedules
         /\ copy[c][At(c)] # None /\ copy[c][At(c)] \in Record
<1>1. At(c) \in todo[c] /\ At(c) \in Schedules
  BY AtThere DEF Base
<1>2. copy[c][At(c)] # None
  BY <1>1 DEF Base, CallOK
<1>3. copy[c][At(c)] \in Record \cup {None}
  BY <1>1 DEF Base, TypeOK
<1> QED BY <1>1, <1>2, <1>3

LEMMA OpenerHolds ==
  ASSUME Base, NEW c \in Calls, fd[c] # "closed"
  PROVE  /\ At(c) \in todo[c] /\ At(c) \in Schedules
         /\ copy[c][At(c)] # None /\ copy[c][At(c)] \in Record
<1>1. pc[c] \in WritePhases
  BY DEF Base, CallOK
<1> QED BY <1>1, WriterHolds DEF WritePhases

(* A write that lands keeps the types, and marks the copies it makes old.   *)
LEMMA LandsTyped ==
  ASSUME Base, NEW c \in Calls, Lands(c)
  PROVE  /\ disk' \in [Schedules -> Record \cup {None}]
         /\ garbled' \subseteq Schedules /\ damaged' \subseteq Schedules
         /\ outdated' \subseteq Calls \X Schedules
         /\ fd' \in [Calls -> {"closed", "open", "shared", "unlinked"}]
         /\ fd'[c] = "closed"
         /\ \A d \in Calls : fd'[d] # "closed" => d # c /\ fd[d] # "closed"
         /\ \A d \in Calls : fd'[d] = "unlinked" => fd[d] = "unlinked" /\ <<d, At(d)>> \in outdated'
<1>1. fd[c] # "closed"
  BY DEF Lands
<1>2. At(c) \in Schedules /\ copy[c][At(c)] \in Record
  BY <1>1, OpenerHolds
<1>3. /\ disk' \in [Schedules -> Record \cup {None}]
      /\ garbled' \subseteq Schedules
  BY <1>2 DEF Lands, store, Base, TypeOK
<1>4. outdated' \subseteq Calls \X Schedules
  BY <1>2 DEF Lands, Ages, store, Base, TypeOK
<1>5. damaged' \subseteq Schedules
  BY <1>2 DEF Lands, Base, TypeOK
<1>6. /\ fd' \in [Calls -> {"closed", "open", "shared", "unlinked"}]
      /\ fd'[c] = "closed"
      /\ \A d \in Calls : fd'[d] # "closed" => d # c /\ fd[d] # "closed"
      /\ \A d \in Calls : fd'[d] = "unlinked" => d # c /\ fd[d] = "unlinked"
  BY DEF Lands, Writing, Base, TypeOK
<1>7. ASSUME NEW d \in Calls, fd'[d] = "unlinked"
      PROVE  <<d, At(d)>> \in outdated'
  <2>1. d # c /\ fd[d] = "unlinked" /\ copy[d][At(d)] # None
    BY <1>6, <1>7, OpenerHolds
  <2>2. <<d, At(d)>> \in outdated
    BY <2>1 DEF Base, CallOK
  <2>3. CASE fd[c] = "unlinked"
    BY <2>2, <2>3 DEF Lands
  <2>4. CASE fd[c] # "unlinked"
    <3>1. Ages(c, At(c))
      BY <2>4 DEF Lands
    <3> QED BY <2>1, <2>2, <3>1 DEF Ages
  <2> QED BY <2>3, <2>4
<1> QED BY <1>3, <1>4, <1>5, <1>6, <1>7

(* A call that takes no part in a step stays as it was.                     *)
LEMMA CallSame ==
  ASSUME NEW d \in Calls, CallOK(d), now \in Nat, now' \in Nat, now <= now',
         pc[d] # "idle" => up',
         pc'[d] = pc[d], todo'[d] = todo[d], copy'[d] = copy[d],
         fd'[d] # "closed" => fd[d] # "closed",
         fd'[d] = "unlinked" => <<d, At(d)>> \in outdated'
  PROVE  CallOK(d)'
<1>1. At(d)' = At(d)
  BY AtSame
<1>2. 0..now \subseteq 0..now'
  OBVIOUS
<1> QED BY <1>1, <1>2 DEF CallOK

(* A call that goes on to the next schedule.                                *)
LEMMA LeavesTyped ==
  ASSUME Base, NEW c \in Calls, pc[c] # "idle", Leaves(c), up' = up, now' = now,
         fd'[c] = "closed",
         \A d \in Calls : fd'[d] # "closed" => fd[d] # "closed",
         \A d \in Calls : fd'[d] = "unlinked" => <<d, At(d)>> \in outdated'
  PROVE  /\ pc' \in [Calls -> Phases] /\ todo' \in [Calls -> SUBSET Schedules]
         /\ \A d \in Calls : pc'[d] = "idle" <=> todo'[d] = {}
         /\ since' \in [Calls -> 0..now]
         /\ copy' \in [Calls -> [Schedules -> Record \cup {None}]]
         /\ \A d \in Calls : CallOK(d)'
<1>1. At(c) \in todo[c] /\ At(c) \in Schedules
  BY AtThere DEF Base
<1>2. /\ pc' \in [Calls -> Phases] /\ todo' \in [Calls -> SUBSET Schedules]
      /\ pc'[c] = (IF todo[c] = {At(c)} THEN "idle" ELSE "walking") /\ todo'[c] = todo[c] \ {At(c)}
      /\ \A d \in Calls \ {c} : pc'[d] = pc[d] /\ todo'[d] = todo[d]
  BY DEF Leaves, Base, TypeOK, Phases
<1>3. /\ since' \in [Calls -> 0..now]
      /\ copy' \in [Calls -> [Schedules -> Record \cup {None}]]
      /\ \A d \in Calls \ {c} : copy'[d] = copy[d]
      /\ \A s \in Schedules : copy'[c][s] = IF s = At(c) THEN None ELSE copy[c][s]
  BY <1>1, ScheduleAssumption DEF Leaves, Base, TypeOK
<1>4. \A d \in Calls : pc'[d] = "idle" <=> todo'[d] = {}
  BY <1>1, <1>2 DEF Base, TypeOK
<1>5. CallOK(c)'
  <2>1. /\ c \in Ticks => pc'[c] \notin {"pausing", "editing"}
        /\ pc'[c] # "idle" => up'
        /\ pc'[c] \notin {"recording", "running"}
    BY <1>2 DEF Base, CallOK
  <2>2. ASSUME c \in Users PROVE pc'[c] = "idle"
    <3>1. PICK s \in Schedules : todo[c] = {s}
      BY <2>2 DEF Base, CallOK
    <3> QED BY <3>1, <1>1, <1>2
  <2>3. \A s \in Schedules : copy'[c][s] # None => s \in todo'[c]
    BY <1>2, <1>3 DEF Base, CallOK
  <2>4. ASSUME NEW s \in todo'[c] PROVE copy'[c][s] # None
    <3>1. s \in todo[c] /\ s # At(c) /\ s \in Schedules
      BY <1>2, <2>4 DEF Base, TypeOK
    <3>2. copy[c][s] # None
      BY <3>1 DEF Base, CallOK
    <3> QED BY <3>1, <3>2, <1>3
  <2> QED BY <2>1, <2>2, <2>3, <2>4 DEF CallOK
<1>6. ASSUME NEW d \in Calls \ {c}
      PROVE  CallOK(d)'
  <2>1. CallOK(d) /\ now \in Nat /\ (pc[d] # "idle" => up')
    BY ScheduleAssumption DEF Base, TypeOK, CallOK
  <2>2. /\ pc'[d] = pc[d] /\ todo'[d] = todo[d] /\ copy'[d] = copy[d]
        /\ fd'[d] # "closed" => fd[d] # "closed"
        /\ fd'[d] = "unlinked" => <<d, At(d)>> \in outdated'
    BY <1>2, <1>3
  <2> QED BY <2>1, <2>2, CallSame
<1> QED BY <1>2, <1>3, <1>4, <1>5, <1>6

(* A call that throws.                                                      *)
LEMMA ThrowsTyped ==
  ASSUME Base, NEW c \in Calls, Throws(c), up' = up, now' = now,
         fd' = [fd EXCEPT ![c] = "closed"], outdated' = outdated
  PROVE  /\ pc' \in [Calls -> Phases] /\ todo' \in [Calls -> SUBSET Schedules]
         /\ \A d \in Calls : pc'[d] = "idle" <=> todo'[d] = {}
         /\ since' \in [Calls -> 0..now]
         /\ copy' \in [Calls -> [Schedules -> Record \cup {None}]]
         /\ retry' \subseteq Calls
         /\ \A d \in Calls : CallOK(d)'
<1>1. /\ pc' \in [Calls -> Phases] /\ todo' \in [Calls -> SUBSET Schedules]
      /\ pc'[c] = "idle" /\ todo'[c] = {}
      /\ \A d \in Calls \ {c} : pc'[d] = pc[d] /\ todo'[d] = todo[d]
  BY DEF Throws, Base, TypeOK, Phases
<1>2. /\ since' \in [Calls -> 0..now]
      /\ copy' \in [Calls -> [Schedules -> Record \cup {None}]]
      /\ retry' \subseteq Calls
      /\ \A d \in Calls \ {c} : copy'[d] = copy[d]
      /\ \A s \in Schedules : copy'[c][s] = None
  BY ScheduleAssumption DEF Throws, Base, TypeOK
<1>3. \A d \in Calls : pc'[d] = "idle" <=> todo'[d] = {}
  BY <1>1 DEF Base, TypeOK
<1>4. fd'[c] = "closed" /\ \A d \in Calls \ {c} : fd'[d] = fd[d]
  BY DEF Base, TypeOK
<1>5. CallOK(c)'
  BY <1>1, <1>2, <1>4 DEF CallOK
<1>6. ASSUME NEW d \in Calls \ {c}
      PROVE  CallOK(d)'
  <2>1. CallOK(d) /\ now \in Nat /\ (pc[d] # "idle" => up')
    BY ScheduleAssumption DEF Base, TypeOK, CallOK
  <2>2. fd[d] = "unlinked" => <<d, At(d)>> \in outdated
    BY <2>1 DEF CallOK
  <2> QED BY <1>1, <1>2, <1>4, <2>1, <2>2, CallSame
<1> QED BY <1>1, <1>2, <1>3, <1>5, <1>6

-----------------------------------------------------------------------------
(* Every step keeps Base.                                                  *)

LEMMA OthersSame ==
  ASSUME Base, NEW c \in Calls, now' \in Nat, now <= now',
         \A d \in Calls \ {c} : /\ pc'[d] = pc[d] /\ todo'[d] = todo[d] /\ copy'[d] = copy[d]
                                /\ fd'[d] = fd[d]
                                /\ pc[d] # "idle" => up'
                                /\ <<d, At(d)>> \in outdated => <<d, At(d)>> \in outdated'
  PROVE  \A d \in Calls \ {c} : CallOK(d)'
<1> SUFFICES ASSUME NEW d \in Calls \ {c} PROVE CallOK(d)'
  OBVIOUS
<1>1. CallOK(d) /\ now \in Nat
  BY ScheduleAssumption DEF Base, TypeOK
<1>2. fd'[d] = "unlinked" => <<d, At(d)>> \in outdated'
  BY <1>1 DEF CallOK
<1> QED BY <1>1, <1>2, CallSame

LEMMA TickListsBase ==
  ASSUME Base, NEW t \in Ticks, TickLists(t)
  PROVE  Base'
<1>1. t \in Calls /\ pc[t] = "idle" /\ up /\ fd[t] = "closed"
  BY DEF TickLists, Base, CallOK, Calls, WritePhases, TypeOK
<1>2. TypeOK'
  BY <1>1 DEF TickLists, store, Base, TypeOK, Phases, Schedules
<1>3. CallOK(t)'
  BY <1>1, ScheduleAssumption DEF TickLists, store, Base, TypeOK, CallOK, Phases
<1>4. \A d \in Calls \ {t} : CallOK(d)'
  <2>1. \A d \in Calls \ {t} : /\ pc'[d] = pc[d] /\ todo'[d] = todo[d] /\ copy'[d] = copy[d]
                               /\ fd'[d] = fd[d]
                               /\ pc[d] # "idle" => up'
                               /\ <<d, At(d)>> \in outdated => <<d, At(d)>> \in outdated'
    BY <1>1 DEF TickLists, Base, TypeOK
  <2> QED BY <1>1, <2>1, ScheduleAssumption, OthersSame DEF TickLists, Base, TypeOK
<1> QED BY <1>2, <1>3, <1>4 DEF TickLists, Base

LEMMA TickSkipsBase ==
  ASSUME Base, NEW t \in Ticks, TickSkips(t)
  PROVE  Base'
<1>1. t \in Calls /\ pc[t] = "walking" /\ fd[t] = "closed"
  BY DEF TickSkips, Base, CallOK, Calls, WritePhases, TypeOK
<1>2. UNCHANGED <<now, up, boot, disk, garbled, running, fd, retry, edits, faults,
                  history>> /\ Leaves(t)
  BY DEF TickSkips, store
<1>3. \A d \in Calls : fd'[d] = "unlinked" => <<d, At(d)>> \in outdated'
  BY <1>2 DEF history, Base, CallOK
<1>4. /\ pc' \in [Calls -> Phases] /\ todo' \in [Calls -> SUBSET Schedules]
      /\ \A d \in Calls : pc'[d] = "idle" <=> todo'[d] = {}
      /\ since' \in [Calls -> 0..now]
      /\ copy' \in [Calls -> [Schedules -> Record \cup {None}]]
      /\ \A d \in Calls : CallOK(d)'
  BY <1>1, <1>2, <1>3, LeavesTyped
<1>5. TypeOK'
  BY <1>2, <1>4 DEF history, Base, TypeOK
<1> QED BY <1>2, <1>4, <1>5 DEF history, Base

(* A call that changes its copy of the record at hand.                      *)
LEMMA CopyEdit ==
  ASSUME Base, NEW c \in Calls, pc[c] # "idle", fd[c] = "closed",
         NEW r \in Record \cup {None}, NEW p \in Phases \ {"idle"},
         copy' = [copy EXCEPT ![c][At(c)] = r], pc' = [pc EXCEPT ![c] = p],
         UNCHANGED <<now, up, todo, fd>>,
         r = None => p = "inspecting",
         c \in Ticks => p \notin {"pausing", "editing"},
         c \in Users => p \notin {"walking", "completing"},
         c \in Ticks /\ p \in {"recording", "running"} =>
           r.status = "active" /\ r.next \in 0..now,
         \A d \in Calls \ {c} : <<d, At(d)>> \in outdated => <<d, At(d)>> \in outdated'
  PROVE  /\ copy' \in [Calls -> [Schedules -> Record \cup {None}]]
         /\ pc' \in [Calls -> Phases] /\ \A d \in Calls : pc'[d] = "idle" <=> todo'[d] = {}
         /\ \A d \in Calls : CallOK(d)'
<1>1. At(c) \in todo[c] /\ At(c) \in Schedules
  BY AtThere DEF Base
<1>2. /\ copy' \in [Calls -> [Schedules -> Record \cup {None}]]
      /\ \A s \in Schedules : copy'[c][s] = IF s = At(c) THEN r ELSE copy[c][s]
      /\ \A d \in Calls \ {c} : copy'[d] = copy[d]
  BY <1>1 DEF Base, TypeOK
<1>3. /\ pc' \in [Calls -> Phases] /\ pc'[c] = p
      /\ \A d \in Calls \ {c} : pc'[d] = pc[d]
  BY DEF Base, TypeOK
<1>4. \A d \in Calls : pc'[d] = "idle" <=> todo'[d] = {}
  BY <1>1, <1>3 DEF Base, TypeOK
<1>5. CallOK(c)'
  <2>1. CallOK(c) /\ At(c)' = At(c) /\ todo[c] \subseteq Schedules
    BY AtSame DEF Base, TypeOK
  <2> QED BY <1>1, <1>2, <1>3, <2>1, ScheduleAssumption DEF CallOK
<1>6. \A d \in Calls \ {c} : pc[d] # "idle" => up'
  BY DEF Base, CallOK
<1>7. now' \in Nat /\ now <= now'
  BY ScheduleAssumption DEF Base, TypeOK
<1>8. \A d \in Calls \ {c} : CallOK(d)'
  BY <1>2, <1>3, <1>6, <1>7, OthersSame
<1> QED BY <1>2, <1>3, <1>4, <1>5, <1>8

LEMMA TickCompletesBase ==
  ASSUME Base, NEW t \in Ticks, TickCompletes(t)
  PROVE  Base'
<1>1. t \in Calls /\ pc[t] = "walking" /\ fd[t] = "closed" /\ t \notin Users
  BY ScheduleAssumption DEF TickCompletes, Candidate, Base, CallOK, Calls, WritePhases, TypeOK
<1> DEFINE r == Completed(copy[t][At(t)])
<1>2. r \in Record /\ r # None
  BY <1>1, WriterHolds, CompletedRecord, ScheduleAssumption
<1>3. copy' = [copy EXCEPT ![t][At(t)] = r] /\ pc' = [pc EXCEPT ![t] = "completing"]
      /\ UNCHANGED <<now, up, boot, disk, garbled, running, todo, since, fd, retry, edits,
                     faults, history>>
  BY DEF TickCompletes, store
<1> HIDE DEF r
<1>4. /\ copy' \in [Calls -> [Schedules -> Record \cup {None}]]
      /\ pc' \in [Calls -> Phases] /\ \A d \in Calls : pc'[d] = "idle" <=> todo'[d] = {}
      /\ \A d \in Calls : CallOK(d)'
  BY <1>1, <1>2, <1>3, CopyEdit DEF Phases, history
<1>5. TypeOK'
  BY <1>3, <1>4 DEF history, Base, TypeOK
<1> QED BY <1>3, <1>4, <1>5 DEF history, Base

LEMMA TickRunsBase ==
  ASSUME Base, NEW t \in Ticks, TickRuns(t)
  PROVE  Base'
<1>1. t \in Calls /\ pc[t] = "walking" /\ fd[t] = "closed" /\ t \notin Users
  BY ScheduleAssumption DEF TickRuns, Candidate, Base, CallOK, Calls, WritePhases, TypeOK
<1>2. At(t) \in Schedules /\ copy[t][At(t)] \in Record
  BY <1>1, WriterHolds
<1> DEFINE r == WithRun(copy[t][At(t)], t)
<1>3. r \in Record /\ r # None /\ r.status = copy[t][At(t)].status /\ r.next = copy[t][At(t)].next
  BY <1>1, <1>2, WithRunRecord, ScheduleAssumption
<1>4. copy[t][At(t)].status = "active" /\ copy[t][At(t)].next \in 0..now
  <2>1. copy[t][At(t)].next # None /\ copy[t][At(t)].next <= since[t] /\ copy[t][At(t)].status = "active"
    BY DEF TickRuns, Candidate
  <2>2. copy[t][At(t)].next \in Nat
    BY <1>2, <2>1 DEF Record
  <2> QED BY <1>1, <2>1, <2>2 DEF Base, TypeOK
<1>5. copy' = [copy EXCEPT ![t][At(t)] = r] /\ pc' = [pc EXCEPT ![t] = "recording"]
      /\ running' = running \cup {At(t)}
      /\ UNCHANGED <<now, up, boot, disk, garbled, todo, since, fd, retry, edits, faults,
                     history>>
  BY DEF TickRuns, store
<1> HIDE DEF r
<1>6. /\ copy' \in [Calls -> [Schedules -> Record \cup {None}]]
      /\ pc' \in [Calls -> Phases] /\ \A d \in Calls : pc'[d] = "idle" <=> todo'[d] = {}
      /\ \A d \in Calls : CallOK(d)'
  BY <1>1, <1>3, <1>4, <1>5, CopyEdit DEF Phases, history
<1>7. TypeOK'
  BY <1>2, <1>5, <1>6 DEF history, Base, TypeOK
<1> QED BY <1>5, <1>6, <1>7 DEF history, Base

LEMMA RunnerEndsBase ==
  ASSUME Base, NEW c \in Calls, RunnerEnds(c)
  PROVE  Base'
<1>1. pc[c] = "running" /\ fd[c] = "closed"
  BY DEF RunnerEnds, Base, CallOK, WritePhases, TypeOK
<1>2. copy' = [copy EXCEPT ![c][At(c)] = None] /\ pc' = [pc EXCEPT ![c] = "inspecting"]
      /\ retry' \in {retry, retry \cup {c}}
      /\ UNCHANGED <<now, up, boot, disk, garbled, running, todo, since, fd, edits, faults,
                     history>>
  BY DEF RunnerEnds, store
<1>3. /\ copy' \in [Calls -> [Schedules -> Record \cup {None}]]
      /\ pc' \in [Calls -> Phases] /\ \A d \in Calls : pc'[d] = "idle" <=> todo'[d] = {}
      /\ \A d \in Calls : CallOK(d)'
  BY <1>1, <1>2, CopyEdit DEF Phases, history
<1>4. TypeOK'
  BY <1>2, <1>3 DEF history, Base, TypeOK
<1> QED BY <1>2, <1>3, <1>4 DEF history, Base

LEMMA FinishReadsBase ==
  ASSUME Base, NEW c \in Calls, FinishReads(c)
  PROVE  Base'
<1> DEFINE s == At(c)
<1>1. pc[c] = "inspecting" /\ fd[c] = "closed" /\ s \in todo[c] /\ s \in Schedules
  BY AtThere DEF FinishReads, Base, CallOK, WritePhases, TypeOK
<1>2. UNCHANGED <<now, up, boot, disk, garbled, fd, edits, faults, fired, twice, timed, held>>
  BY DEF FinishReads, store
<1>3. CASE Found(s)
  <2> DEFINE r == Finished(disk[s], c, now)
  <2>1. r \in Record /\ r # None
    BY <1>1, <1>3, FinishedRecord, ScheduleAssumption DEF Found, Base, TypeOK
  <2>2. copy' = [copy EXCEPT ![c][s] = r] /\ pc' = [pc EXCEPT ![c] = "finishing"]
        /\ outdated' = outdated \ {<<c, s>>}
        /\ UNCHANGED <<running, todo, since, retry, damaged>>
    BY <1>3 DEF FinishReads
  <2> HIDE DEF r
  <2>3. /\ copy' \in [Calls -> [Schedules -> Record \cup {None}]]
        /\ pc' \in [Calls -> Phases] /\ \A d \in Calls : pc'[d] = "idle" <=> todo'[d] = {}
        /\ \A d \in Calls : CallOK(d)'
    BY <1>1, <1>2, <2>1, <2>2, CopyEdit DEF Phases
  <2>4. TypeOK'
    BY <1>2, <2>2, <2>3 DEF Base, TypeOK
  <2> QED BY <1>2, <2>3, <2>4 DEF Base
<1>4. CASE ~Found(s)
  <2>1. FinishFails(c) /\ damaged' = damaged \cup (IF c \in retry THEN {s} ELSE {}) /\ outdated' = outdated
    BY <1>4 DEF FinishReads
  <2>2. damaged' \subseteq Schedules
    BY <1>1, <2>1 DEF Base, TypeOK
  <2>3. CASE c \in retry
    <3>1. Throws(c) /\ running' = running \ {s}
      BY <2>1, <2>3 DEF FinishFails
    <3>2. fd' = [fd EXCEPT ![c] = "closed"]
      BY <1>1, <1>2 DEF Base, TypeOK
    <3>3. /\ pc' \in [Calls -> Phases] /\ todo' \in [Calls -> SUBSET Schedules]
          /\ \A d \in Calls : pc'[d] = "idle" <=> todo'[d] = {}
          /\ since' \in [Calls -> 0..now]
          /\ copy' \in [Calls -> [Schedules -> Record \cup {None}]]
          /\ retry' \subseteq Calls
          /\ \A d \in Calls : CallOK(d)'
      BY <1>2, <2>1, <3>1, <3>2, ThrowsTyped
    <3>4. TypeOK'
      BY <1>2, <2>1, <2>2, <3>1, <3>3 DEF Base, TypeOK
    <3> QED BY <1>2, <3>3, <3>4 DEF Base
  <2>4. CASE c \notin retry
    <3>1. retry' = retry \cup {c} /\ UNCHANGED <<running, todo, copy, since>>
          /\ pc' = pc
      BY <1>1, <2>1, <2>4 DEF FinishFails, Base, TypeOK
    <3>2. TypeOK'
      BY <1>2, <2>1, <2>2, <3>1 DEF Base, TypeOK
    <3>3. \A d \in Calls : CallOK(d)'
      BY <1>2, <2>1, <3>1 DEF Base, CallOK, At
    <3> QED BY <1>2, <3>2, <3>3 DEF Base
  <2> QED BY <2>3, <2>4
<1> QED BY <1>3, <1>4

(* A write lands and the call goes on.                                      *)
LEMMA LandsLeavesBase ==
  ASSUME Base, NEW c \in Calls, pc[c] # "idle", Lands(c), Leaves(c),
         UNCHANGED <<now, up, boot, edits, faults, fired, twice, timed>>,
         running' \subseteq Schedules, retry' \subseteq Calls, held' \subseteq Schedules
  PROVE  Base'
<1>1. /\ disk' \in [Schedules -> Record \cup {None}]
      /\ garbled' \subseteq Schedules /\ damaged' \subseteq Schedules
      /\ outdated' \subseteq Calls \X Schedules
      /\ fd' \in [Calls -> {"closed", "open", "shared", "unlinked"}]
      /\ fd'[c] = "closed"
      /\ \A d \in Calls : fd'[d] # "closed" => d # c /\ fd[d] # "closed"
      /\ \A d \in Calls : fd'[d] = "unlinked" => fd[d] = "unlinked" /\ <<d, At(d)>> \in outdated'
  BY LandsTyped
<1>2. /\ pc' \in [Calls -> Phases] /\ todo' \in [Calls -> SUBSET Schedules]
      /\ \A d \in Calls : pc'[d] = "idle" <=> todo'[d] = {}
      /\ since' \in [Calls -> 0..now]
      /\ copy' \in [Calls -> [Schedules -> Record \cup {None}]]
      /\ \A d \in Calls : CallOK(d)'
  BY <1>1, LeavesTyped
<1>3. TypeOK'
  BY <1>1, <1>2 DEF Base, TypeOK
<1> QED BY <1>2, <1>3 DEF Base

LEMMA CompletionLandsBase ==
  ASSUME Base, NEW t \in Ticks, CompletionLands(t)
  PROVE  Base'
BY LandsLeavesBase DEF CompletionLands, Calls, Base, TypeOK

LEMMA FinishLandsBase ==
  ASSUME Base, NEW c \in Calls, FinishLands(c)
  PROVE  Base'
<1>1. pc[c] # "idle" /\ Lands(c) /\ Leaves(c)
      /\ UNCHANGED <<now, up, boot, edits, faults, fired, twice, timed, held>>
      /\ running' = running \ {At(c)} /\ retry' = retry \ {c}
  BY DEF FinishLands
<1>2. running' \subseteq Schedules /\ retry' \subseteq Calls /\ held' \subseteq Schedules
  BY <1>1 DEF Base, TypeOK
<1> QED BY <1>1, <1>2, LandsLeavesBase

LEMMA EditLandsBase ==
  ASSUME Base, NEW u \in Users, EditLands(u)
  PROVE  Base'
<1>1. u \in Calls /\ pc[u] # "idle" /\ Lands(u) /\ Leaves(u)
      /\ UNCHANGED <<now, up, boot, edits, faults, fired, twice, timed, running, retry>>
      /\ held' \subseteq held \cup {At(u)}
  BY DEF EditLands, Calls
<1>2. At(u) \in Schedules
  BY <1>1, AtThere DEF Base
<1>3. running' \subseteq Schedules /\ retry' \subseteq Calls /\ held' \subseteq Schedules
  BY <1>1, <1>2 DEF Base, TypeOK
<1> QED BY <1>1, <1>3, LandsLeavesBase

LEMMA RunStartsBase ==
  ASSUME Base, NEW c \in Calls, RunStarts(c)
  PROVE  Base'
<1> DEFINE s == At(c)
           slot == copy[c][s].next
<1>1. /\ pc[c] = "recording" /\ Lands(c) /\ pc' = [pc EXCEPT ![c] = "running"]
      /\ UNCHANGED <<now, up, boot, running, todo, since, copy, retry, edits, faults, held>>
  BY DEF RunStarts
<1>2. /\ disk' \in [Schedules -> Record \cup {None}]
      /\ garbled' \subseteq Schedules /\ damaged' \subseteq Schedules
      /\ outdated' \subseteq Calls \X Schedules
      /\ fd' \in [Calls -> {"closed", "open", "shared", "unlinked"}]
      /\ fd'[c] = "closed"
      /\ \A d \in Calls : fd'[d] # "closed" => d # c /\ fd[d] # "closed"
      /\ \A d \in Calls : fd'[d] = "unlinked" => fd[d] = "unlinked" /\ <<d, At(d)>> \in outdated'
  BY <1>1, LandsTyped
<1>3. s \in todo[c] /\ s \in Schedules /\ copy[c][s] # None /\ now \in Nat
  BY <1>1, WriterHolds, ScheduleAssumption DEF Base, TypeOK
<1>4. /\ pc' \in [Calls -> Phases] /\ pc'[c] = "running"
      /\ \A d \in Calls \ {c} : pc'[d] = pc[d]
      /\ \A d \in Calls : pc'[d] = "idle" <=> todo'[d] = {}
  BY <1>1, <1>3 DEF Base, TypeOK, Phases
<1>5. /\ fired' \in [Schedules -> SUBSET Nat] /\ twice' \subseteq Schedules
      /\ timed' \in [Schedules -> 0..(MaxRuns + 1)]
      /\ \A r \in Schedules : fired'[r] \subseteq 0..now
  <2>1. CASE c \in Users
    BY <2>1 DEF RunStarts, Base, TypeOK
  <2>2. CASE c \notin Users
    <3>1. slot \in 0..now
      BY <1>1, <2>2 DEF Base, CallOK, Calls
    <3>2. /\ fired' = [fired EXCEPT ![s] = @ \cup {slot}]
          /\ twice' = twice \cup (IF slot \in fired[s] THEN {s} ELSE {})
          /\ timed' = [timed EXCEPT ![s] = IF @ > MaxRuns THEN @ ELSE @ + 1]
      BY <2>2 DEF RunStarts
    <3> HIDE DEF slot
    <3>3. fired' \in [Schedules -> SUBSET Nat] /\ \A r \in Schedules : fired'[r] \subseteq 0..now
      BY <1>3, <3>1, <3>2 DEF Base, TypeOK
    <3>4. timed' \in [Schedules -> 0..(MaxRuns + 1)]
      BY <1>3, <3>2, ScheduleAssumption DEF Base, TypeOK
    <3>5. twice' \subseteq Schedules
      BY <1>3, <3>2 DEF Base, TypeOK
    <3> QED BY <3>3, <3>4, <3>5
  <2> QED BY <2>1, <2>2
<1>6. TypeOK'
  BY <1>1, <1>2, <1>4, <1>5 DEF Base, TypeOK
<1>7. CallOK(c)'
  <2>1. CallOK(c) /\ At(c)' = At(c) /\ todo[c] \subseteq Schedules
    BY <1>1, AtSame DEF Base, TypeOK
  <2> QED BY <1>1, <1>2, <1>4, <2>1, ScheduleAssumption DEF CallOK
<1>8. ASSUME NEW d \in Calls \ {c}
      PROVE  CallOK(d)'
  <2>1. CallOK(d) /\ (pc[d] # "idle" => up')
    BY <1>1 DEF Base, CallOK
  <2>2. /\ pc'[d] = pc[d] /\ todo'[d] = todo[d] /\ copy'[d] = copy[d] /\ now <= now' /\ now' \in Nat
        /\ fd'[d] # "closed" => fd[d] # "closed"
        /\ fd'[d] = "unlinked" => <<d, At(d)>> \in outdated'
    BY <1>1, <1>2, <1>3, <1>4
  <2> QED BY <1>3, <2>1, <2>2, CallSame
<1> QED BY <1>1, <1>5, <1>6, <1>7, <1>8 DEF Base

LEMMA OpensBase ==
  ASSUME Base, NEW c \in Calls, Opens(c)
  PROVE  Base'
<1>1. pc[c] \in WritePhases /\ fd' = [fd EXCEPT ![c] = "open"]
      /\ UNCHANGED <<now, up, boot, disk, garbled, running, pc, todo, since, copy, retry,
                     edits, faults, history>>
  BY DEF Opens, store
<1>2. TypeOK'
  BY <1>1 DEF history, Base, TypeOK
<1>3. fd'[c] = "open" /\ \A d \in Calls \ {c} : fd'[d] = fd[d]
  BY <1>1 DEF Base, TypeOK
<1>4. CallOK(c)'
  BY <1>1, <1>3, AtSame DEF history, Base, CallOK
<1>5. \A d \in Calls \ {c} : CallOK(d)'
  <2>1. \A d \in Calls \ {c} : pc[d] # "idle" => up'
    BY <1>1 DEF Base, CallOK
  <2> QED BY <1>1, <1>3, <2>1, OthersSame, ScheduleAssumption DEF history, Base, TypeOK
<1> QED BY <1>1, <1>2, <1>4, <1>5 DEF history, Base

(* A client reads the record it is going to write.                          *)
LEMMA ReadsBase ==
  ASSUME Base, NEW u \in Users, NEW s \in Schedules, NEW r \in Record,
         NEW p \in {"pausing", "editing", "recording"}, Reads(u, s, p, r),
         running' \subseteq Schedules, held' \subseteq Schedules
  PROVE  Base'
<1>1. /\ up /\ edits > 0 /\ pc[u] = "idle" /\ edits' = edits - 1
      /\ pc' = [pc EXCEPT ![u] = p] /\ todo' = [todo EXCEPT ![u] = {s}]
      /\ copy' = [copy EXCEPT ![u][s] = r] /\ outdated' = outdated \ {<<u, s>>}
      /\ UNCHANGED <<now, up, boot, disk, garbled, since, fd, retry, faults, damaged, fired,
                     twice, timed>>
  BY DEF Reads, store
<1>2. u \in Calls /\ u \notin Ticks /\ fd[u] = "closed" /\ r # None
      /\ \A i \in Schedules : copy[u][i] = None
  BY <1>1, ScheduleAssumption DEF Base, TypeOK, CallOK, WritePhases, Calls
<1>3. /\ pc' \in [Calls -> Phases] /\ pc'[u] = p /\ \A d \in Calls \ {u} : pc'[d] = pc[d]
      /\ todo' \in [Calls -> SUBSET Schedules] /\ todo'[u] = {s}
      /\ \A d \in Calls \ {u} : todo'[d] = todo[d]
      /\ \A d \in Calls : pc'[d] = "idle" <=> todo'[d] = {}
  BY <1>1, <1>2 DEF Base, TypeOK, Phases
<1>4. /\ copy' \in [Calls -> [Schedules -> Record \cup {None}]]
      /\ \A i \in Schedules : copy'[u][i] = IF i = s THEN r ELSE None
      /\ \A d \in Calls \ {u} : copy'[d] = copy[d]
  BY <1>1, <1>2 DEF Base, TypeOK
<1>5. edits' \in 0..Edits /\ outdated' \subseteq Calls \X Schedules
  BY <1>1, ScheduleAssumption DEF Base, TypeOK
<1>6. TypeOK'
  BY <1>1, <1>3, <1>4, <1>5 DEF Base, TypeOK
<1>7. CallOK(u)'
  BY <1>1, <1>2, <1>3, <1>4 DEF CallOK
<1>8. \A d \in Calls \ {u} : CallOK(d)'
  <2>1. \A d \in Calls \ {u} : fd'[d] = fd[d] /\ (pc[d] # "idle" => up')
                               /\ (<<d, At(d)>> \in outdated => <<d, At(d)>> \in outdated')
    BY <1>1
  <2>2. now' \in Nat /\ now <= now'
    BY <1>1, ScheduleAssumption DEF Base, TypeOK
  <2> QED BY <1>2, <1>3, <1>4, <2>1, <2>2, OthersSame
<1> QED BY <1>1, <1>6, <1>7, <1>8 DEF Base

LEMMA PauseBase ==
  ASSUME Base, NEW u \in Users, NEW s \in Schedules, Pause(u, s)
  PROVE  Base'
<1> DEFINE r == [disk[s] EXCEPT !.status = "paused", !.next = None]
<1>1. disk[s] \in Record
  BY DEF Pause, Base, TypeOK
<1>2. r \in Record
  BY <1>1 DEF Record
<1>3. Reads(u, s, "pausing", r) /\ UNCHANGED <<running, held>>
  BY DEF Pause
<1> HIDE DEF r
<1> QED BY <1>2, <1>3, ReadsBase DEF Base, TypeOK

LEMMA ResumeBase ==
  ASSUME Base, NEW u \in Users, NEW s \in Schedules, Resume(u, s)
  PROVE  Base'
<1> DEFINE r == [disk[s] EXCEPT !.status = "active", !.next = now + Period]
<1>1. disk[s] \in Record /\ now + Period \in Nat
  BY ScheduleAssumption DEF Resume, Base, TypeOK
<1>2. r \in Record
  BY <1>1 DEF Record
<1>3. Reads(u, s, "editing", r) /\ held' = held \ {s} /\ running' = running
  BY DEF Resume
<1> HIDE DEF r
<1>4. held' \subseteq Schedules /\ running' \subseteq Schedules
  BY <1>3 DEF Base, TypeOK
<1> QED BY <1>2, <1>3, <1>4, ReadsBase

LEMMA UpdateBase ==
  ASSUME Base, NEW u \in Users, NEW s \in Schedules, Update(u, s)
  PROVE  Base'
<1> DEFINE n == IF disk[s].status = "active" THEN now + Period ELSE None
<1>1. disk[s] \in Record /\ n \in Nat \cup {None}
  BY ScheduleAssumption DEF Update, Base, TypeOK
<1>2. [disk[s] EXCEPT !.next = n] \in Record
  BY <1>1, MovedRecord
<1>3. /\ Reads(u, s, "editing", disk[s]) \/ Reads(u, s, "editing", [disk[s] EXCEPT !.next = n])
      /\ UNCHANGED <<running, held>>
  BY DEF Update
<1> HIDE DEF n
<1> QED BY <1>1, <1>2, <1>3, ReadsBase DEF Base, TypeOK

LEMMA RunOnceBase ==
  ASSUME Base, NEW u \in Users, NEW s \in Schedules, RunOnce(u, s)
  PROVE  Base'
<1>1. disk[s] \in Record
  BY DEF RunOnce, Base, TypeOK
<1>2. WithRun(disk[s], u) \in Record
  BY <1>1, WithRunRecord DEF Calls
<1>3. Reads(u, s, "recording", WithRun(disk[s], u)) /\ running' = running \cup {s} /\ held' = held
  BY DEF RunOnce
<1>4. running' \subseteq Schedules /\ held' \subseteq Schedules
  BY <1>3 DEF Base, TypeOK
<1> QED BY <1>2, <1>3, <1>4, ReadsBase

LEMMA PutFailsBase ==
  ASSUME Base, NEW c \in Calls, PutFails(c)
  PROVE  Base'
<1>1. /\ faults > 0 /\ faults' = faults - 1 /\ pc[c] \in WritePhases
      /\ fd' = [fd EXCEPT ![c] = "closed"]
      /\ garbled' = garbled \cup {s \in Schedules : c \in Writing(s)}
      /\ damaged' = damaged \cup {At(c)}
      /\ UNCHANGED <<now, up, boot, disk, edits, outdated, fired, twice, timed, held>>
  BY DEF PutFails
<1>2. At(c) \in todo[c] /\ At(c) \in Schedules /\ copy[c][At(c)] # None
  BY <1>1, WriterHolds DEF WritePhases
<1>3. /\ faults' \in 0..Faults /\ garbled' \subseteq Schedules /\ damaged' \subseteq Schedules
      /\ fd' \in [Calls -> {"closed", "open", "shared", "unlinked"}]
  BY <1>1, <1>2, ScheduleAssumption DEF Base, TypeOK
<1>4. CASE Throws(c) /\ running' \subseteq running
  <2>1. /\ pc' \in [Calls -> Phases] /\ todo' \in [Calls -> SUBSET Schedules]
        /\ \A d \in Calls : pc'[d] = "idle" <=> todo'[d] = {}
        /\ since' \in [Calls -> 0..now]
        /\ copy' \in [Calls -> [Schedules -> Record \cup {None}]]
        /\ retry' \subseteq Calls
        /\ \A d \in Calls : CallOK(d)'
    BY <1>1, <1>4, ThrowsTyped
  <2>2. TypeOK'
    BY <1>1, <1>3, <1>4, <2>1 DEF Base, TypeOK
  <2> QED BY <1>1, <2>1, <2>2 DEF Base
<1>5. CASE pc[c] = "finishing" /\ c \notin retry
  <2>1. retry' = retry \cup {c} /\ pc' = [pc EXCEPT ![c] = "inspecting"]
        /\ UNCHANGED <<running, todo, copy, since>>
    BY <1>5 DEF PutFails, FinishFails
  <2>2. /\ pc' \in [Calls -> Phases] /\ pc'[c] = "inspecting" /\ \A d \in Calls \ {c} : pc'[d] = pc[d]
        /\ \A d \in Calls : pc'[d] = "idle" <=> todo'[d] = {}
    BY <1>2, <2>1 DEF Base, TypeOK, Phases
  <2>3. TypeOK'
    BY <1>1, <1>3, <2>1, <2>2 DEF Base, TypeOK
  <2>4. fd'[c] = "closed" /\ \A d \in Calls \ {c} : fd'[d] = fd[d]
    BY <1>1 DEF Base, TypeOK
  <2>5. CallOK(c)'
    <3>1. CallOK(c) /\ At(c)' = At(c)
      BY <2>1, AtSame DEF Base
    <3> QED BY <1>1, <1>5, <2>1, <2>2, <2>4, <3>1 DEF CallOK
  <2>6. \A d \in Calls \ {c} : CallOK(d)'
    <3>1. \A d \in Calls \ {c} : pc[d] # "idle" => up'
      BY <1>1 DEF Base, CallOK
    <3> QED BY <1>1, <2>1, <2>2, <2>4, <3>1, OthersSame, ScheduleAssumption DEF Base, TypeOK
  <2> QED BY <1>1, <2>3, <2>5, <2>6 DEF Base
<1> QED BY <1>4, <1>5 DEF PutFails, FinishFails

LEMMA DeleteBase ==
  ASSUME Base, NEW s \in Schedules, Delete(s)
  PROVE  Base'
<1>1. /\ edits > 0 /\ edits' = edits - 1
      /\ disk' = [disk EXCEPT ![s] = None] /\ garbled' = garbled \ {s}
      /\ fd' = [c \in Calls |-> IF c \in Writing(s) THEN "unlinked" ELSE fd[c]]
      /\ outdated' = outdated \cup {<<c, s>> : c \in {d \in Calls : copy[d][s] # None}}
      /\ held' = held \ {s}
      /\ UNCHANGED <<now, up, boot, running, pc, todo, since, copy, retry, faults, damaged,
                     fired, twice, timed>>
  BY DEF Delete
<1>2. /\ edits' \in 0..Edits /\ garbled' \subseteq Schedules /\ held' \subseteq Schedules
      /\ outdated' \subseteq Calls \X Schedules
      /\ fd' \in [Calls -> {"closed", "open", "shared", "unlinked"}]
      /\ disk' \in [Schedules -> Record \cup {None}]
  BY <1>1, ScheduleAssumption DEF Base, TypeOK
<1>3. TypeOK'
  BY <1>1, <1>2 DEF Base, TypeOK
<1>4. ASSUME NEW d \in Calls
      PROVE  CallOK(d)'
  <2>1. CallOK(d) /\ now \in Nat /\ (pc[d] # "idle" => up')
    <3>1. CallOK(d) /\ now \in Nat
      BY ScheduleAssumption DEF Base, TypeOK
    <3> QED BY <1>1, <3>1 DEF CallOK
  <2>2. fd'[d] # "closed" => fd[d] # "closed"
    BY <1>1 DEF Writing
  <2>3. ASSUME fd'[d] = "unlinked" PROVE <<d, At(d)>> \in outdated'
    <3>1. CASE d \in Writing(s)
      <4>1. fd[d] # "closed" /\ At(d) = s
        BY <3>1 DEF Writing
      <4>2. copy[d][s] # None
        BY <4>1, OpenerHolds
      <4> QED BY <1>1, <4>1, <4>2
    <3>2. CASE d \notin Writing(s)
      BY <1>1, <2>1, <2>3, <3>2 DEF CallOK
    <3> QED BY <3>1, <3>2
  <2> QED BY <1>1, <2>1, <2>2, <2>3, CallSame
<1> QED BY <1>1, <1>3, <1>4 DEF Base

LEMMA ClockBase ==
  ASSUME Base, Clock
  PROVE  Base'
<1>1. now < Horizon /\ now' = now + 1
      /\ UNCHANGED <<up, boot, disk, garbled, running, pc, todo, since, copy, fd, retry, edits,
                     faults, history>>
  BY DEF Clock, store, calls
<1>2. now \in Nat /\ now' \in 0..Horizon /\ 0..now \subseteq 0..now'
  BY <1>1, ScheduleAssumption DEF Base, TypeOK
<1>3. TypeOK'
  BY <1>1, <1>2 DEF history, Base, TypeOK
<1>4. ASSUME NEW d \in Calls
      PROVE  CallOK(d)'
  <2>1. CallOK(d) /\ (pc[d] # "idle" => up')
    BY <1>1 DEF Base, CallOK
  <2>2. fd[d] = "unlinked" => <<d, At(d)>> \in outdated'
    BY <1>1, <2>1 DEF history, CallOK
  <2> QED BY <1>1, <1>2, <2>1, <2>2, CallSame
<1>5. \A s \in Schedules : fired'[s] \subseteq 0..now'
  BY <1>1, <1>2 DEF history, Base
<1> QED BY <1>3, <1>4, <1>5 DEF Base

LEMMA CrashBase ==
  ASSUME Base, Crash
  PROVE  Base'
<1>1. /\ faults > 0 /\ faults' = faults - 1 /\ up' = FALSE
      /\ garbled' = garbled \cup {s \in Schedules : Writing(s) # {}}
      /\ damaged' = damaged \cup {s \in Schedules : Writing(s) # {}}
      /\ running' = {} /\ retry' = {} /\ outdated' = {}
      /\ pc' = [c \in Calls |-> "idle"] /\ todo' = [c \in Calls |-> {}]
      /\ copy' = [c \in Calls |-> [s \in Schedules |-> None]]
      /\ fd' = [c \in Calls |-> "closed"] /\ since' = [c \in Calls |-> 0]
      /\ UNCHANGED <<now, boot, disk, edits, fired, twice, timed, held>>
  BY DEF Crash
<1>2. /\ faults' \in 0..Faults /\ garbled' \subseteq Schedules /\ damaged' \subseteq Schedules
      /\ since' \in [Calls -> 0..now']
  BY <1>1, ScheduleAssumption DEF Base, TypeOK
<1>3. TypeOK'
  BY <1>1, <1>2 DEF Base, TypeOK, Phases
<1>4. ASSUME NEW d \in Calls
      PROVE  CallOK(d)'
  BY <1>1 DEF CallOK
<1> QED BY <1>1, <1>3, <1>4 DEF Base

LEMMA StartBase ==
  ASSUME Base, Start
  PROVE  Base'
<1>1. /\ up' = TRUE /\ boot' = now
      /\ disk' = [s \in Schedules |-> IF disk[s] = None THEN None ELSE Recovered(disk[s], now)]
      /\ UNCHANGED <<now, garbled, running, pc, todo, since, copy, fd, retry, edits, faults,
                     history>>
  BY DEF Start, calls
<1>2. now \in Nat
  BY ScheduleAssumption DEF Base, TypeOK
<1>3. ASSUME NEW s \in Schedules, disk[s] # None PROVE Recovered(disk[s], now) \in Record
  <2>1. disk[s] \in Record
    BY <1>3 DEF Base, TypeOK
  <2> QED BY <1>2, <2>1, RecoveredRecord
<1>4. disk' \in [Schedules -> Record \cup {None}]
  BY <1>1, <1>3
<1>5. TypeOK'
  BY <1>1, <1>2, <1>4 DEF history, Base, TypeOK
<1>6. ASSUME NEW d \in Calls
      PROVE  CallOK(d)'
  <2>1. CallOK(d) /\ (pc[d] # "idle" => up')
    BY <1>1 DEF Base
  <2>2. fd[d] = "unlinked" => <<d, At(d)>> \in outdated'
    BY <1>1, <2>1 DEF history, CallOK
  <2> QED BY <1>1, <1>2, <2>1, <2>2, CallSame
<1> QED BY <1>1, <1>5, <1>6 DEF history, Base

LEMMA InitBase == Init => Base
<1> SUFFICES ASSUME Init PROVE Base
  OBVIOUS
<1> USE ScheduleAssumption
<1>1. ASSUME NEW n \in Nat \cup {None}
      PROVE  Created(n) \in Record /\ [Created(n) EXCEPT !.status = "paused"] \in Record
  <2>1. Created(n) \in Record
    BY EmptySeq DEF Created, Record
  <2> QED BY <2>1 DEF Record
<1>2. disk \in [Schedules -> Record \cup {None}]
  <2>1. /\ 0 \in Nat /\ Period \in Nat
        /\ disk \in [Schedules -> {Created(n) : n \in {0, Period}}
                                  \cup {[Created(None) EXCEPT !.status = "paused"]}]
    BY DEF Init
  <2>2. {Created(n) : n \in {0, Period}} \cup {[Created(None) EXCEPT !.status = "paused"]} \subseteq Record
    BY <1>1, <2>1
  <2> QED BY <2>1, <2>2
<1>3. TypeOK
  BY <1>2 DEF Init, TypeOK, Phases
<1>4. \A c \in Calls : CallOK(c)
  BY DEF Init, CallOK
<1> QED BY <1>3, <1>4 DEF Init, Base

(* Base is inductive by itself.                                             *)
LEMMA BaseStep ==
  ASSUME Base, [Next]_vars
  PROVE  Base'
<1>1. CASE UNCHANGED vars
  BY <1>1 DEF vars, store, calls, history, Base, TypeOK, CallOK, At
<1>2. CASE Next
  BY <1>2, TickListsBase, TickSkipsBase, TickCompletesBase, TickRunsBase, CompletionLandsBase,
     OpensBase, RunStartsBase, RunnerEndsBase, FinishReadsBase, FinishLandsBase, EditLandsBase,
     PauseBase, ResumeBase, UpdateBase, RunOnceBase, PutFailsBase, DeleteBase, ClockBase,
     CrashBase, StartBase DEF Next, TickSteps, UserSteps, Steps, Calls
<1> QED BY <1>1, <1>2

-----------------------------------------------------------------------------
(* Runs of one schedule never overlap.                                     *)

(* A call takes a schedule into runningScheduleIds in the step in which it  *)
(* finds it free, and gives it free in the step in which it leaves it.      *)
LEMMA RunStep ==
  ASSUME Base, RunExclusive, [Next]_vars
  PROVE  RunExclusive'
<1> USE DEF RunExclusive, RunPhases
<1>a. pc \in [Calls -> Phases] /\ todo \in [Calls -> SUBSET Schedules] /\ Ticks \subseteq Calls /\ Users \subseteq Calls
  BY DEF Base, TypeOK, Calls
<1>b. \A d : todo'[d] = todo[d] => At(d)' = At(d)
  BY AtSame
<1>1. ASSUME NEW t \in Ticks, TickLists(t)
      PROVE  RunExclusive'
  <2>1. /\ pc[t] = "idle" /\ pc' = [pc EXCEPT ![t] = "walking"]
        /\ \A d \in Calls \ {t} : At(d)' = At(d)
        /\ running' = running /\ damaged' = damaged
    BY <1>a, <1>b, <1>1 DEF TickLists
  <2> QED BY <1>a, <2>1
<1>2. ASSUME NEW t \in Ticks, TickSkips(t)
      PROVE  RunExclusive'
  BY <1>a, <1>b, <1>2 DEF TickSkips, Leaves, store, history
<1>3. ASSUME NEW t \in Ticks, TickCompletes(t)
      PROVE  RunExclusive'
  BY <1>a, <1>b, <1>3 DEF TickCompletes, Candidate, store, history
<1>4. ASSUME NEW t \in Ticks, TickRuns(t)
      PROVE  RunExclusive'
  BY <1>a, <1>b, <1>4 DEF TickRuns, Candidate, store, history
<1>5. ASSUME NEW t \in Ticks, CompletionLands(t)
      PROVE  RunExclusive'
  BY <1>a, <1>b, <1>5 DEF CompletionLands, Lands, Leaves
<1>6. ASSUME NEW u \in Users, EditLands(u)
      PROVE  RunExclusive'
  BY <1>a, <1>b, <1>6 DEF EditLands, Lands, Leaves
<1>7. ASSUME NEW c \in Calls, Opens(c)
      PROVE  RunExclusive'
  BY <1>a, <1>b, <1>7 DEF Opens, store, history
<1>8. ASSUME NEW c \in Calls, RunStarts(c)
      PROVE  RunExclusive'
  BY <1>a, <1>b, <1>8 DEF RunStarts, Lands
<1>9. ASSUME NEW c \in Calls, FinishReads(c)
      PROVE  RunExclusive'
  BY <1>a, <1>b, <1>9 DEF FinishReads, FinishFails, Throws, store
<1>10. ASSUME NEW c \in Calls, FinishLands(c)
      PROVE  RunExclusive'
  BY <1>a, <1>b, <1>10 DEF FinishLands, Lands, Leaves
<1>11. ASSUME NEW u \in Users, NEW s \in Schedules, Pause(u, s)
      PROVE  RunExclusive'
  BY <1>a, <1>b, <1>11 DEF Pause, Reads, store
<1>12. ASSUME NEW u \in Users, NEW s \in Schedules, Resume(u, s)
      PROVE  RunExclusive'
  BY <1>a, <1>b, <1>12 DEF Resume, Reads, store
<1>13. ASSUME NEW u \in Users, NEW s \in Schedules, Update(u, s)
      PROVE  RunExclusive'
  BY <1>a, <1>b, <1>13 DEF Update, Reads, store
<1>14. ASSUME NEW u \in Users, NEW s \in Schedules, RunOnce(u, s)
      PROVE  RunExclusive'
  <2>1. /\ pc' = [pc EXCEPT ![u] = "recording"] /\ todo' = [todo EXCEPT ![u] = {s}]
        /\ s \notin running /\ running' = running \cup {s} /\ damaged' = damaged /\ pc[u] = "idle"
    BY <1>14 DEF RunOnce, Reads
  <2>2. At(u)' = s
    <3>1. todo'[u] = {s}
      BY <1>a, <2>1
    <3>2. At(u)' = CHOOSE x \in {s} : \A r \in {s} : x <= r
      BY <3>1 DEF At
    <3>3. s <= s
      BY ScheduleAssumption DEF Schedules
    <3> QED BY <3>2, <3>3
  <2> QED BY <1>a, <1>b, <2>1, <2>2
<1>15. ASSUME NEW c \in Calls, RunnerEnds(c)
      PROVE  RunExclusive'
  BY <1>a, <1>b, <1>15 DEF RunnerEnds, store, history
<1>16. ASSUME NEW c \in Calls, PutFails(c)
      PROVE  RunExclusive'
  BY <1>a, <1>b, <1>16 DEF PutFails, WritePhases, FinishFails, Throws
<1>17. ASSUME NEW s \in Schedules, Delete(s)
      PROVE  RunExclusive'
  BY <1>a, <1>b, <1>17 DEF Delete
<1>18. CASE Clock
  BY <1>a, <1>b, <1>18 DEF Clock, store, calls, history
<1>19. CASE Crash
  BY <1>19 DEF Crash
<1>20. CASE Start
  BY <1>a, <1>b, <1>20 DEF Start, calls, history
<1>21. CASE UNCHANGED vars
  BY <1>a, <1>b, <1>21 DEF vars, calls, history
<1> QED
  BY <1>1, <1>2, <1>3, <1>4, <1>5, <1>6, <1>7, <1>8, <1>9, <1>10, <1>11, <1>12,
     <1>13, <1>14, <1>15, <1>16, <1>17, <1>18, <1>19, <1>20, <1>21 DEF Next,
     TickSteps, UserSteps, Steps, Calls

-----------------------------------------------------------------------------
(* No record of a running daemon is due for a time before its start.       *)

(* A record that is due is due no earlier than the daemon's start.          *)
Late(r) == r # None /\ r.status = "active" /\ r.next # None => r.next >= boot
BootInv ==
  /\ up => \A s \in Schedules : Late(disk[s])
  /\ \A c \in Calls, s \in Schedules : Late(copy[c][s])

(* A write moves a copy to the disk; a call that leaves forgets its copy. *)
LEMMA LandsLate ==
  ASSUME Base, BootInv, NEW c \in Calls, Lands(c), pc[c] # "idle", boot' = boot
  PROVE  \A s \in Schedules : Late(disk[s])'
<1>1. up
  BY DEF Base, CallOK
<1>2. At(c) \in Schedules
  BY AtThere DEF Base
<1>3. disk' \in {disk, [disk EXCEPT ![At(c)] = copy[c][At(c)]]}
  BY DEF Lands, store
<1>4. ASSUME NEW s \in Schedules
      PROVE  disk'[s] = disk[s] \/ disk'[s] = copy[c][At(c)]
  BY <1>2, <1>3 DEF Base, TypeOK
<1>5. Late(copy[c][At(c)]) /\ \A s \in Schedules : Late(disk[s])
  BY <1>1, <1>2 DEF BootInv
<1> QED BY <1>4, <1>5 DEF Late

LEMMA CopyLate ==
  ASSUME Base, BootInv, NEW c \in Calls, NEW s \in Schedules, NEW r \in Record \cup {None},
         copy' = [copy EXCEPT ![c][s] = r], Late(r), boot' = boot
  PROVE  \A d \in Calls, i \in Schedules : Late(copy[d][i])'
<1>1. \A d \in Calls, i \in Schedules : copy'[d][i] = IF d = c /\ i = s THEN r ELSE copy[d][i]
  BY DEF Base, TypeOK
<1> QED BY <1>1 DEF BootInv, Late

LEMMA LeavesLate ==
  ASSUME Base, BootInv, NEW c \in Calls, pc[c] # "idle", Leaves(c) \/ Throws(c), boot' = boot
  PROVE  \A d \in Calls, i \in Schedules : Late(copy[d][i])'
<1>1. \A d \in Calls, i \in Schedules : copy'[d][i] \in {None, copy[d][i]}
  BY DEF Leaves, Throws, Base, TypeOK
<1> QED BY <1>1 DEF BootInv, Late

(* Times that went by are skipped at the start, before a copy can be made   *)
(* of them, and whatever is computed later lies later.                      *)
LEMMA BootStep ==
  ASSUME Base, BootInv, [Next]_vars
  PROVE  BootInv'
<1>a. now \in Nat /\ boot \in 0..now /\ Ticks \subseteq Calls /\ Users \subseteq Calls /\ Period \in Nat
  BY ScheduleAssumption DEF Base, TypeOK, Calls
<1>1. ASSUME NEW t \in Ticks, TickLists(t)
      PROVE  BootInv'
  <2>1. up /\ up' = up /\ boot' = boot /\ disk' = disk /\ copy' = [copy EXCEPT ![t] = disk]
    BY <1>1 DEF TickLists, store
  <2>2. \A d \in Calls, i \in Schedules : copy'[d][i] \in {disk[i], copy[d][i]}
    BY <1>a, <2>1 DEF Base, TypeOK
  <2> QED BY <2>1, <2>2 DEF BootInv, Late
<1>2. ASSUME NEW t \in Ticks, TickSkips(t)
      PROVE  BootInv'
  <2>1. pc[t] # "idle" /\ Leaves(t) /\ boot' = boot /\ up' = up /\ disk' = disk
    BY <1>2 DEF TickSkips, store
  <2> QED BY <1>a, <2>1, LeavesLate DEF BootInv, Late
<1>3. ASSUME NEW t \in Ticks, TickCompletes(t)
      PROVE  BootInv'
  <2> DEFINE r == Completed(copy[t][At(t)])
  <2>1. pc[t] = "walking" /\ copy' = [copy EXCEPT ![t][At(t)] = r] /\ boot' = boot /\ up' = up /\ disk' = disk
    BY <1>3 DEF TickCompletes, Candidate, store
  <2>2. At(t) \in Schedules /\ copy[t][At(t)] \in Record
    BY <1>a, <2>1, WriterHolds
  <2>3. r \in Record /\ r.next = None
    BY <2>2, CompletedRecord
  <2>4. Late(r)
    BY <2>3 DEF Late
  <2> HIDE DEF r
  <2>5. \A d \in Calls, i \in Schedules : Late(copy[d][i])'
    BY <1>a, <2>1, <2>2, <2>3, <2>4, CopyLate
  <2> QED BY <2>1, <2>5 DEF BootInv, Late
<1>4. ASSUME NEW t \in Ticks, TickRuns(t)
      PROVE  BootInv'
  <2> DEFINE r == WithRun(copy[t][At(t)], t)
  <2>1. pc[t] = "walking" /\ copy' = [copy EXCEPT ![t][At(t)] = r] /\ boot' = boot /\ up' = up /\ disk' = disk
    BY <1>4 DEF TickRuns, Candidate, store
  <2>2. At(t) \in Schedules /\ copy[t][At(t)] \in Record /\ copy[t][At(t)] # None
    BY <1>a, <2>1, WriterHolds
  <2>3. r \in Record /\ r.next = copy[t][At(t)].next /\ r.status = copy[t][At(t)].status
    BY <1>a, <2>2, WithRunRecord
  <2>4. Late(r)
    BY <1>a, <2>2, <2>3 DEF Late, BootInv
  <2> HIDE DEF r
  <2>5. \A d \in Calls, i \in Schedules : Late(copy[d][i])'
    BY <1>a, <2>1, <2>2, <2>3, <2>4, CopyLate
  <2> QED BY <2>1, <2>5 DEF BootInv, Late
<1>5. ASSUME NEW c \in Calls, RunnerEnds(c)
      PROVE  BootInv'
  <2>1. pc[c] # "idle" /\ copy' = [copy EXCEPT ![c][At(c)] = None] /\ boot' = boot /\ up' = up /\ disk' = disk
    BY <1>5 DEF RunnerEnds, store
  <2>2. At(c) \in Schedules /\ Late(None)
    BY <2>1, AtThere DEF Base, Late
  <2>3. \A d \in Calls, i \in Schedules : Late(copy[d][i])'
    BY <2>1, <2>2, CopyLate
  <2> QED BY <2>1, <2>3 DEF BootInv, Late
<1>6. ASSUME NEW c \in Calls, Opens(c)
      PROVE  BootInv'
  BY <1>6 DEF Opens, store, BootInv, Late
<1>7. ASSUME NEW c \in Calls, RunStarts(c)
      PROVE  BootInv'
  <2>1. pc[c] # "idle" /\ Lands(c) /\ boot' = boot /\ up' = up /\ copy' = copy
    BY <1>7 DEF RunStarts
  <2>2. \A s \in Schedules : Late(disk[s])'
    BY <2>1, LandsLate
  <2> QED BY <2>1, <2>2 DEF BootInv, Late
<1>8. ASSUME NEW c \in Calls, pc[c] # "idle", Lands(c), Leaves(c), boot' = boot, up' = up
      PROVE  BootInv'
  BY <1>8, LandsLate, LeavesLate DEF BootInv
<1>9. ASSUME NEW c \in Calls, FinishReads(c)
      PROVE  BootInv'
  <2> DEFINE s == At(c)
  <2>1. pc[c] = "inspecting" /\ boot' = boot /\ up' = up /\ disk' = disk /\ s \in Schedules
    BY <1>9, AtThere DEF FinishReads, store, Base
  <2>2. CASE Found(s)
    <3> DEFINE r == Finished(disk[s], c, now)
    <3>1. copy' = [copy EXCEPT ![c][s] = r]
      BY <1>9, <2>2 DEF FinishReads
    <3>2. disk[s] \in Record /\ disk[s] # None /\ up
      BY <2>1, <2>2 DEF Found, Base, TypeOK, CallOK
    <3>3. r \in Record /\ (c \in Users => r = CloseRun(disk[s], c))
          /\ (c \notin Users => r.next = None \/ r.next > now)
      BY <1>a, <3>2, FinishedRecord
    <3>4. c \in Users => r.status = disk[s].status /\ r.next = disk[s].next
      BY <3>2, <3>3, CloseRunRecord
    <3>5. r.next = None \/ r.next \in Nat
      BY <3>3 DEF Record
    <3> HIDE DEF r
    <3>6. Late(r)
      BY <1>a, <2>1, <3>2, <3>3, <3>4, <3>5 DEF Late, BootInv
    <3>7. \A d \in Calls, i \in Schedules : Late(copy[d][i])'
      BY <2>1, <3>1, <3>3, <3>6, CopyLate
    <3> QED BY <2>1, <3>7 DEF BootInv, Late
  <2>3. CASE ~Found(s)
    <3>1. FinishFails(c)
      BY <1>9, <2>3 DEF FinishReads
    <3>2. \A d \in Calls, i \in Schedules : Late(copy[d][i])'
      BY <2>1, <3>1, LeavesLate DEF FinishFails, BootInv, Late
    <3> QED BY <2>1, <3>2 DEF BootInv, Late
  <2> QED BY <2>2, <2>3
<1>10. ASSUME NEW u \in Users, NEW s \in Schedules, NEW p, NEW r \in Record, Reads(u, s, p, r), Late(r)
       PROVE  BootInv'
  <2>1. copy' = [copy EXCEPT ![u][s] = r] /\ boot' = boot /\ up' = up /\ disk' = disk
    BY <1>10 DEF Reads, store
  <2>2. \A d \in Calls, i \in Schedules : Late(copy[d][i])'
    BY <1>a, <1>10, <2>1, CopyLate
  <2> QED BY <2>1, <2>2 DEF BootInv, Late
<1>11. ASSUME NEW u \in Users, NEW s \in Schedules, Pause(u, s) \/ Resume(u, s) \/ Update(u, s) \/ RunOnce(u, s)
       PROVE  BootInv'
  <2>1. disk[s] \in Record /\ disk[s] # None /\ up
    BY <1>11 DEF Pause, Resume, Update, RunOnce, Reads, Base, TypeOK
  <2>2. Late(disk[s])
    BY <2>1 DEF BootInv
  <2>3. CASE Pause(u, s)
    <3> DEFINE r == [disk[s] EXCEPT !.status = "paused", !.next = None]
    <3>1. r \in Record /\ r.next = None
      BY <2>1 DEF Record
    <3>2. Reads(u, s, "pausing", r) /\ Late(r)
      BY <2>3, <3>1 DEF Pause, Late
    <3> QED BY <1>10, <3>1, <3>2
  <2>4. CASE Resume(u, s)
    <3>0. PICK r : r = [disk[s] EXCEPT !.status = "active", !.next = now + Period]
      OBVIOUS
    <3>1. r \in Record /\ r.next = now + Period
      <4>1. PICK old \in Record : old = disk[s]
        BY <2>1
      <4>2. PICK n \in Nat : n = now + Period
        BY <1>a
      <4>3. r = [old EXCEPT !.status = "active", !.next = n]
        BY <3>0, <4>1, <4>2
      <4>4. r \in Record /\ r.next = n
        BY <4>3 DEF Record
      <4> QED BY <4>2, <4>4
    <3>2. Reads(u, s, "editing", r) /\ Late(r)
      BY <1>a, <2>4, <3>0, <3>1 DEF Resume, Late
    <3> QED BY <1>10, <3>1, <3>2
  <2>5. CASE Update(u, s)
    <3> DEFINE n == IF disk[s].status = "active" THEN now + Period ELSE None
               r == [disk[s] EXCEPT !.next = n]
    <3>1. n \in Nat \cup {None} /\ (n # None => n >= boot)
      BY <1>a
    <3>2. r \in Record /\ r.next = n
      BY <2>1, <3>1, MovedRecord
    <3>3. Late(r)
      BY <3>1, <3>2 DEF Late
    <3>4. Reads(u, s, "editing", disk[s]) \/ Reads(u, s, "editing", r)
      BY <2>5 DEF Update
    <3> HIDE DEF r
    <3> QED BY <1>10, <2>1, <2>2, <3>2, <3>3, <3>4
  <2>6. CASE RunOnce(u, s)
    <3> DEFINE r == WithRun(disk[s], u)
    <3>1. r \in Record /\ r.status = disk[s].status /\ r.next = disk[s].next
      BY <1>a, <2>1, WithRunRecord
    <3>2. Reads(u, s, "recording", r) /\ Late(r)
      BY <2>1, <2>2, <2>6, <3>1 DEF RunOnce, Late
    <3> HIDE DEF r
    <3> QED BY <1>10, <3>1, <3>2
  <2> QED BY <1>11, <2>3, <2>4, <2>5, <2>6
<1>12. ASSUME NEW c \in Calls, PutFails(c)
       PROVE  BootInv'
  <2>1. pc[c] # "idle" /\ boot' = boot /\ up' = up /\ disk' = disk
    BY <1>12 DEF PutFails, WritePhases
  <2>2. \A d \in Calls, i \in Schedules : Late(copy[d][i])'
    BY <1>12, <2>1, LeavesLate DEF PutFails, FinishFails, BootInv, Late
  <2> QED BY <2>1, <2>2 DEF BootInv, Late
<1>13. ASSUME NEW s \in Schedules, Delete(s)
       PROVE  BootInv'
  <2>1. disk' = [disk EXCEPT ![s] = None] /\ UNCHANGED <<up, boot, copy>>
    BY <1>13 DEF Delete
  <2>2. \A i \in Schedules : disk'[i] \in {None, disk[i]}
    BY <2>1 DEF Base, TypeOK
  <2> QED BY <2>1, <2>2 DEF BootInv, Late
<1>14. CASE Clock
  BY <1>14 DEF Clock, store, calls, BootInv, Late
<1>15. CASE Crash
  BY <1>15 DEF Crash, BootInv, Late
<1>16. CASE Start
  <2>1. /\ boot' = now /\ copy' = copy /\ ~up
        /\ disk' = [s \in Schedules |-> IF disk[s] = None THEN None ELSE Recovered(disk[s], now)]
    BY <1>16 DEF Start, calls
  <2>2. \A c \in Calls, s \in Schedules : copy[c][s] = None
    BY <2>1 DEF Base, TypeOK, CallOK
  <2>3. ASSUME NEW s \in Schedules PROVE Late(disk[s])'
    <3>1. CASE disk[s] = None
      BY <2>1, <3>1 DEF Late
    <3>2. CASE disk[s] # None
      <4> DEFINE r == disk[s]
                 q == Recovered(r, now)
      <4>1. r \in Record
        BY <3>2 DEF Base, TypeOK
      <4>2. disk'[s] = q
        BY <2>1, <3>2
      <4>3. q.status = r.status /\ (q.next = r.next \/ q.next \in Nat)
            /\ (r.status = "active" /\ r.next # None => q.next > now)
            /\ (r.next = None => q.next = r.next)
        BY <1>a, <4>1, RecoveredRecord
      <4> HIDE DEF q, r
      <4>4. r.next = None \/ r.next \in Nat
        BY <4>1 DEF Record
      <4> QED BY <1>a, <2>1, <4>2, <4>3, <4>4 DEF Late
    <3> QED BY <3>1, <3>2
  <2> QED BY <2>1, <2>2, <2>3 DEF BootInv, Late
<1>17. CASE UNCHANGED vars
  BY <1>17 DEF vars, store, calls, BootInv, Late
<1>18. ASSUME NEW c \in Calls, FinishLands(c) PROVE BootInv'
  BY <1>8, <1>18 DEF FinishLands
<1>19. ASSUME NEW t \in Ticks, CompletionLands(t) PROVE BootInv'
  BY <1>a, <1>8, <1>19 DEF CompletionLands
<1>20. ASSUME NEW u \in Users, EditLands(u) PROVE BootInv'
  BY <1>a, <1>8, <1>20 DEF EditLands
<1> QED
  BY <1>a, <1>1, <1>2, <1>3, <1>4, <1>5, <1>6, <1>7, <1>9, <1>11, <1>12, <1>13, <1>14,
     <1>15, <1>16, <1>17, <1>18, <1>19, <1>20 DEF Next, TickSteps, UserSteps, Steps

-----------------------------------------------------------------------------
(* What a schedule that is not damaged keeps.                              *)

(* A copy that is the file as it is, or what is to replace it.              *)
Fresh(c, s) == copy[c][s] # None /\ <<c, s>> \notin outdated

(* Where a call is with a schedule, as far as the record shows it: whether  *)
(* its run is to be recorded, is recorded, or is closed in its copy.        *)
Stage(c, s) ==
  IF pc[c] \in {"recording", "running", "inspecting", "finishing", "pausing"} /\ At(c) = s
  THEN pc[c] ELSE "other"
Recorded(c, s) == Stage(c, s) \in {"running", "inspecting", "finishing"}
TickRecorded(s) == \E t \in Ticks : Recorded(t, s)

(* What a record, or a fresh copy of it, says is what has happened: a       *)
(* record that is not active is not due, a paused one is not active, the    *)
(* runs of the timer are counted or open, and the time it is due has not    *)
(* fired, unless the run it fired is still under way.                       *)
Sound(s, r) ==
  /\ r.status # "active" => r.next = None
  /\ s \in held => r.status # "active"
  /\ timed[s] <= r.ended + Len(r.open)
  /\ up /\ r.next \in fired[s] => TickRecorded(s)

(* A record names one open run at most, which is under way if the daemon    *)
(* runs.                                                                    *)
OpenOnce(s) ==
  \/ disk[s].open = <<>>
  \/ \E c \in Calls : disk[s].open = <<c>> /\ (up => Recorded(c, s))

(* Nobody completes a schedule during a run of the timer: its end is due    *)
(* later, which a completed schedule is not.                                *)
NotCompleted(s) ==
  \A t \in Ticks : Recorded(t, s) =>
    /\ disk[s].status # "completed"
    /\ \A c \in Calls \ {t} : Fresh(c, s) => copy[c][s].status # "completed"

(* What a fresh copy has of open runs, and of the time that is to fire.     *)
StageSound(c, s) ==
  LET k == copy[c][s] IN
  /\ Stage(c, s) \notin {"recording", "finishing"} => k.open = disk[s].open
  /\ Stage(c, s) = "recording" =>
       /\ k.open = <<c>>
       /\ c \in Ticks => k.next \notin fired[s] /\ timed[s] < MaxRuns /\ timed[s] <= k.ended
  /\ Stage(c, s) = "finishing" => k.open = <<>> /\ (c \in Ticks => k.next \notin fired[s])
  /\ Stage(c, s) = "pausing" => k.status = "paused"

(* A schedule none of whose writes was lost. That a time fires once needs   *)
(* all of this: the time is on disk and in copies, which are read, held     *)
(* over awaits and written back by ticks and clients in any order.          *)
Kept(s) ==
  /\ s \notin twice /\ timed[s] <= MaxRuns
  /\ disk[s] = None => \A c \in Calls : ~Fresh(c, s)
  /\ disk[s] # None =>
       /\ Sound(s, disk[s]) /\ OpenOnce(s) /\ NotCompleted(s)
       /\ \A c \in Calls : Fresh(c, s) => Sound(s, copy[c][s]) /\ StageSound(c, s)

Exact == \A s \in Schedules \ damaged : Kept(s)

(* No copy becomes fresh, and the fresh ones stay what they were.           *)
NoFresher(c, s) ==
  Fresh(c, s)' => Fresh(c, s) /\ copy'[c][s] = copy[c][s] /\ Stage(c, s)' = Stage(c, s)

(* A schedule stays kept if nothing is written to it and no fresh copy of   *)
(* it is made or changed.                                                   *)
LEMMA KeptFrame ==
  ASSUME NEW s \in Schedules, Kept(s), disk'[s] = disk[s], timed'[s] = timed[s],
         fired'[s] = fired[s],
         s \in twice' => s \in twice, s \in held' => s \in held, up' => up,
         \A c \in Calls : Recorded(c, s)' <=> Recorded(c, s),
         \A c \in Calls : NoFresher(c, s)
  PROVE  Kept(s)'
<1>1. TickRecorded(s)' <=> TickRecorded(s)
  BY DEF TickRecorded, Calls
<1>2. \A r : Sound(s, r) => Sound(s, r)'
  BY <1>1 DEF Sound
<1>3. CASE disk[s] = None
  BY <1>3 DEF Kept, NoFresher
<1>4. CASE disk[s] # None
  <2>1. OpenOnce(s)' /\ NotCompleted(s)' /\ Sound(s, disk[s])'
    BY <1>2, <1>4 DEF Kept, OpenOnce, NotCompleted, Calls, NoFresher
  <2>2. Sound(s, disk[s])'
    BY <1>2, <1>4 DEF Kept, Sound
  <2>3. ASSUME NEW c \in Calls, Fresh(c, s)'
        PROVE  Sound(s, copy[c][s])' /\ StageSound(c, s)'
    <3>1. Sound(s, copy[c][s]) /\ StageSound(c, s)
      BY <1>4, <2>3 DEF Kept, NoFresher
    <3>2. StageSound(c, s)'
      BY <2>3, <3>1 DEF StageSound, NoFresher
    <3>3. Sound(s, copy[c][s])'
      BY <1>2, <2>3, <3>1 DEF Sound, NoFresher
    <3> QED BY <3>2, <3>3
  <2> QED BY <1>4, <2>1, <2>2, <2>3 DEF Kept
<1> QED BY <1>3, <1>4

(* Sound depends on the history of the schedule only.                       *)
LEMMA SoundKeeps ==
  ASSUME NEW s \in Schedules, NEW r, Sound(s, r),
         timed'[s] = timed[s], fired'[s] = fired[s], s \in held' => s \in held, up' => up,
         \A c \in Calls : Recorded(c, s)' <=> Recorded(c, s)
  PROVE  Sound(s, r)'
<1>1. TickRecorded(s)' <=> TickRecorded(s)
  BY DEF TickRecorded, Calls
<1> QED BY <1>1 DEF Sound

(* One call reads the record, or changes the copy it has read.              *)
LEMMA KeptCopy ==
  ASSUME NEW s \in Schedules, Kept(s), disk[s] # None, NEW c \in Calls, NEW r,
         disk'[s] = disk[s], timed'[s] = timed[s], fired'[s] = fired[s],
         s \in twice' => s \in twice, s \in held' => s \in held, up' => up,
         \A d \in Calls : Recorded(d, s)' <=> Recorded(d, s),
         \A d \in Calls \ {c} : NoFresher(d, s),
         copy'[c][s] = r,
         Fresh(c, s)' => /\ Sound(s, r)' /\ StageSound(c, s)'
                         /\ (\E t \in Ticks \ {c} : Recorded(t, s)) => r.status # "completed"
  PROVE  Kept(s)'
<1>1. Sound(s, disk[s]) /\ OpenOnce(s) /\ NotCompleted(s)
  BY DEF Kept
<1>2. PICK old : old = disk[s]
  OBVIOUS
<1>3. Sound(s, disk[s])'
  <2>1. Sound(s, old)'
    BY <1>1, <1>2, SoundKeeps
  <2> QED BY <1>2, <2>1 DEF Sound
<1>4. OpenOnce(s)'
  BY <1>1 DEF OpenOnce
<1>5. NotCompleted(s)'
  BY <1>1 DEF NotCompleted, Calls, NoFresher
<1>6. ASSUME NEW d \in Calls \ {c}, Fresh(d, s)'
      PROVE  Sound(s, copy[d][s])' /\ StageSound(d, s)'
  <2>1. PICK k : k = copy[d][s]
    OBVIOUS
  <2>2. Sound(s, k) /\ StageSound(d, s) /\ copy'[d][s] = k /\ Stage(d, s)' = Stage(d, s)
    BY <1>6, <2>1 DEF Kept, NoFresher
  <2>3. Sound(s, k)'
    BY <2>2, SoundKeeps
  <2>4. Sound(s, copy[d][s])'
    BY <2>2, <2>3 DEF Sound
  <2>5. StageSound(d, s)'
    BY <2>1, <2>2 DEF StageSound
  <2> QED BY <2>4, <2>5
<1>7. ASSUME Fresh(c, s)'
      PROVE  Sound(s, copy[c][s])' /\ StageSound(c, s)'
  BY <1>7 DEF Sound
<1> QED BY <1>3, <1>4, <1>5, <1>6, <1>7 DEF Kept

(* A call that is busy with another schedule, or only forgets its copy.     *)
LEMMA Elsewhere ==
  ASSUME NEW s \in Schedules, Kept(s), NEW c \in Calls,
         disk'[s] = disk[s], timed'[s] = timed[s], fired'[s] = fired[s],
         s \in twice' => s \in twice, s \in held' => s \in held, up' => up,
         \A d \in Calls \ {c} : pc'[d] = pc[d] /\ todo'[d] = todo[d] /\ copy'[d] = copy[d],
         \A d \in Calls : copy'[d][s] # None /\ <<d, s>> \in outdated => <<d, s>> \in outdated',
         Recorded(c, s)' <=> Recorded(c, s),
         copy'[c][s] # None => copy'[c][s] = copy[c][s] /\ Stage(c, s)' = Stage(c, s)
  PROVE  Kept(s)'
<1>1. \A d \in Calls \ {c} : Stage(d, s)' = Stage(d, s) /\ (Recorded(d, s)' <=> Recorded(d, s))
  BY AtSame DEF Stage, Recorded
<1>2. \A d \in Calls : Recorded(d, s)' <=> Recorded(d, s)
  BY <1>1
<1>3. \A d \in Calls : NoFresher(d, s)
  BY <1>1 DEF NoFresher, Fresh
<1> QED BY <1>2, <1>3, KeptFrame

(* The call in a run is the only one whose run the record may name.         *)
LEMMA OneRun ==
  ASSUME RunExclusive, NEW s \in Schedules, NEW c \in Calls, NEW d \in Calls,
         pc[c] \in RunPhases, At(c) = s, Recorded(d, s)
  PROVE  d = c
<1>1. pc[d] \in RunPhases /\ At(d) = s
  BY DEF Recorded, Stage, RunPhases
<1> QED BY <1>1 DEF RunExclusive

(* A schedule that is not in runningScheduleIds has no open run in its      *)
(* record.                                                                  *)
LEMMA FreeIsBare ==
  ASSUME RunExclusive, NEW s \in Schedules, s \notin running
  PROVE  /\ \A c \in Calls : ~Recorded(c, s)
         /\ up /\ OpenOnce(s) => disk[s].open = <<>>
<1>1. ASSUME NEW c \in Calls, Recorded(c, s) PROVE FALSE
  <2>1. pc[c] \in RunPhases /\ At(c) = s
    BY <1>1 DEF Recorded, Stage, RunPhases
  <2> QED BY <2>1 DEF RunExclusive
<1> QED BY <1>1 DEF OpenOnce

(* A write that does no damage was based on the record it replaces, and     *)
(* leaves no other fresh copy.                                              *)
LEMMA LandsHere ==
  ASSUME Base, NEW c \in Calls, Lands(c), NEW s \in Schedules, s = At(c), s \notin damaged'
  PROVE  /\ s \notin damaged /\ Fresh(c, s) /\ disk'[s] = copy[c][s] /\ copy[c][s] \in Record /\ up
         /\ \A d \in Calls \ {c} : copy[d][s] # None => <<d, s>> \in outdated'
         /\ \A d \in Calls, r \in Schedules \ {s} :
              copy[d][r] # None /\ <<d, r>> \in outdated => <<d, r>> \in outdated'
<1>1. fd[c] # "closed" /\ <<c, s>> \notin outdated /\ s \notin damaged
  BY DEF Lands
<1>2. fd[c] # "unlinked" /\ up
  BY <1>1 DEF Base, CallOK, WritePhases
<1>3. copy[c][s] # None /\ copy[c][s] \in Record
  BY <1>1, OpenerHolds
<1>4. disk'[s] = copy[c][s] /\ Ages(c, s)
  BY <1>2 DEF Lands, Base, TypeOK
<1> QED BY <1>1, <1>2, <1>3, <1>4 DEF Ages, Fresh

(* A write leaves the other schedules alone.                                *)
LEMMA LandsElsewhere ==
  ASSUME Base, NEW c \in Calls, Lands(c), NEW s \in Schedules, s # At(c)
  PROVE  /\ disk'[s] = disk[s] /\ (s \in damaged => s \in damaged')
         /\ \A d \in Calls : copy[d][s] # None /\ <<d, s>> \in outdated => <<d, s>> \in outdated'
BY DEF Lands, Ages, store, Base, TypeOK

-----------------------------------------------------------------------------
(* The timer.                                                              *)

LEMMA TickListsKeeps ==
  ASSUME Base, NEW t \in Ticks, TickLists(t), NEW s \in Schedules, Kept(s)
  PROVE  Kept(s)'
<1>1. /\ t \in Calls /\ pc[t] = "idle" /\ up'= up /\ pc' = [pc EXCEPT ![t] = "walking"]
      /\ copy' = [copy EXCEPT ![t] = disk] /\ outdated' = {d \in outdated : d[1] # t}
      /\ UNCHANGED <<disk, fired, twice, timed, held>>
      /\ \A d \in Calls \ {t} : At(d)' = At(d)
  BY AtSame DEF TickLists, store, Calls, Base, TypeOK
<1>2. /\ pc'[t] = "walking" /\ copy'[t] = disk
      /\ \A d \in Calls \ {t} : pc'[d] = pc[d] /\ copy'[d] = copy[d]
  BY <1>1 DEF Base, TypeOK
<1>3. ~Recorded(t, s) /\ ~Recorded(t, s)' /\ Stage(t, s)' = "other"
  BY <1>1, <1>2 DEF Recorded, Stage
<1>4. \A d \in Calls : Recorded(d, s)' <=> Recorded(d, s)
  BY <1>1, <1>2, <1>3 DEF Recorded, Stage
<1>5. \A d \in Calls \ {t} : NoFresher(d, s)
  BY <1>1, <1>2 DEF NoFresher, Fresh, Stage
<1>6. CASE disk[s] = None
  BY <1>1, <1>2, <1>5, <1>6 DEF Kept, Fresh
<1>7. CASE disk[s] # None
  <2>1. PICK r : r = disk[s]
    OBVIOUS
  <2>2. Sound(s, r) /\ NotCompleted(s)
    BY <1>7, <2>1 DEF Kept
  <2>3. Sound(s, r)'
    BY <1>1, <1>4, <2>2, SoundKeeps
  <2>4. StageSound(t, s)'
    BY <1>1, <1>2, <1>3 DEF StageSound
  <2>5. (\E d \in Ticks \ {t} : Recorded(d, s)) => r.status # "completed"
    BY <2>1, <2>2 DEF NotCompleted
  <2> QED BY <1>1, <1>2, <1>4, <1>5, <1>7, <2>1, <2>3, <2>4, <2>5, KeptCopy
<1> QED BY <1>6, <1>7

LEMMA TickSkipsKeeps ==
  ASSUME Base, NEW t \in Ticks, TickSkips(t), NEW s \in Schedules, Kept(s)
  PROVE  Kept(s)'
<1>1. /\ t \in Calls /\ pc[t] = "walking" /\ Leaves(t)
      /\ UNCHANGED <<up, disk, outdated, damaged, fired, twice, timed, held>>
  BY DEF TickSkips, store, history, Calls
<1>2. /\ pc'[t] \in {"idle", "walking"}
      /\ \A d \in Calls \ {t} : pc'[d] = pc[d] /\ todo'[d] = todo[d] /\ copy'[d] = copy[d]
      /\ copy'[t][s] # None => copy'[t][s] = copy[t][s]
  BY <1>1 DEF Leaves, Base, TypeOK
<1>3. Stage(t, s) = "other" /\ Stage(t, s)' = "other"
  BY <1>1, <1>2 DEF Stage
<1> QED BY <1>1, <1>2, <1>3, Elsewhere DEF Recorded

LEMMA TickCompletesKeeps ==
  ASSUME Base, RunExclusive, NEW t \in Ticks, TickCompletes(t), NEW s \in Schedules, Kept(s)
  PROVE  Kept(s)'
<1> DEFINE q == copy[t][At(t)]
<1>1. /\ t \in Calls /\ pc[t] = "walking" /\ pc' = [pc EXCEPT ![t] = "completing"]
      /\ At(t) \notin running /\ copy' = [copy EXCEPT ![t][At(t)] = Completed(q)]
      /\ UNCHANGED <<up, disk, todo, outdated, damaged, fired, twice, timed, held>>
  BY DEF TickCompletes, Candidate, store, history, Calls
<1>2. q \in Record /\ q # None /\ At(t) \in Schedules
  BY <1>1, WriterHolds
<1>3. /\ pc'[t] = "completing"
      /\ \A d \in Calls \ {t} : pc'[d] = pc[d] /\ todo'[d] = todo[d] /\ copy'[d] = copy[d]
      /\ copy'[t][s] = IF s = At(t) THEN Completed(q) ELSE copy[t][s]
  BY <1>1, <1>2 DEF Base, TypeOK
<1>4. Stage(t, s) = "other" /\ Stage(t, s)' = "other"
  BY <1>1, <1>3 DEF Stage
<1>5. CASE s # At(t)
  BY <1>1, <1>3, <1>4, <1>5, Elsewhere DEF Recorded
<1>6. CASE s = At(t) /\ ~Fresh(t, s)
  <2>1. ~Fresh(t, s)'
    BY <1>1, <1>2, <1>6 DEF Fresh
  <2>2. \A d \in Calls : Recorded(d, s)' <=> Recorded(d, s)
    BY <1>1, <1>3, <1>4, AtSame DEF Recorded, Stage
  <2>3. \A d \in Calls \ {t} : NoFresher(d, s)
    BY <1>1, <1>3, AtSame DEF NoFresher, Fresh, Stage
  <2>4. \A d \in Calls : NoFresher(d, s)
    BY <2>1, <2>3 DEF NoFresher
  <2> QED BY <1>1, <2>2, <2>4, KeptFrame
<1>7. CASE s = At(t) /\ Fresh(t, s)
  <2>1. PICK r : r = Completed(q)
    OBVIOUS
  <2>2. r.status = "completed" /\ r.next = None /\ r.open = q.open /\ r.ended = q.ended
    BY <1>2, <2>1, CompletedRecord
  <2>3. \A d \in Calls : ~Recorded(d, s)
    BY <1>1, <1>7, FreeIsBare
  <2>4. \A d \in Calls : Recorded(d, s)' <=> Recorded(d, s)
    BY <1>1, <1>3, <1>4, AtSame DEF Recorded, Stage
  <2>5. \A d \in Calls \ {t} : NoFresher(d, s)
    BY <1>1, <1>3, AtSame DEF NoFresher, Fresh, Stage
  <2>6. disk[s] # None /\ Sound(s, q) /\ q.open = disk[s].open
    BY <1>1, <1>4, <1>7 DEF Kept, StageSound
  <2>7. None \notin fired[s]
    BY ScheduleAssumption DEF Base, TypeOK
  <2>8. Sound(s, r)'
    BY <1>1, <2>2, <2>6, <2>7 DEF Sound
  <2>9. StageSound(t, s)' /\ copy'[t][s] = r
    BY <1>1, <1>3, <1>4, <1>7, <2>1, <2>2, <2>6 DEF StageSound
  <2>10. ~\E d \in Ticks \ {t} : Recorded(d, s)
    BY <2>3 DEF Calls
  <2> QED BY <1>1, <2>1, <2>4, <2>5, <2>6, <2>8, <2>9, <2>10, KeptCopy
<1> QED BY <1>5, <1>6, <1>7

LEMMA TickRunsKeeps ==
  ASSUME Base, RunExclusive, NEW t \in Ticks, TickRuns(t), NEW s \in Schedules, Kept(s)
  PROVE  Kept(s)'
<1> DEFINE q == copy[t][At(t)]
<1>1. /\ t \in Calls /\ pc[t] = "walking" /\ pc' = [pc EXCEPT ![t] = "recording"]
      /\ At(t) \notin running /\ copy' = [copy EXCEPT ![t][At(t)] = WithRun(q, t)]
      /\ ~Expired(q, since[t]) /\ q.status = "active" /\ q.next # None
      /\ UNCHANGED <<up, disk, todo, outdated, damaged, fired, twice, timed, held>>
  BY DEF TickRuns, Candidate, store, history, Calls
<1>2. q \in Record /\ q # None /\ At(t) \in Schedules /\ up
  BY <1>1, WriterHolds DEF Base, CallOK
<1>3. /\ pc'[t] = "recording" /\ At(t)' = At(t)
      /\ \A d \in Calls \ {t} : pc'[d] = pc[d] /\ todo'[d] = todo[d] /\ copy'[d] = copy[d]
      /\ copy'[t][s] = IF s = At(t) THEN WithRun(q, t) ELSE copy[t][s]
  BY <1>1, <1>2, AtSame DEF Base, TypeOK
<1>4. Stage(t, s) = "other" /\ Stage(t, s)' = IF s = At(t) THEN "recording" ELSE "other"
  BY <1>1, <1>3 DEF Stage
<1>5. CASE s # At(t)
  BY <1>1, <1>3, <1>4, <1>5, Elsewhere DEF Recorded
<1>6. \A d \in Calls : Recorded(d, s)' <=> Recorded(d, s)
  BY <1>1, <1>3, <1>4, AtSame DEF Recorded, Stage
<1>7. \A d \in Calls \ {t} : NoFresher(d, s)
  BY <1>1, <1>3, AtSame DEF NoFresher, Fresh, Stage
<1>8. CASE s = At(t) /\ ~Fresh(t, s)
  <2>1. ~Fresh(t, s)'
    BY <1>1, <1>2, <1>8 DEF Fresh
  <2>2. \A d \in Calls : NoFresher(d, s)
    BY <1>7, <2>1 DEF NoFresher
  <2> QED BY <1>1, <1>6, <2>2, KeptFrame
<1>9. CASE s = At(t) /\ Fresh(t, s)
  <2>1. PICK r : r = WithRun(q, t)
    OBVIOUS
  <2>2. disk[s] # None /\ Sound(s, q) /\ OpenOnce(s) /\ q.open = disk[s].open
    BY <1>1, <1>4, <1>9 DEF Kept, StageSound
  <2>3. (\A d \in Calls : ~Recorded(d, s)) /\ q.open = <<>>
    BY <1>1, <1>2, <1>9, <2>2, FreeIsBare
  <2>4. r.status = q.status /\ r.next = q.next /\ r.ended = q.ended /\ r.open = <<t>>
    BY <1>1, <1>2, <2>1, <2>3, WithRunRecord
  <2>5. q.next \notin fired[s]
    BY <1>2, <2>2, <2>3 DEF Sound, TickRecorded, Calls
  <2>6. timed[s] <= q.ended /\ q.ended < MaxRuns
    <3>1. timed[s] <= q.ended + Len(<<>>)
      BY <2>2, <2>3 DEF Sound
    <3>2. Len(<<>>) = 0 /\ q.ended \in 0..MaxRuns /\ timed[s] \in 0..(MaxRuns + 1) /\ ~(q.ended >= MaxRuns)
      BY <1>1, <1>2 DEF Expired, Record, Base, TypeOK
    <3> QED BY <3>1, <3>2, ScheduleAssumption
  <2>7. Sound(s, r)'
    <3>1. timed[s] <= q.ended + Len(<<t>>)
      <4>1. q.ended \in Nat /\ timed[s] \in Nat /\ Len(<<t>>) = 1
        BY <1>2, ScheduleAssumption DEF Record, Base, TypeOK
      <4> QED BY <2>6, <4>1
    <3> QED BY <1>1, <2>2, <2>4, <2>5, <3>1 DEF Sound
  <2>8. timed[s] < MaxRuns
    <3>1. q.ended \in 0..MaxRuns /\ timed[s] \in 0..(MaxRuns + 1)
      BY <1>2 DEF Record, Base, TypeOK
    <3> QED BY <2>6, <3>1, ScheduleAssumption
  <2>9. StageSound(t, s)' /\ copy'[t][s] = r
    BY <1>1, <1>3, <1>4, <1>9, <2>1, <2>4, <2>5, <2>6, <2>8 DEF StageSound
  <2>10. ~\E d \in Ticks \ {t} : Recorded(d, s)
    BY <2>3 DEF Calls
  <2> QED BY <1>1, <1>6, <1>7, <2>1, <2>2, <2>7, <2>9, <2>10, KeptCopy
<1> QED BY <1>5, <1>8, <1>9

LEMMA RunnerEndsKeeps ==
  ASSUME Base, NEW c \in Calls, RunnerEnds(c), NEW s \in Schedules, Kept(s)
  PROVE  Kept(s)'
<1>1. /\ pc[c] = "running" /\ pc' = [pc EXCEPT ![c] = "inspecting"]
      /\ copy' = [copy EXCEPT ![c][At(c)] = None]
      /\ UNCHANGED <<up, disk, todo, outdated, damaged, fired, twice, timed, held>>
  BY DEF RunnerEnds, store, history
<1>2. /\ pc'[c] = "inspecting" /\ At(c)' = At(c) /\ At(c) \in Schedules
      /\ \A d \in Calls \ {c} : pc'[d] = pc[d] /\ todo'[d] = todo[d] /\ copy'[d] = copy[d]
  BY <1>1, AtSame, AtThere DEF Base, TypeOK
<1>3. copy'[c][s] = IF s = At(c) THEN None ELSE copy[c][s]
  BY <1>1, <1>2 DEF Base, TypeOK
<1>4. s # At(c) => Stage(c, s)' = Stage(c, s)
  BY <1>2 DEF Stage
<1>5. Recorded(c, s)' <=> Recorded(c, s)
  BY <1>1, <1>2 DEF Recorded, Stage
<1> QED BY <1>1, <1>2, <1>3, <1>4, <1>5, Elsewhere

LEMMA FinishReadsKeeps ==
  ASSUME Base, RunExclusive, NEW c \in Calls, FinishReads(c), NEW s \in Schedules, Kept(s),
         s \notin damaged'
  PROVE  Kept(s)'
<1>1. /\ pc[c] = "inspecting" /\ up /\ At(c) \in Schedules
      /\ UNCHANGED <<up, disk, fd, fired, twice, timed, held>>
  BY AtThere DEF FinishReads, store, Base, CallOK
<1>2. CASE Found(At(c))
  <2> DEFINE q == disk[At(c)]
  <2>1. /\ pc' = [pc EXCEPT ![c] = "finishing"] /\ copy' = [copy EXCEPT ![c][At(c)] = Finished(q, c, now)]
        /\ outdated' = outdated \ {<<c, At(c)>>} /\ todo' = todo /\ damaged' = damaged
    BY <1>2 DEF FinishReads
  <2>2. /\ pc'[c] = "finishing" /\ At(c)' = At(c)
        /\ \A d \in Calls \ {c} : pc'[d] = pc[d] /\ todo'[d] = todo[d] /\ copy'[d] = copy[d]
        /\ copy'[c][s] = IF s = At(c) THEN Finished(q, c, now) ELSE copy[c][s]
    BY <1>1, <2>1, AtSame DEF Base, TypeOK
  <2>3. Recorded(c, s)' <=> Recorded(c, s)
    BY <1>1, <2>2 DEF Recorded, Stage
  <2>4. CASE s # At(c)
    <3>1. Stage(c, s)' = Stage(c, s)
      BY <2>2, <2>4 DEF Stage
    <3>2. \A d \in Calls : <<d, s>> \in outdated => <<d, s>> \in outdated'
      BY <2>1, <2>4
    <3> QED BY <1>1, <2>2, <2>3, <2>4, <3>1, <3>2, Elsewhere
  <2>5. CASE s = At(c)
    <3>1. PICK r : r = Finished(q, c, now)
      OBVIOUS
    <3>2. q \in Record /\ q # None /\ now \in Nat
      BY <1>1, <1>2, ScheduleAssumption DEF Found, Base, TypeOK
    <3>3. Sound(s, q) /\ OpenOnce(s) /\ disk[s] # None
      BY <2>5, <3>2 DEF Kept
    <3>4. \A d \in Calls : Recorded(d, s) => d = c
      BY <1>1, <2>5, OneRun DEF RunPhases
    <3>5. q.open = <<>> \/ q.open = <<c>>
      BY <1>1, <2>5, <3>3, <3>4 DEF OpenOnce
    <3> DEFINE k == CloseRun(q, c)
    <3>6. k \in Record /\ k.status = q.status /\ k.next = q.next /\ k.open = <<>>
          /\ (q.open = <<>> => k.ended = q.ended)
          /\ (q.open = <<c>> => k.ended = q.ended + 1 \/ k.ended = MaxRuns)
      BY <3>2, <3>5, CloseRunRecord
    <3>7. /\ r \in Record /\ r.open = <<>> /\ r.ended = k.ended
          /\ c \in Users => r = k
          /\ c \notin Users =>
              \/ r.status = "completed" /\ r.next = None
              \/ r.status = q.status /\ r.next = None /\ q.status = "paused"
              \/ r.status = q.status /\ r.next \in Nat /\ r.next > now /\ q.status # "paused"
      BY <3>1, <3>2, <3>6, FinishedRecord
    <3> HIDE DEF k
    <3>8. timed[s] <= r.ended + Len(r.open)
      <4>1. Len(r.open) = 0 /\ r.ended = k.ended /\ r.ended \in Nat
        BY <3>7, ScheduleAssumption DEF Record
      <4>2. timed[s] \in Nat /\ timed[s] <= MaxRuns /\ timed[s] <= q.ended + Len(q.open) /\ q.ended \in Nat
        BY <3>2, <3>3, ScheduleAssumption DEF Kept, Sound, Record, Base, TypeOK
      <4>3. CASE q.open = <<>>
        BY <3>6, <4>1, <4>2, <4>3
      <4>4. CASE q.open = <<c>>
        <5>1. Len(q.open) = 1
          BY <4>4
        <5> QED BY <3>6, <4>1, <4>2, <4>4, <5>1
      <4> QED BY <3>5, <4>3, <4>4
    <3>9. None \notin fired[s] /\ fired[s] \subseteq 0..now
      BY ScheduleAssumption DEF Base, TypeOK
    <3>10. TickRecorded(s) => c \notin Users
      BY <3>4, ScheduleAssumption DEF TickRecorded, Calls
    <3>11. r.next \notin fired[s]
      <4>1. CASE c \in Users
        BY <1>1, <3>3, <3>6, <3>7, <3>10, <4>1 DEF Sound
      <4>2. CASE c \notin Users
        <5>1. \A x \in fired[s] : x \in Nat /\ x <= now
          BY <3>2, <3>9
        <5> QED BY <3>2, <3>7, <3>9, <4>2, <5>1
      <4> QED BY <4>1, <4>2
    <3>12. r.status # "active" => r.next = None
      <4>1. CASE c \in Users
        BY <3>3, <3>6, <3>7, <4>1 DEF Sound
      <4>2. CASE c \notin Users
        <5>1. c \in Ticks /\ Recorded(c, s)
          BY <1>1, <2>5, <4>2 DEF Calls, Recorded, Stage
        <5>2. q.status # "completed"
          BY <2>5, <3>2, <5>1 DEF Kept, NotCompleted
        <5> QED BY <3>2, <3>7, <4>2, <5>2 DEF Record
      <4> QED BY <4>1, <4>2
    <3>13. s \in held => r.status # "active"
      BY <3>3, <3>6, <3>7 DEF Sound
    <3>14. Sound(s, r)'
      BY <1>1, <3>8, <3>11, <3>12, <3>13 DEF Sound
    <3>15. Stage(c, s)' = "finishing"
      BY <2>2, <2>5 DEF Stage
    <3>16. StageSound(c, s)' /\ copy'[c][s] = r
      BY <1>1, <2>2, <2>5, <3>1, <3>7, <3>11, <3>15 DEF StageSound
    <3>17. \A d \in Calls : Recorded(d, s)' <=> Recorded(d, s)
      BY <2>2, <2>3, AtSame DEF Recorded, Stage
    <3>18. \A d \in Calls \ {c} : NoFresher(d, s)
      BY <2>1, <2>2, AtSame DEF NoFresher, Fresh, Stage
    <3>19. ~\E t \in Ticks \ {c} : Recorded(t, s)
      BY <3>4 DEF Calls
    <3> QED BY <1>1, <3>1, <3>3, <3>14, <3>16, <3>17, <3>18, <3>19, KeptCopy
  <2> QED BY <2>4, <2>5
<1>3. CASE ~Found(At(c)) /\ c \notin retry
  <2>1. outdated' = outdated /\ todo' = todo /\ copy' = copy /\ pc' = pc
    BY <1>1, <1>3 DEF FinishReads, FinishFails, Base, TypeOK
  <2>2. At(c)' = At(c)
    BY <2>1, AtSame
  <2> QED BY <1>1, <2>1, <2>2, Elsewhere DEF Recorded, Stage
<1>4. CASE ~Found(At(c)) /\ c \in retry
  <2>1. outdated' = outdated /\ Throws(c) /\ s # At(c)
    BY <1>4 DEF FinishReads, FinishFails
  <2>2. /\ pc'[c] = "idle" /\ copy'[c][s] = None
        /\ \A d \in Calls \ {c} : pc'[d] = pc[d] /\ todo'[d] = todo[d] /\ copy'[d] = copy[d]
    BY <2>1 DEF Throws, Base, TypeOK
  <2>3. ~Recorded(c, s) /\ ~Recorded(c, s)'
    BY <2>1, <2>2 DEF Recorded, Stage
  <2> QED BY <1>1, <2>1, <2>2, <2>3, Elsewhere
<1> QED BY <1>2, <1>3, <1>4

-----------------------------------------------------------------------------
(* Writes.                                                                 *)

LEMMA LandsAlone ==
  ASSUME Base, NEW c \in Calls, pc[c] # "idle", Lands(c), Leaves(c), up' = up,
         NEW s \in Schedules, Kept(s), s = At(c), NEW r, r = copy[c][s],
         timed'[s] = timed[s], fired'[s] = fired[s], s \in twice' => s \in twice,
         Sound(s, r)', disk'[s] = r, OpenOnce(s)',
         \A t \in Ticks : Recorded(t, s)' => r.status # "completed",
         s \notin damaged'
  PROVE  Kept(s)'
<1>1. /\ copy'[c][s] = None
      /\ \A d \in Calls \ {c} : copy'[d] = copy[d]
  BY DEF Leaves, Base, TypeOK
<1>2. \A d \in Calls \ {c} : copy[d][s] # None => <<d, s>> \in outdated'
  BY LandsHere
<1>3. \A d \in Calls : ~Fresh(d, s)'
  BY <1>1, <1>2 DEF Fresh
<1>4. Sound(s, disk[s])' /\ NotCompleted(s)'
  BY <1>3 DEF Sound, NotCompleted
<1> QED BY <1>3, <1>4 DEF Kept

(* Of what a landing changes, nothing concerns another schedule.            *)
LEMMA LandsAway ==
  ASSUME Base, NEW c \in Calls, pc[c] # "idle", Lands(c), Leaves(c), up' = up,
         NEW s \in Schedules, Kept(s), s # At(c),
         timed'[s] = timed[s], fired'[s] = fired[s], s \in twice' => s \in twice,
         s \in held' => s \in held
  PROVE  Kept(s)'
<1>1. /\ pc'[c] \in {"idle", "walking"}
      /\ \A d \in Calls \ {c} : pc'[d] = pc[d] /\ todo'[d] = todo[d] /\ copy'[d] = copy[d]
      /\ copy'[c][s] # None => copy'[c][s] = copy[c][s]
  BY DEF Leaves, Base, TypeOK
<1>2. Stage(c, s) = "other" /\ Stage(c, s)' = "other"
  BY <1>1 DEF Stage
<1>3. /\ disk'[s] = disk[s]
      /\ \A d \in Calls : copy[d][s] # None /\ <<d, s>> \in outdated => <<d, s>> \in outdated'
  BY LandsElsewhere
<1>4. \A d \in Calls : copy'[d][s] # None /\ <<d, s>> \in outdated => <<d, s>> \in outdated'
  BY <1>1, <1>3
<1> QED BY <1>1, <1>2, <1>3, <1>4, Elsewhere DEF Recorded

(* A landing of a call that is not in a run.                                *)
LEMMA PlainLands ==
  ASSUME Base, NEW c \in Calls, pc[c] \in {"completing", "pausing", "editing"}, Lands(c),
         Leaves(c),
         UNCHANGED <<up, fired, twice, timed>>,
         NEW s \in Schedules, Kept(s), s \notin damaged', s = At(c),
         s \in held' => s \in held \/ pc[c] = "pausing"
  PROVE  Kept(s)'
<1>1. PICK r : r = copy[c][s]
  OBVIOUS
<1>2. Fresh(c, s) /\ disk'[s] = r /\ r \in Record /\ up
  BY <1>1, LandsHere
<1>3. disk[s] # None /\ OpenOnce(s) /\ NotCompleted(s) /\ Sound(s, r) /\ StageSound(c, s)
  BY <1>1, <1>2 DEF Kept
<1>4. /\ pc'[c] \in {"idle", "walking"}
      /\ \A d \in Calls \ {c} : pc'[d] = pc[d] /\ todo'[d] = todo[d]
  BY DEF Leaves, Base, TypeOK
<1>5. ~Recorded(c, s) /\ ~Recorded(c, s)'
  BY <1>4 DEF Recorded, Stage
<1>6. \A d \in Calls : Recorded(d, s)' <=> Recorded(d, s)
  BY <1>4, <1>5, AtSame DEF Recorded, Stage
<1>7. TickRecorded(s)' <=> TickRecorded(s)
  BY <1>6 DEF TickRecorded, Calls
<1>8. r.open = disk[s].open /\ (pc[c] = "pausing" => r.status = "paused")
  BY <1>1, <1>3 DEF StageSound, Stage
<1>9. Sound(s, r)'
  BY <1>3, <1>7, <1>8 DEF Sound
<1>10. OpenOnce(s)'
  BY <1>2, <1>3, <1>6, <1>8 DEF OpenOnce
<1>11. \A t \in Ticks : Recorded(t, s)' => r.status # "completed"
  BY <1>1, <1>2, <1>3, <1>5, <1>6 DEF NotCompleted, Calls
<1> QED BY <1>1, <1>2, <1>9, <1>10, <1>11, LandsAlone

LEMMA CompletionLandsKeeps ==
  ASSUME Base, NEW t \in Ticks, CompletionLands(t), NEW s \in Schedules, Kept(s),
         s \notin damaged'
  PROVE  Kept(s)'
<1>1. /\ t \in Calls /\ pc[t] = "completing" /\ Lands(t) /\ Leaves(t)
      /\ UNCHANGED <<up, fired, twice, timed, held>>
  BY DEF CompletionLands, Calls
<1>2. CASE s = At(t)
  BY <1>1, <1>2, PlainLands
<1>3. CASE s # At(t)
  BY <1>1, <1>3, LandsAway
<1> QED BY <1>2, <1>3

LEMMA EditLandsKeeps ==
  ASSUME Base, NEW u \in Users, EditLands(u), NEW s \in Schedules, Kept(s), s \notin damaged'
  PROVE  Kept(s)'
<1>1. /\ u \in Calls /\ pc[u] \in {"pausing", "editing"} /\ Lands(u) /\ Leaves(u)
      /\ UNCHANGED <<up, fired, twice, timed>>
      /\ s \in held' => s \in held \/ (pc[u] = "pausing" /\ s = At(u))
  BY DEF EditLands, Calls
<1>2. CASE s = At(u)
  BY <1>1, <1>2, PlainLands
<1>3. CASE s # At(u)
  BY <1>1, <1>3, LandsAway
<1> QED BY <1>2, <1>3

LEMMA FinishLandsKeeps ==
  ASSUME Base, RunExclusive, NEW c \in Calls, FinishLands(c), NEW s \in Schedules, Kept(s),
         s \notin damaged'
  PROVE  Kept(s)'
<1>1. /\ pc[c] = "finishing" /\ Lands(c) /\ Leaves(c)
      /\ UNCHANGED <<up, fired, twice, timed, held>>
  BY DEF FinishLands
<1>2. CASE s # At(c)
  BY <1>1, <1>2, LandsAway
<1>3. CASE s = At(c)
  <2>1. PICK r : r = copy[c][s]
    OBVIOUS
  <2>2. Fresh(c, s) /\ disk'[s] = r /\ r \in Record /\ up
    BY <1>1, <1>3, <2>1, LandsHere
  <2>3. disk[s] # None /\ Sound(s, r) /\ StageSound(c, s)
    BY <2>1, <2>2 DEF Kept
  <2>4. r.open = <<>> /\ (c \in Ticks => r.next \notin fired[s])
    BY <1>1, <1>3, <2>1, <2>3 DEF StageSound, Stage
  <2>5. \A d \in Calls : Recorded(d, s) => d = c
    BY <1>1, <1>3, OneRun DEF RunPhases
  <2>6. /\ pc'[c] \in {"idle", "walking"}
        /\ \A d \in Calls \ {c} : pc'[d] = pc[d] /\ todo'[d] = todo[d]
    BY <1>1 DEF Leaves, Base, TypeOK
  <2>7. \A d \in Calls : ~Recorded(d, s)'
    BY <2>5, <2>6, AtSame DEF Recorded, Stage
  <2>8. r.next \notin fired[s]
    <3>1. CASE c \in Users
      <4>1. ~TickRecorded(s)
        BY <2>5, <3>1, ScheduleAssumption DEF TickRecorded, Calls
      <4> QED BY <2>2, <2>3, <4>1 DEF Sound
    <3> QED BY <2>4, <3>1 DEF Calls
  <2>9. Sound(s, r)'
    BY <1>1, <2>3, <2>8 DEF Sound
  <2>10. OpenOnce(s)'
    BY <2>2, <2>4 DEF OpenOnce
  <2>11. \A t \in Ticks : Recorded(t, s)' => r.status # "completed"
    BY <2>7 DEF Calls
  <2> QED BY <1>1, <1>3, <2>1, <2>2, <2>9, <2>10, <2>11, LandsAlone
<1> QED BY <1>2, <1>3

LEMMA RunStartsKeeps ==
  ASSUME Base, RunExclusive, NEW c \in Calls, RunStarts(c), NEW s \in Schedules, Kept(s),
         s \notin damaged'
  PROVE  Kept(s)'
<1>1. /\ pc[c] = "recording" /\ Lands(c) /\ pc' = [pc EXCEPT ![c] = "running"]
      /\ UNCHANGED <<up, todo, copy, held>> /\ At(c) \in Schedules
  BY AtThere DEF RunStarts, Base
<1>2. /\ pc'[c] = "running" /\ \A d \in Calls \ {c} : pc'[d] = pc[d]
      /\ \A d \in Calls : At(d)' = At(d)
  BY <1>1, AtSame DEF Base, TypeOK
<1>3. CASE s # At(c)
  <2>1. fired'[s] = fired[s] /\ timed'[s] = timed[s] /\ (s \in twice' => s \in twice)
    BY <1>3 DEF RunStarts, Base, TypeOK
  <2>2. Stage(c, s) = "other" /\ Stage(c, s)' = "other"
    BY <1>1, <1>2, <1>3 DEF Stage
  <2>3. /\ disk'[s] = disk[s]
        /\ \A d \in Calls : copy[d][s] # None /\ <<d, s>> \in outdated => <<d, s>> \in outdated'
    BY <1>1, <1>3, LandsElsewhere
  <2> QED BY <1>1, <1>2, <2>1, <2>2, <2>3, Elsewhere DEF Recorded
<1>4. CASE s = At(c)
  <2>1. PICK r : r = copy[c][s]
    OBVIOUS
  <2>2. /\ Fresh(c, s) /\ disk'[s] = r /\ r \in Record /\ up
        /\ \A d \in Calls \ {c} : copy[d][s] # None => <<d, s>> \in outdated'
    BY <1>1, <1>4, <2>1, LandsHere
  <2>3. disk[s] # None /\ Sound(s, r) /\ StageSound(c, s)
    BY <2>1, <2>2 DEF Kept
  <2>4. r.open = <<c>> /\ (c \in Ticks => r.next \notin fired[s] /\ timed[s] < MaxRuns /\ timed[s] <= r.ended)
    BY <1>1, <1>4, <2>1, <2>3 DEF StageSound, Stage
  <2>5. \A d \in Calls : Recorded(d, s) => d = c
    BY <1>1, <1>4, OneRun DEF RunPhases
  <2>6. Stage(c, s)' = "running" /\ Recorded(c, s)' /\ ~Recorded(c, s)
    BY <1>1, <1>2, <1>4 DEF Recorded, Stage
  <2>7. \A d \in Calls : Recorded(d, s)' => d = c
    BY <1>2, <2>5 DEF Recorded, Stage
  <2>8. r.ended \in Nat /\ timed[s] \in Nat /\ MaxRuns \in Nat /\ Len(r.open) = 1 /\ timed[s] <= MaxRuns
    BY <2>2, <2>4, ScheduleAssumption DEF Kept, Record, Base, TypeOK
  <2>9. /\ s \notin twice' /\ timed'[s] <= MaxRuns /\ timed'[s] <= r.ended + Len(r.open)
        /\ r.next \in fired'[s] => TickRecorded(s)'
    <3>1. CASE c \in Users
      <4>1. UNCHANGED <<fired, twice, timed>>
        BY <3>1 DEF RunStarts
      <4>2. ~TickRecorded(s)
        BY <2>5, <2>6 DEF TickRecorded, Calls
      <4>3. r.next \notin fired[s] /\ timed[s] <= r.ended + Len(r.open)
        BY <2>2, <2>3, <4>2 DEF Sound
      <4> QED BY <2>8, <4>1, <4>3 DEF Kept
    <3>2. CASE c \notin Users
      <4>1. /\ twice' = twice \cup (IF r.next \in fired[s] THEN {s} ELSE {})
            /\ timed' = [timed EXCEPT ![s] = IF @ > MaxRuns THEN @ ELSE @ + 1]
        BY <1>4, <2>1, <3>2 DEF RunStarts
      <4>2. timed'[s] = timed[s] + 1
        BY <2>8, <4>1 DEF Base, TypeOK
      <4>3. c \in Ticks
        BY <3>2 DEF Calls
      <4>4. TickRecorded(s)'
        BY <2>6, <4>3 DEF TickRecorded
      <4>5. s \notin twice'
        BY <2>4, <4>1, <4>3 DEF Kept
      <4> QED BY <2>4, <2>8, <4>2, <4>3, <4>4, <4>5
    <3> QED BY <3>1, <3>2
  <2>10. Sound(s, r)'
    BY <1>1, <2>3, <2>9 DEF Sound
  <2>11. OpenOnce(s)'
    BY <2>2, <2>4, <2>6 DEF OpenOnce
  <2>12. \A d \in Calls \ {c} : ~Fresh(d, s)'
    BY <1>1, <2>2 DEF Fresh
  <2>13. NotCompleted(s)'
    <3>1. ASSUME c \in Ticks PROVE r.status # "completed"
      BY <1>1, <1>4, <2>1, <3>1 DEF Base, CallOK
    <3> QED BY <2>2, <2>7, <2>12, <3>1 DEF NotCompleted, Calls
  <2>14. StageSound(c, s)' /\ copy'[c][s] = r
    BY <1>1, <2>1, <2>2, <2>6 DEF StageSound
  <2>15. Sound(s, disk[s])' /\ Sound(s, copy[c][s])'
    BY <2>2, <2>10, <2>14 DEF Sound
  <2>16. \A d \in Calls : Fresh(d, s)' => Sound(s, copy[d][s])' /\ StageSound(d, s)'
    BY <2>12, <2>14, <2>15
  <2>17. disk'[s] # None
    BY <2>2, ScheduleAssumption
  <2> QED BY <2>9, <2>11, <2>13, <2>15, <2>16, <2>17 DEF Kept
<1> QED BY <1>3, <1>4

-----------------------------------------------------------------------------
(* Clients, time and failures.                                             *)

(* A client reads the record and holds r, what it is going to write.        *)
LEMMA ReadsKeeps ==
  ASSUME Base, NEW u \in Users, NEW i \in Schedules, NEW p, NEW r, Reads(u, i, p, r),
         p \in {"pausing", "editing", "recording"},
         NEW s \in Schedules, Kept(s),
         s \in held' => s \in held,
         s = i => /\ r.status # "active" => r.next = None
                  /\ s \in held' => r.status # "active"
                  /\ r.ended = disk[s].ended
                  /\ r.next = disk[s].next \/ r.next \notin fired[s]
                  /\ disk[s].status # "completed" => r.status # "completed"
                  /\ p = "pausing" => r.status = "paused"
                  /\ p # "recording" => r.open = disk[s].open
                  /\ p = "recording" => r.open = <<u>> /\ disk[s].open = <<>>
  PROVE  Kept(s)'
<1>1. /\ up /\ pc[u] = "idle" /\ pc' = [pc EXCEPT ![u] = p] /\ todo' = [todo EXCEPT ![u] = {i}]
      /\ copy' = [copy EXCEPT ![u][i] = r] /\ outdated' = outdated \ {<<u, i>>}
      /\ UNCHANGED <<up, disk, damaged, fired, twice, timed>> /\ disk[i] # None
  BY DEF Reads, store, Found
<1>2. u \in Calls /\ u \notin Ticks /\ \A j \in Schedules : copy[u][j] = None
  BY <1>1, ScheduleAssumption DEF Base, TypeOK, CallOK, Calls
<1>3. /\ pc'[u] = p /\ todo'[u] = {i}
      /\ \A d \in Calls \ {u} : pc'[d] = pc[d] /\ todo'[d] = todo[d] /\ copy'[d] = copy[d] /\ At(d)' = At(d)
      /\ copy'[u][s] = IF s = i THEN r ELSE None
  BY <1>1, <1>2, AtSame DEF Base, TypeOK
<1>4. At(u)' = i
  <2>1. At(u)' = CHOOSE x \in {i} : \A y \in {i} : x <= y
    BY <1>3 DEF At
  <2>2. i <= i
    BY ScheduleAssumption DEF Schedules
  <2> QED BY <2>1, <2>2
<1>5. /\ ~Recorded(u, s) /\ ~Recorded(u, s)'
      /\ s = i => Stage(u, s)' = IF p = "editing" THEN "other" ELSE p
  BY <1>1, <1>3, <1>4 DEF Recorded, Stage
<1>6. CASE s # i
  BY <1>1, <1>2, <1>3, <1>5, <1>6, Elsewhere
<1>7. CASE s = i
  <2>1. \A d \in Calls : Recorded(d, s)' <=> Recorded(d, s)
    BY <1>3, <1>5 DEF Recorded, Stage
  <2>2. \A d \in Calls \ {u} : NoFresher(d, s)
    BY <1>1, <1>3 DEF NoFresher, Fresh, Stage
  <2>3. TickRecorded(s)' <=> TickRecorded(s)
    BY <2>1 DEF TickRecorded, Calls
  <2>4. PICK k : k = disk[s]
    OBVIOUS
  <2>5. Sound(s, k) /\ k \in Record
    BY <1>1, <1>7, <2>4 DEF Kept, Base, TypeOK
  <2>6. timed[s] <= r.ended + Len(r.open)
    <3>1. timed[s] <= k.ended + Len(k.open)
      BY <2>5 DEF Sound
    <3>2. CASE p # "recording"
      BY <1>7, <2>4, <3>1, <3>2
    <3>3. CASE p = "recording"
      <4>1. Len(<<>>) = 0 /\ Len(<<u>>) = 1 /\ k.ended \in Nat /\ timed[s] \in Nat
        BY <2>5, ScheduleAssumption DEF Record, Base, TypeOK
      <4> QED BY <1>7, <2>4, <3>1, <3>3, <4>1
    <3> QED BY <3>2, <3>3
  <2>7. Sound(s, r)'
    BY <1>1, <1>7, <2>3, <2>4, <2>5, <2>6 DEF Sound
  <2>8. StageSound(u, s)'
    BY <1>1, <1>2, <1>3, <1>5, <1>7 DEF StageSound
  <2>9. (\E t \in Ticks \ {u} : Recorded(t, s)) => r.status # "completed"
    BY <1>1, <1>7 DEF Kept, NotCompleted
  <2> QED BY <1>1, <1>2, <1>3, <1>7, <2>1, <2>2, <2>7, <2>8, <2>9, KeptCopy
<1> QED BY <1>6, <1>7

LEMMA PauseKeeps ==
  ASSUME Base, NEW u \in Users, NEW i \in Schedules, Pause(u, i), NEW s \in Schedules, Kept(s)
  PROVE  Kept(s)'
<1>1. disk[i] \in Record /\ held' = held
  BY DEF Pause, Base, TypeOK
<1>2. PICK k \in Record : k = disk[i]
  BY <1>1
<1>3. PICK r : r = [k EXCEPT !.status = "paused", !.next = None]
  OBVIOUS
<1>4. r.status = "paused" /\ r.next = None /\ r.open = k.open /\ r.ended = k.ended
  BY <1>3 DEF Record
<1>5. Reads(u, i, "pausing", r)
  BY <1>2, <1>3 DEF Pause
<1>6. None \notin fired[s]
  BY ScheduleAssumption DEF Base, TypeOK
<1> QED BY <1>1, <1>2, <1>4, <1>5, <1>6, ReadsKeeps

LEMMA ComingUnfired ==
  ASSUME Base, NEW s \in Schedules
  PROVE  now + Period \notin fired[s] /\ now + Period \in Nat
<1>1. fired[s] \subseteq 0..now /\ now \in Nat /\ Period \in Nat /\ Period > 0
  BY ScheduleAssumption DEF Base, TypeOK
<1>2. \A x \in fired[s] : x <= now
  BY <1>1
<1>3. ~(now + Period <= now)
  BY <1>1
<1> QED BY <1>1, <1>2, <1>3

LEMMA ResumeKeeps ==
  ASSUME Base, NEW u \in Users, NEW i \in Schedules, Resume(u, i), NEW s \in Schedules, Kept(s)
  PROVE  Kept(s)'
<1>1. disk[i] \in Record /\ held' = held \ {i}
  BY DEF Resume, Base, TypeOK
<1>2. PICK k \in Record : k = disk[i]
  BY <1>1
<1>3. PICK n \in Nat : n = now + Period
  BY ComingUnfired
<1>4. PICK r : r = [k EXCEPT !.status = "active", !.next = n]
  OBVIOUS
<1>5. r.status = "active" /\ r.next = n /\ r.open = k.open /\ r.ended = k.ended
  BY <1>4 DEF Record
<1>6. Reads(u, i, "editing", r)
  BY <1>2, <1>3, <1>4 DEF Resume
<1>7. n \notin fired[s]
  BY <1>3, ComingUnfired
<1> QED BY <1>1, <1>2, <1>5, <1>6, <1>7, ReadsKeeps

LEMMA UpdateKeeps ==
  ASSUME Base, NEW u \in Users, NEW i \in Schedules, Update(u, i), NEW s \in Schedules, Kept(s)
  PROVE  Kept(s)'
<1>1. disk[i] \in Record /\ disk[i] # None /\ held' = held
  BY DEF Update, Base, TypeOK
<1>2. PICK k \in Record : k = disk[i]
  BY <1>1
<1>3. PICK n : n = IF k.status = "active" THEN now + Period ELSE None
  OBVIOUS
<1>4. n \in Nat \cup {None} /\ n \notin fired[s] /\ (k.status # "active" => n = None)
  <2>1. None \notin fired[s]
    BY ScheduleAssumption DEF Base, TypeOK
  <2> QED BY <1>3, <2>1, ComingUnfired
<1>5. PICK r : r = [k EXCEPT !.next = n]
  OBVIOUS
<1>6. r.status = k.status /\ r.next = n /\ r.open = k.open /\ r.ended = k.ended
  BY <1>4, <1>5, MovedRecord
<1>7. Reads(u, i, "editing", k) \/ Reads(u, i, "editing", r)
  BY <1>2, <1>3, <1>5 DEF Update
<1>8. s = i => Sound(s, k)
  BY <1>1, <1>2 DEF Kept
<1>9. CASE Reads(u, i, "editing", k)
  BY <1>1, <1>2, <1>8, <1>9, ReadsKeeps DEF Sound
<1>10. CASE Reads(u, i, "editing", r)
  BY <1>1, <1>2, <1>4, <1>6, <1>8, <1>10, ReadsKeeps DEF Sound
<1> QED BY <1>7, <1>9, <1>10

LEMMA RunOnceKeeps ==
  ASSUME Base, RunExclusive, NEW u \in Users, NEW i \in Schedules, RunOnce(u, i),
         NEW s \in Schedules, Kept(s)
  PROVE  Kept(s)'
<1>1. disk[i] \in Record /\ disk[i] # None /\ held' = held /\ i \notin running /\ up
  BY DEF RunOnce, Reads, Base, TypeOK
<1>2. PICK k \in Record : k = disk[i]
  BY <1>1
<1>3. PICK r : r = WithRun(k, u)
  OBVIOUS
<1>4. Reads(u, i, "recording", r)
  BY <1>2, <1>3 DEF RunOnce
<1>5. s = i => Sound(s, k) /\ OpenOnce(s)
  BY <1>1, <1>2 DEF Kept
<1>6. s = i => k.open = <<>>
  BY <1>1, <1>2, <1>5, FreeIsBare
<1>7. r.status = k.status /\ r.next = k.next /\ r.ended = k.ended /\ (s = i => r.open = <<u>>)
  BY <1>3, <1>6, WithRunRecord DEF Calls
<1> QED BY <1>1, <1>2, <1>4, <1>5, <1>6, <1>7, ReadsKeeps DEF Sound

LEMMA OpensKeeps ==
  ASSUME NEW c \in Calls, Opens(c), NEW s \in Schedules, Kept(s)
  PROVE  Kept(s)'
<1>1. UNCHANGED <<up, disk, pc, todo, copy, outdated, fired, twice, timed, held>>
  BY DEF Opens, store, history
<1> QED BY <1>1, Elsewhere, AtSame DEF Recorded, Stage

LEMMA PutFailsKeeps ==
  ASSUME Base, NEW c \in Calls, PutFails(c), NEW s \in Schedules, Kept(s), s \notin damaged'
  PROVE  Kept(s)'
<1>1. /\ UNCHANGED <<up, disk, outdated, fired, twice, timed, held>> /\ s # At(c)
      /\ Throws(c) \/ (pc' = [pc EXCEPT ![c] = "inspecting"] /\ UNCHANGED <<todo, copy>>)
  BY DEF PutFails, FinishFails
<1>2. CASE Throws(c)
  <2>1. /\ pc'[c] = "idle" /\ copy'[c][s] = None
        /\ \A d \in Calls \ {c} : pc'[d] = pc[d] /\ todo'[d] = todo[d] /\ copy'[d] = copy[d]
    BY <1>2 DEF Throws, Base, TypeOK
  <2>2. ~Recorded(c, s) /\ ~Recorded(c, s)'
    BY <1>1, <2>1 DEF Recorded, Stage
  <2> QED BY <1>1, <2>1, <2>2, Elsewhere
<1>3. CASE pc' = [pc EXCEPT ![c] = "inspecting"] /\ UNCHANGED <<todo, copy>>
  <2>1. Stage(c, s)' = "other" /\ Stage(c, s) = "other"
    BY <1>1, <1>3, AtSame DEF Stage
  <2>2. \A d \in Calls \ {c} : pc'[d] = pc[d]
    BY <1>3 DEF Base, TypeOK
  <2> QED BY <1>1, <1>3, <2>1, <2>2, Elsewhere DEF Recorded
<1> QED BY <1>1, <1>2, <1>3

LEMMA DeleteKeeps ==
  ASSUME Base, NEW i \in Schedules, Delete(i), NEW s \in Schedules, Kept(s)
  PROVE  Kept(s)'
<1>1. /\ disk' = [disk EXCEPT ![i] = None] /\ held' = held \ {i}
      /\ outdated' = outdated \cup {<<c, i>> : c \in {d \in Calls : copy[d][i] # None}}
      /\ UNCHANGED <<up, pc, todo, copy, fired, twice, timed>>
  BY DEF Delete
<1>2. CASE s = i
  BY <1>1, <1>2 DEF Kept, Fresh, Base, TypeOK
<1>3. CASE s # i
  <2>1. disk'[s] = disk[s]
    BY <1>1, <1>3 DEF Base, TypeOK
  <2> QED BY <1>1, <2>1, KeptFrame, AtSame DEF NoFresher, Recorded, Stage, Fresh
<1> QED BY <1>2, <1>3

LEMMA ClockKeeps ==
  ASSUME Clock, NEW s \in Schedules, Kept(s)
  PROVE  Kept(s)'
<1>1. UNCHANGED <<up, disk, pc, todo, copy, outdated, fired, twice, timed, held>>
  BY DEF Clock, store, calls, history
<1> QED BY <1>1, KeptFrame, AtSame DEF NoFresher, Recorded, Stage, Fresh

LEMMA CrashKeeps ==
  ASSUME Crash, NEW s \in Schedules, Kept(s)
  PROVE  Kept(s)'
<1>1. /\ ~up' /\ UNCHANGED <<disk, fired, twice, timed, held>>
      /\ \A c \in Calls : pc'[c] = "idle" /\ copy'[c][s] = None
  BY DEF Crash
<1>2. \A c \in Calls : ~Fresh(c, s)' /\ ~Recorded(c, s)'
  BY <1>1 DEF Fresh, Recorded, Stage
<1>3. CASE disk[s] = None
  BY <1>1, <1>2, <1>3 DEF Kept
<1>4. CASE disk[s] # None
  <2>1. Sound(s, disk[s])' /\ OpenOnce(s)' /\ NotCompleted(s)'
    BY <1>1, <1>2, <1>4 DEF Kept, Sound, OpenOnce, NotCompleted, Calls
  <2> QED BY <1>1, <1>2, <1>4, <2>1 DEF Kept
<1> QED BY <1>3, <1>4

LEMMA StartKeeps ==
  ASSUME Base, Start, NEW s \in Schedules, Kept(s)
  PROVE  Kept(s)'
<1>1. /\ ~up /\ UNCHANGED <<pc, todo, copy, outdated, fired, twice, timed, held>> /\ now \in Nat
      /\ disk'[s] = IF disk[s] = None THEN None ELSE Recovered(disk[s], now)
  BY ScheduleAssumption DEF Start, calls, history, Base, TypeOK
<1>2. \A c \in Calls : pc[c] = "idle" /\ copy[c][s] = None
  BY <1>1 DEF Base, TypeOK, CallOK
<1>3. \A c \in Calls : ~Fresh(c, s)' /\ ~Recorded(c, s)'
  BY <1>1, <1>2 DEF Fresh, Recorded, Stage
<1>4. CASE disk[s] = None
  BY <1>1, <1>3, <1>4 DEF Kept
<1>5. CASE disk[s] # None
  <2>1. PICK k \in Record : k = disk[s]
    BY <1>5 DEF Base, TypeOK
  <2>2. PICK r : r = Recovered(k, now)
    OBVIOUS
  <2>3. disk'[s] = r
    BY <1>1, <1>5, <2>1, <2>2
  <2>4. Sound(s, k) /\ OpenOnce(s) /\ s \notin twice /\ timed[s] <= MaxRuns
    BY <1>5, <2>1 DEF Kept
  <2>5. /\ r \in Record /\ r.status = k.status
        /\ k.status = "active" /\ k.next # None => r.next > now
        /\ k.status # "active" \/ k.next = None => r.next = k.next
        /\ k.open = <<>> => r.open = <<>> /\ r.ended = k.ended
        /\ \A c : k.open = <<c>> => r.open = <<>> /\ (r.ended = k.ended + 1 \/ r.ended = MaxRuns)
    BY <1>1, <2>2, RecoveredRecord
  <2>6. k.open = <<>> \/ \E c \in Calls : k.open = <<c>>
    BY <2>1, <2>4 DEF OpenOnce
  <2>7. r.open = <<>>
    BY <2>5, <2>6
  <2>8. timed[s] <= r.ended + Len(r.open)
    <3>1. /\ timed[s] \in Nat /\ k.ended \in Nat /\ r.ended \in Nat /\ MaxRuns \in Nat /\ Len(r.open) = 0
          /\ timed[s] <= k.ended + Len(k.open)
      BY <2>4, <2>5, <2>7, ScheduleAssumption DEF Sound, Record, Base, TypeOK
    <3>2. CASE k.open = <<>>
      BY <2>5, <3>1, <3>2
    <3>3. ASSUME NEW c \in Calls, k.open = <<c>> PROVE timed[s] <= r.ended + Len(r.open)
      <4>1. Len(k.open) = 1
        BY <3>3
      <4> QED BY <2>4, <2>5, <3>1, <3>3, <4>1
    <3> QED BY <2>6, <3>2, <3>3
  <2>9. r.next \notin fired[s]
    <3>1. fired[s] \subseteq 0..now /\ None \notin fired[s]
      BY ScheduleAssumption DEF Base, TypeOK
    <3>2. \A x \in fired[s] : ~(x > now)
      BY <1>1, <3>1
    <3> QED BY <2>4, <2>5, <3>1, <3>2 DEF Sound
  <2>10. Sound(s, r)'
    BY <1>1, <2>4, <2>5, <2>8, <2>9 DEF Sound
  <2>11. Sound(s, disk[s])' /\ OpenOnce(s)' /\ NotCompleted(s)'
    BY <1>3, <2>3, <2>7, <2>10 DEF Sound, OpenOnce, NotCompleted, Calls
  <2> QED BY <1>1, <1>3, <2>4, <2>11 DEF Kept
<1> QED BY <1>4, <1>5

-----------------------------------------------------------------------------
(* Results.                                                                *)

(* All steps.                                                               *)
LEMMA KeptStep ==
  ASSUME Base, RunExclusive, [Next]_vars, NEW s \in Schedules, Kept(s), s \notin damaged'
  PROVE  Kept(s)'
<1>1. CASE UNCHANGED vars
  <2>1. UNCHANGED <<up, disk, pc, todo, copy, outdated, fired, twice, timed, held>>
    BY <1>1 DEF vars, store, calls, history
  <2> QED BY <2>1, KeptFrame, AtSame DEF NoFresher, Recorded, Stage, Fresh
<1>2. CASE Next
  BY <1>2, TickListsKeeps, TickSkipsKeeps, TickCompletesKeeps, TickRunsKeeps,
     CompletionLandsKeeps,
     OpensKeeps, RunStartsKeeps, RunnerEndsKeeps, FinishReadsKeeps, FinishLandsKeeps, EditLandsKeeps,
     PauseKeeps, ResumeKeeps, UpdateKeeps, RunOnceKeeps, PutFailsKeeps, DeleteKeeps, ClockKeeps,
     CrashKeeps, StartKeeps DEF Next, TickSteps, UserSteps, Steps, Calls
<1> QED BY <1>1, <1>2

(* A write that was lost stays lost.                                        *)
LEMMA DamageStays ==
  ASSUME [Next]_vars
  PROVE  damaged \subseteq damaged'
<1>1. \A c : Lands(c) => damaged \subseteq damaged'
  BY DEF Lands
<1>2. \A u, s, p, r : Reads(u, s, p, r) => damaged \subseteq damaged'
  BY DEF Reads
<1>3. \A c : FinishReads(c) => damaged \subseteq damaged'
  BY DEF FinishReads
<1> QED BY <1>1, <1>2, <1>3 DEF Next, TickSteps, UserSteps, Steps, vars, history, TickLists,
     TickSkips,
     TickCompletes, TickRuns, CompletionLands, Opens, RunStarts, RunnerEnds, FinishLands,
     EditLands, Pause, Resume, Update, RunOnce, PutFails, Delete, Clock, Crash, Start

(* Exact is inductive, given Base and RunExclusive.                         *)
LEMMA ExactStep ==
  ASSUME Base, RunExclusive, Exact, [Next]_vars
  PROVE  Exact'
BY KeptStep, DamageStays DEF Exact

LEMMA InitExact == Init => Exact /\ BootInv /\ RunExclusive
<1> SUFFICES ASSUME Init PROVE Exact /\ BootInv /\ RunExclusive
  OBVIOUS
<1>1. RunExclusive
  BY DEF Init, RunExclusive, RunPhases
<1>2. ASSUME NEW s \in Schedules
      PROVE  /\ disk[s].next \in {0, Period, None} /\ disk[s].open = <<>>
             /\ disk[s].status = "active" \/ (disk[s].status = "paused" /\ disk[s].next = None)
  <2>1. \/ \E n \in {0, Period} : disk[s] = Created(n)
        \/ disk[s] = [Created(None) EXCEPT !.status = "paused"]
    BY DEF Init
  <2> QED BY <2>1 DEF Created
<1>3. BootInv
  BY <1>2, ScheduleAssumption DEF Init, BootInv, Late
<1>4. \A c \in Calls, s \in Schedules : copy[c][s] = None /\ ~Recorded(c, s)
  BY DEF Init, Recorded, Stage
<1>5. ASSUME NEW s \in Schedules
      PROVE  Kept(s)
  <2>1. Base /\ s \notin twice /\ timed[s] = 0 /\ fired[s] = {} /\ (s \in held => disk[s].status # "active")
    BY InitBase DEF Init
  <2>2. disk[s] # None => disk[s].ended + Len(disk[s].open) \in Nat
    BY <2>1, ScheduleAssumption DEF Base, TypeOK, Record
  <2>3. disk[s] # None => Sound(s, disk[s])
    BY <1>2, <2>1, <2>2 DEF Sound
  <2>4. OpenOnce(s) /\ NotCompleted(s) /\ \A c \in Calls : ~Fresh(c, s)
    BY <1>2, <1>4 DEF OpenOnce, NotCompleted, Fresh, Calls
  <2> QED BY <2>1, <2>3, <2>4, ScheduleAssumption DEF Kept
<1> QED BY <1>1, <1>3, <1>5 DEF Exact

(* The inductive invariant.                                                 *)
IInv == Base /\ RunExclusive /\ BootInv /\ Exact

(* The inductive invariant holds in every state.                            *)
THEOREM Inductive == Spec => []IInv
<1>1. Init => IInv
  BY InitBase, InitExact DEF IInv
<1>2. IInv /\ [Next]_vars => IInv'
  BY BaseStep, RunStep, BootStep, ExactStep DEF IInv
<1> QED BY <1>1, <1>2, PTL DEF Spec

(* The types of the variables: the records on disk and in copies are        *)
(* records, whatever tick, client call, crash or failed write wrote them.   *)
THEOREM TypeCorrect == Spec => []TypeOK
<1>1. IInv => TypeOK
  BY DEF IInv, Base
<1> QED BY <1>1, Inductive, PTL

(* Two runs of one schedule never overlap, by the timer or by hand, and a   *)
(* schedule is in runningScheduleIds while it runs.                         *)
THEOREM RunsExclusive == Spec => []RunExclusive
<1>1. IInv => RunExclusive
  BY DEF IInv
<1> QED BY <1>1, Inductive, PTL

(* While no write of its record is lost, a schedule is run once for a time  *)
(* it is due, at most maxRuns times by the timer, and never for a time      *)
(* before the daemon was started.                                           *)
THEOREM TimersExact == Spec => []TimerExact
<1>1. IInv => TimerExact
  <2> SUFFICES ASSUME IInv PROVE TimerExact
    OBVIOUS
  <2>1. SlotFiresOnce
    BY DEF IInv, Exact, Kept, SlotFiresOnce
  <2>2. RunsWithinMax
    <3>1. \A s \in Schedules : timed[s] \in Nat /\ MaxRuns \in Nat
      BY ScheduleAssumption DEF IInv, Base, TypeOK
    <3> QED BY <3>1 DEF IInv, Exact, Kept, RunsWithinMax
  <2>3. NoCatchUp
    <3> SUFFICES ASSUME NEW t \in Ticks, pc[t] \in {"recording", "running"}
                 PROVE  copy[t][At(t)].next >= boot
      BY DEF NoCatchUp
    <3>1. t \in Calls /\ At(t) \in Schedules
      BY AtThere DEF IInv, Base, Calls
    <3>2. /\ copy[t][At(t)] # None /\ copy[t][At(t)].status = "active"
          /\ copy[t][At(t)].next \in 0..now
      BY <3>1 DEF IInv, Base, CallOK
    <3>3. copy[t][At(t)].next # None
      BY <3>2, ScheduleAssumption
    <3>4. Late(copy[t][At(t)])
      BY <3>1 DEF IInv, BootInv
    <3> QED BY <3>2, <3>3, <3>4 DEF Late
  <2> QED BY <2>1, <2>2, <2>3 DEF TimerExact
<1> QED BY <1>1, Inductive, PTL

(* A record whose writes all came through says "running" only of runs under *)
(* way, also after a crash in the middle of a run.                          *)
THEOREM NoZombieRuns == Spec => []NoZombieRun
<1>1. IInv => NoZombieRun
  <2> SUFFICES ASSUME IInv, up, NEW s \in Schedules \ damaged, disk[s] # None,
                      NEW i \in DOMAIN disk[s].open, NEW c, c = disk[s].open[i]
               PROVE  pc[c] \in RunPhases /\ At(c) = s
    BY DEF NoZombieRun
  <2>1. OpenOnce(s)
    BY DEF IInv, Exact, Kept
  <2>2. PICK d \in Calls : disk[s].open = <<d>> /\ Recorded(d, s)
    BY <2>1 DEF OpenOnce
  <2>3. c = d
    BY <2>2
  <2> QED BY <2>2, <2>3 DEF Recorded, Stage, RunPhases
<1> QED BY <1>1, Inductive, PTL

(* A schedule that was paused stays so until it is resumed, through the end *)
(* of a run that was under way and every other write that read the record   *)
(* after the pause.  A write from a copy read before it does undo the pause *)
(* in the code (service.ts:436); it marks the schedule damaged, and damaged *)
(* schedules are excepted.                                                  *)
THEOREM PausesKept == Spec => []PauseKept
<1>1. IInv => PauseKept
  <2> SUFFICES ASSUME IInv, NEW s \in held \ damaged, disk[s] # None
               PROVE  disk[s].status # "active" /\ disk[s].next = None
    BY DEF PauseKept
  <2>1. s \in Schedules
    BY DEF IInv, Base, TypeOK
  <2>2. Sound(s, disk[s])
    BY <2>1 DEF IInv, Exact, Kept
  <2> QED BY <2>2 DEF Sound
<1> QED BY <1>1, Inductive, PTL
=============================================================================
