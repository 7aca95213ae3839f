------------------------- MODULE TimelineSyncProofs --------------------------
(***************************************************************************)
(* Proofs about TimelineSync, for any number of logs, of rows, of faults   *)
(* and of messages under way, and for any size of a page.                  *)
(***************************************************************************)
EXTENDS TimelineSync, NaturalsInduction, WellFoundedInduction, SequenceTheorems, TLAPS

-----------------------------------------------------------------------------
(***************************************************************************)
(* What a message tells.  A row tells of itself, an answer of its last row, *)
(* or, if it has none, of the place after which there is none; it is whole  *)
(* if nothing came after that when it was sent.                            *)
(***************************************************************************)
IsAnswer(m) == m.type = "answer"
Dated(m) == m.type \in {"row", "answer"}
Told(m) ==
  IF m.type = "row" THEN m.seq
  ELSE IF m.rows # <<>> THEN m.rows[Len(m.rows)]
  ELSE IF m.reset \/ m.request.dir = "tail" THEN 0 ELSE m.request.cursor.seq
News(m) == m.type = "row" \/ (IsAnswer(m) /\ (m.reset \/ m.request.dir # "before"))
Whole(m) == News(m) /\ (m.type = "row" \/ ~m.hasNewer)
Syncs(m) == IsAnswer(m) /\ m.request.dir # "before"

(* The requests that the daemon has to read, and those it has answered.     *)
Queued == {toDaemon[i] : i \in 1..Len(toDaemon)}
Replies(m) == m.type \in {"answer", "error"}
Answered == {toClient[i].request : i \in {j \in 1..Len(toClient) : IsAnswer(toClient[j])}}
Replied == {toClient[i].request : i \in {j \in 1..Len(toClient) : Replies(toClient[j])}}

(* Positions of requests and of what is shown, as far as the log has come.  *)
Within(e, s, f, t) == e <= f /\ (e = f => s <= t)

AskShape(r) == r.dir # "tail" => r.cursor # None
AnswerShape(m) ==
  /\ AskShape(m.request)
  /\ \A i \in 1..Len(m.rows) : m.rows[i] = m.rows[1] + i - 1
  /\ m.request.cursor # None =>
       m.request.cursor.epoch <= m.epoch /\ (m.reset <=> m.request.cursor.epoch < m.epoch)
  /\ m.request.cursor = None => ~m.reset
  /\ m.request.dir = "after" /\ ~m.reset /\ m.rows # <<>> =>
       m.rows[1] = m.request.cursor.seq + 1
  /\ News(m) /\ m.hasNewer => m.request.dir = "after" /\ ~m.reset /\ m.rows # <<>>

Shape ==
  /\ \A r \in Queued : AskShape(r)
  /\ \A i \in 1..Len(toClient) : IsAnswer(toClient[i]) => AnswerShape(toClient[i])

(* Nothing is told of what the log does not have.                          *)
Past ==
  /\ \A r \in Queued : r.cursor # None => Within(r.cursor.epoch, r.cursor.seq, epoch, last)
  /\ \A i \in 1..Len(toClient) : Dated(toClient[i]) =>
       /\ toClient[i].epoch <= epoch
       /\ toClient[i].epoch = epoch /\ News(toClient[i]) => Told(toClient[i]) <= last
  /\ cursor # None => Within(cursor.epoch, cursor.end, epoch, last)

(* Messages tell of ever later rows, later than those shown.               *)
Beyond(e, s, m) ==
  /\ e <= m.epoch
  /\ e = m.epoch /\ Whole(m) => s <= Told(m)
  /\ e = m.epoch /\ m.type = "row" => s < Told(m)
Ordered ==
  /\ \A i, j \in 1..Len(toClient) : i < j /\ Dated(toClient[i]) /\ Dated(toClient[j]) =>
       /\ toClient[i].epoch <= toClient[j].epoch
       /\ News(toClient[i]) => Beyond(toClient[i].epoch, Told(toClient[i]), toClient[j])
  /\ \A i \in 1..Len(toClient) : cursor # None /\ Dated(toClient[i]) =>
       Beyond(cursor.epoch, cursor.end, toClient[i])

(* No request asks for more than what follows the rows shown; none that was *)
(* sent before the view was cleared finds its log again.                   *)
Known ==
  \A r \in Queued \cup Answered : r.cursor # None =>
    IF cursor = None
    THEN /\ r.cursor.epoch < epoch
         /\ \A i \in 1..Len(toClient) : Dated(toClient[i]) => r.cursor.epoch < toClient[i].epoch
    ELSE /\ r.cursor.epoch <= cursor.epoch
         /\ r.cursor.epoch = cursor.epoch /\ r.dir # "before" => r.cursor.seq <= cursor.end

(* What is kept behind the rows is of rows that the cursor claims, or of a   *)
(* log that no message tells of any more.                                  *)
KeptBehind ==
  kept # None =>
    IF cursor = None
    THEN /\ kept.epoch < epoch
         /\ \A i \in 1..Len(toClient) : Dated(toClient[i]) => kept.epoch < toClient[i].epoch
    ELSE Within(kept.epoch, kept.seq, cursor.epoch, cursor.end)

(* A request that counts as under way is.                                  *)
Tracked == {r \in Queued \cup Replied : r.tracked}
InFlightReal == inFlight \subseteq {Key(r) : r \in Tracked}

Offline == ~online => /\ toDaemon = <<>> /\ toClient = <<>> /\ ~opened
                      /\ ~Syncing /\ inFlight = {}

(* A failure is made good by a later answer, or remembered.                 *)
Excused ==
  ~missed => \A i \in 1..Len(toClient) : toClient[i].type = "error" =>
               \E j \in i + 1..Len(toClient) : Syncs(toClient[j])

(* From the last answer that synchronises on, or from the view if none is   *)
(* under way, the rows lead to the daemon's tail.                          *)
At(i, e, s) == IF i = 0 THEN cursor # None /\ cursor.epoch = e /\ s <= cursor.end
               ELSE toClient[i].epoch = e /\ s <= Told(toClient[i])
Tells(m, e, s) == m.type = "row" /\ m.epoch = e /\ m.seq = s
Lead(i) ==
  /\ \A j \in i + 1..Len(toClient) : toClient[j].type = "row" /\ toClient[j].seq > 1 =>
       \/ At(i, toClient[j].epoch, toClient[j].seq - 1)
       \/ \E k \in i + 1..j - 1 : Tells(toClient[k], toClient[j].epoch, toClient[j].seq - 1)
  /\ last > 0 => \/ At(i, epoch, last)
                 \/ \E k \in i + 1..Len(toClient) : Tells(toClient[k], epoch, last)
  /\ last = 0 =>
       /\ IF i = 0 THEN cursor = None ELSE toClient[i].epoch = epoch /\ Told(toClient[i]) = 0
       /\ \A j \in i + 1..Len(toClient) :
               toClient[j].type # "row" /\ (IsAnswer(toClient[j]) => toClient[j].rows = <<>>)
LastSync(i) ==
  /\ i \in 0..Len(toClient) /\ (i # 0 => Syncs(toClient[i]))
  /\ \A j \in i + 1..Len(toClient) : ~Syncs(toClient[j])
Asked == \E r \in Queued : r.dir # "before"
Leads ==
  online /\ opened /\ ~missed /\ ~Asked =>
    \A i \in 0..Len(toClient) : LastSync(i) => (i # 0 /\ toClient[i].hasNewer) \/ Lead(i)

IInv == /\ TypeOK /\ Ascending /\ Shape /\ Past /\ Ordered /\ Known /\ KeptBehind /\ InFlightReal
        /\ InitIsAnswered /\ Offline /\ Excused /\ Leads

-----------------------------------------------------------------------------
(* What the daemon answers.                                                *)

(* The constants, and that None is no position and no range.                *)
LEMMA Constants ==
  /\ Page \in Nat \ {0} /\ DefaultLimit \in Nat \ {0} /\ Epochs \in Nat \ {0} /\ Flight \in Nat \ {0}
  /\ Rows \in Nat /\ Faults \in Nat
  /\ \A p \in Positions : p # None
  /\ \A c \in Ranges : c # None
<1>1. Positions \subseteq [epoch : Nat, seq : Nat]
  BY TimelineAssumption DEF Positions, Seqs
<1>2. Ranges \subseteq [epoch : Nat, start : Nat, end : Nat]
  BY TimelineAssumption DEF Ranges, Seqs
<1> QED
  BY <1>1, <1>2, TimelineAssumption

(* What a position is made of.                                              *)
LEMMA PositionTyped ==
  ASSUME NEW p \in Positions
  PROVE  /\ p.epoch \in 1..Epochs /\ p.seq \in Seqs /\ p # None
         /\ p.epoch \in Nat /\ p.seq \in Nat /\ p.seq > 0
BY Constants DEF Positions, Seqs

(* What a cursor's range is made of.                                        *)
LEMMA RangeTyped ==
  ASSUME NEW c \in Ranges
  PROVE  /\ c.epoch \in 1..Epochs /\ c.start \in Seqs /\ c.end \in Seqs /\ c # None
         /\ c.epoch \in Nat /\ c.start \in Nat /\ c.end \in Nat /\ c.start > 0 /\ c.end > 0
BY Constants DEF Ranges, Seqs

(* The rows from one sequence number to another.                            *)
LEMMA IntervalIs ==
  ASSUME NEW from \in Nat \ {0}, NEW to \in 0..Rows
  PROVE  /\ Interval(from, to) \in Seq(Seqs)
         /\ Len(Interval(from, to)) = IF to < from THEN 0 ELSE to - from + 1
         /\ \A i \in 1..Len(Interval(from, to)) : Interval(from, to)[i] = from + i - 1
         /\ Interval(from, to) = <<>> <=> to < from
<1> DEFINE n == IF to < from THEN 0 ELSE to - from + 1
<1>1. n \in Nat
  BY Constants
<1>2. \A i \in 1..n : from + i - 1 \in Seqs
  BY <1>1, Constants DEF Seqs
<1>3. Interval(from, to) = [i \in 1..n |-> from + i - 1]
  BY DEF Interval
<1>4. Interval(from, to) \in Seq(Seqs) /\ Len(Interval(from, to)) = n
  <2> HIDE DEF n
  <2>1. [i \in 1..n |-> from + i - 1] \in [1..n -> Seqs]
    BY <1>2
  <2>2. Interval(from, to) \in Seq(Seqs)
    <3>1. [1..n -> Seqs] \in {[1..k -> Seqs] : k \in Nat}
      BY <1>1
    <3> QED
      BY <1>3, <2>1, <3>1, SeqDef
  <2>3. /\ Len(Interval(from, to)) \in Nat
        /\ DOMAIN Interval(from, to) = 1..Len(Interval(from, to))
    BY <2>2, LenProperties
  <2> QED
    BY <1>1, <1>3, <2>2, <2>3
<1> QED
  BY <1>1, <1>3, <1>4, EmptySeq

(* Rows up to the log's last are rows of the log, one after another.        *)
LEMMA RowsAre ==
  ASSUME TypeOK, NEW from \in Nat \ {0}, NEW to \in 0..last, NEW rows, rows = Interval(from, to)
  PROVE  /\ rows \in Seq(Seqs)
         /\ \A i \in 1..Len(rows) : rows[i] = rows[1] + i - 1
         /\ rows = <<>> <=> to < from
         /\ rows # <<>> => rows[1] = from /\ rows[Len(rows)] = to
<1>1. to \in 0..Rows
  BY Constants DEF TypeOK
<1>2. /\ rows \in Seq(Seqs) /\ Len(rows) = IF to < from THEN 0 ELSE to - from + 1
      /\ \A i \in 1..Len(rows) : rows[i] = from + i - 1
      /\ rows = <<>> <=> to < from
  BY <1>1, IntervalIs
<1>3. ~(to < from) => rows[1] = from /\ rows[Len(rows)] = to
  BY <1>1, <1>2
<1>4. \A i \in 1..Len(rows) : rows[i] = rows[1] + i - 1
  BY <1>1, <1>2
<1> QED
  BY <1>2, <1>3, <1>4

(* fetch answers with rows of the present log, up to its last; a whole      *)
(* answer tells of the last.                                                *)
LEMMA FetchedIs ==
  ASSUME TypeOK, NEW r \in Fetches, AskShape(r),
         r.cursor # None => Within(r.cursor.epoch, r.cursor.seq, epoch, last)
  PROVE  LET m == Fetch(r)
         IN /\ m \in Answers /\ m.type = "answer" /\ m.request = r /\ m.epoch = epoch
            /\ AnswerShape(m)
            /\ News(m) => Told(m) <= last
            /\ Whole(m) => Told(m) = last
            /\ last = 0 => m.rows = <<>>
<1> DEFINE m == Fetch(r)
<1>1. /\ last \in Nat /\ last <= Rows /\ Rows \in Nat /\ epoch \in 1..Epochs /\ Epochs \in Nat
      /\ r.limit \in Nat \ {0} /\ r.dir \in {"tail", "after", "before"}
      /\ r.cursor # None => r.cursor.epoch \in 1..Epochs /\ r.cursor.seq \in Seqs
  BY Constants, PositionTyped DEF TypeOK, Fetches
<1>2. /\ Lowest(last, r.limit) \in Nat \ {0}
      /\ last # 0 => Lowest(last, r.limit) <= last
  BY <1>1 DEF Lowest
<1>3. \A to \in 0..last : Lowest(to, r.limit) \in Nat \ {0}
  BY <1>1 DEF Lowest
<1>9. ASSUME NEW rows, rows = Interval(Lowest(last, r.limit), last)
       PROVE  /\ rows \in Seq(Seqs)
              /\ \A i \in 1..Len(rows) : rows[i] = rows[1] + i - 1
              /\ rows = <<>> <=> last < Lowest(last, r.limit)
              /\ rows # <<>> => rows[Len(rows)] = last
  <2>1. PICK from \in Nat \ {0}, to \in 0..last : from = Lowest(last, r.limit) /\ to = last
    BY <1>1, <1>2
  <2>2. rows = Interval(from, to)
    BY <1>9, <2>1
  <2>3. /\ rows \in Seq(Seqs)
        /\ \A i \in 1..Len(rows) : rows[i] = rows[1] + i - 1
        /\ rows = <<>> <=> to < from
        /\ rows # <<>> => rows[1] = from /\ rows[Len(rows)] = to
    BY <2>2, RowsAre
  <2> QED
    BY <2>1, <2>3
<1>4. CASE Stale(r)
  <2>1. r.cursor # None /\ r.cursor.epoch < epoch
    BY <1>1, <1>4 DEF Stale, Within
  <2>2. m = Result(r, TRUE, Lowest(last, r.limit), last, Lowest(last, r.limit) > 1, FALSE)
    BY <1>4 DEF Fetch, FetchTail
  <2>3. /\ m \in Answers /\ m.type = "answer" /\ m.request = r /\ m.epoch = epoch
        /\ m.reset = TRUE /\ m.hasNewer = FALSE
        /\ \A i \in 1..Len(m.rows) : m.rows[i] = m.rows[1] + i - 1
        /\ m.rows = <<>> <=> last < Lowest(last, r.limit)
        /\ m.rows # <<>> => m.rows[Len(m.rows)] = last
    <3>1. m.rows = Interval(Lowest(last, r.limit), last)
      BY <2>2 DEF Result
    <3> HIDE DEF m
    <3>3. /\ m.rows \in Seq(Seqs)
          /\ \A i \in 1..Len(m.rows) : m.rows[i] = m.rows[1] + i - 1
          /\ m.rows = <<>> <=> last < Lowest(last, r.limit)
          /\ m.rows # <<>> => m.rows[Len(m.rows)] = last
      BY <1>9, <3>1
    <3> QED
      BY <1>1, <2>2, <3>3 DEF Result, Answers
  <2> HIDE DEF m
  <2>4. AnswerShape(m)
    BY <1>1, <2>1, <2>3 DEF AnswerShape, News, AskShape
  <2>5. Told(m) = last
    BY <1>1, <1>2, <2>3 DEF Told
  <2>6. last = 0 => m.rows = <<>>
    BY <1>1, <1>2, <2>3
  <2> QED
    BY <1>1, <2>3, <2>4, <2>5, <2>6 DEF m
<1>5. CASE ~Stale(r) /\ last = 0
  <2>1. r.cursor # None => r.cursor.epoch = epoch /\ r.cursor.seq = last
    BY <1>1, <1>5 DEF Stale, Within, Seqs
  <2>2. m = Result(r, FALSE, 1, 0, FALSE, FALSE)
    BY <1>5 DEF Fetch
  <2>3. /\ m \in Answers /\ m.type = "answer" /\ m.request = r /\ m.epoch = epoch
        /\ m.reset = FALSE /\ m.hasNewer = FALSE /\ m.rows = <<>>
    <3>1. m.rows = Interval(1, 0)
      BY <2>2 DEF Result
    <3> HIDE DEF m
    <3>2. m.rows \in Seq(Seqs) /\ m.rows = <<>>
      <4>1. 1 \in Nat \ {0} /\ 0 \in 0..last /\ 0 < 1
        BY <1>1
      <4> QED
        BY <3>1, <4>1, RowsAre
    <3> QED
      BY <1>1, <2>2, <3>2 DEF Result, Answers
  <2> HIDE DEF m
  <2>4. AnswerShape(m)
    BY <1>1, <2>1, <2>3 DEF AnswerShape, News
  <2>5. r.dir = "tail" \/ r.cursor # None
    BY DEF AskShape
  <2>6. News(m) => Told(m) = last
    BY <1>1, <1>5, <2>1, <2>3, <2>5 DEF Told, News
  <2> QED
    BY <1>1, <2>3, <2>4, <2>6 DEF m, Whole
<1>6. CASE ~Stale(r) /\ last # 0 /\ r.dir = "tail"
  <2>1. r.cursor # None => r.cursor.epoch = epoch
    BY <1>6 DEF Stale
  <2>2. m = Result(r, FALSE, Lowest(last, r.limit), last, Lowest(last, r.limit) > 1, FALSE)
    BY <1>6 DEF Fetch, FetchTail
  <2>3. /\ m \in Answers /\ m.type = "answer" /\ m.request = r /\ m.epoch = epoch
        /\ m.reset = FALSE /\ m.hasNewer = FALSE
        /\ \A i \in 1..Len(m.rows) : m.rows[i] = m.rows[1] + i - 1
        /\ m.rows # <<>>
        /\ m.rows[Len(m.rows)] = last
    <3>1. m.rows = Interval(Lowest(last, r.limit), last)
      BY <2>2 DEF Result
    <3> HIDE DEF m
    <3>3. /\ m.rows \in Seq(Seqs)
          /\ \A i \in 1..Len(m.rows) : m.rows[i] = m.rows[1] + i - 1
          /\ m.rows = <<>> <=> last < Lowest(last, r.limit)
          /\ m.rows # <<>> => m.rows[Len(m.rows)] = last
      BY <1>9, <3>1
    <3>4. m.rows # <<>>
      BY <1>1, <1>2, <1>6, <3>3
    <3> QED
      BY <1>1, <2>2, <3>3, <3>4 DEF Result, Answers
  <2> HIDE DEF m
  <2>4. AnswerShape(m)
    BY <1>1, <1>6, <2>1, <2>3 DEF AnswerShape, News
  <2>5. Told(m) = last
    BY <2>3 DEF Told
  <2> QED
    BY <1>1, <1>6, <2>3, <2>4, <2>5 DEF m
<1>7. CASE ~Stale(r) /\ last # 0 /\ r.dir = "after"
  <2>1. r.cursor # None /\ r.cursor.epoch = epoch /\ r.cursor.seq <= last
    BY <1>1, <1>7 DEF Stale, AskShape, Within
  <2> DEFINE seq == r.cursor.seq
             to == IF seq + r.limit < last THEN seq + r.limit ELSE last
  <2>2. m = Result(r, FALSE, seq + 1, to, seq >= 1, to > seq /\ to < last)
    BY <1>7 DEF Fetch, FetchAfter
  <2>3. seq \in Nat /\ to \in 0..last /\ seq <= to
    BY <1>1, <2>1 DEF Seqs
  <2>4. /\ m \in Answers /\ m.type = "answer" /\ m.request = r /\ m.epoch = epoch
        /\ m.reset = FALSE /\ m.hasNewer = (to > seq /\ to < last)
        /\ \A i \in 1..Len(m.rows) : m.rows[i] = m.rows[1] + i - 1
        /\ m.rows = <<>> <=> to < seq + 1
        /\ m.rows # <<>> => m.rows[1] = seq + 1 /\ m.rows[Len(m.rows)] = to
    <3>1. m.rows = Interval(seq + 1, to)
      BY <2>2 DEF Result
    <3> HIDE DEF m, to, seq
    <3>2. seq + 1 \in Nat \ {0}
      BY <2>3
    <3>3. /\ m.rows \in Seq(Seqs)
          /\ \A i \in 1..Len(m.rows) : m.rows[i] = m.rows[1] + i - 1
          /\ m.rows = <<>> <=> to < seq + 1
          /\ m.rows # <<>> => m.rows[1] = seq + 1 /\ m.rows[Len(m.rows)] = to
      BY <2>3, <3>1, <3>2, RowsAre
    <3> QED
      BY <1>1, <2>2, <3>3 DEF Result, Answers
  <2>5. to = seq => to = last
    BY <1>1, <2>1, <2>3
  <2> HIDE DEF m, to
  <2>6. AnswerShape(m)
    <3>1. m.hasNewer => m.rows # <<>>
      <4>1. m.hasNewer => to > seq
        BY <2>4
      <4>2. to \in Int /\ seq \in Int
        BY <1>1, <2>3
      <4> QED
        BY <2>4, <4>1, <4>2
    <3>2. AskShape(m.request)
      BY <2>4
    <3>3. r.cursor.epoch \in Nat /\ epoch \in Nat
      BY <1>1, <2>1
    <3> QED
      BY <1>7, <2>1, <2>4, <3>1, <3>2, <3>3 DEF AnswerShape, News
  <2>7. Told(m) = to
    BY <1>1, <1>7, <2>3, <2>4 DEF Told
  <2>8. Whole(m) => to = last
    <3>1. Whole(m) => ~(to > r.cursor.seq /\ to < last)
      BY <2>4 DEF Whole
    <3>2. to \in Nat /\ last \in Nat /\ r.cursor.seq \in Nat /\ r.cursor.seq <= to /\ to <= last
      BY <1>1, <2>3
    <3> QED
      BY <2>5, <3>1, <3>2
  <2> QED
    BY <1>1, <1>7, <2>3, <2>4, <2>6, <2>7, <2>8 DEF m
<1>8. CASE ~Stale(r) /\ last # 0 /\ r.dir = "before"
  <2>1. r.cursor # None /\ r.cursor.epoch = epoch
    BY <1>1, <1>8 DEF Stale, AskShape
  <2> DEFINE to == IF r.cursor.seq <= last THEN r.cursor.seq - 1 ELSE last
             from == Lowest(to, r.limit)
  <2>2. m = Result(r, FALSE, from, to, to >= 1 /\ from > 1, r.cursor.seq <= last)
    BY <1>8 DEF Fetch, FetchBefore
  <2>3. to \in 0..last
    BY <1>1, <2>1 DEF Seqs
  <2>4. /\ m \in Answers /\ m.type = "answer" /\ m.request = r /\ m.epoch = epoch
        /\ m.reset = FALSE
        /\ \A i \in 1..Len(m.rows) : m.rows[i] = m.rows[1] + i - 1
    <3>1. from \in Nat \ {0} /\ last \in Nat
      BY <1>1, <1>3, <2>3
    <3>2. m.rows = Interval(from, to)
      BY <2>2 DEF Result
    <3> HIDE DEF m, to, from
    <3>3. /\ m.rows \in Seq(Seqs)
          /\ \A i \in 1..Len(m.rows) : m.rows[i] = m.rows[1] + i - 1
      BY <2>3, <3>1, <3>2, RowsAre
    <3> QED
      BY <1>1, <2>2, <3>3 DEF Result, Answers
  <2> HIDE DEF m
  <2>5. AnswerShape(m)
    BY <1>1, <1>8, <2>1, <2>4 DEF AnswerShape, News, AskShape
  <2>6. ~News(m) /\ ~Whole(m)
    BY <1>8, <2>4 DEF News, Whole
  <2> QED
    BY <1>8, <2>4, <2>5, <2>6 DEF m
<1> QED
  BY <1>1, <1>4, <1>5, <1>6, <1>7, <1>8

-----------------------------------------------------------------------------
(* What the app makes of an answer.                                        *)

InOrder(c, sh) ==
  IF c = None THEN sh = <<>>
  ELSE /\ sh # <<>>
       /\ Head(sh) = <<c.epoch, c.start>>
       /\ sh[Len(sh)] = <<c.epoch, c.end>>
       /\ \A i \in 2..Len(sh) : sh[i][1] = c.epoch /\ sh[i - 1][2] < sh[i][2]
Lines == (1..Epochs) \X Seqs

(* A set of natural numbers that is not empty has a least member.           *)
LEMMA LeastNat ==
  ASSUME NEW T \in SUBSET Nat, T # {}
  PROVE  \E x \in T : \A y \in T : x <= y
<1>1. \E x \in T : \A y \in T : ~(<<y, x>> \in OpToRel(<, Nat))
  BY WFMin, NatLessThanWellFounded, Zenon
<1>2. \A x, y \in T : y < x => <<y, x>> \in OpToRel(<, Nat)
  BY DEF OpToRel
<1>3. \A x, y \in T : ~(y < x) => x <= y
  OBVIOUS
<1> QED
  BY <1>1, <1>2, <1>3

(* Rows are numbered from one.                                              *)
LEMMA SeqsNat == Seqs \subseteq Nat \ {0}
BY Constants DEF Seqs

(* The rows of an answer are rows.                                          *)
LEMMA RowTyped ==
  ASSUME NEW m \in Answers, NEW i \in 1..Len(m.rows)
  PROVE  m.rows[i] \in Seqs /\ m.rows[i] \in Nat /\ m.rows[i] > 0
<1>1. m.rows \in Seq(Seqs)
  BY DEF Answers
<1>2. m.rows[i] \in Seqs
  BY <1>1
<1> QED
  BY <1>2, Constants DEF Seqs

(* A view that begins with one row is in order.                             *)
LEMMA BeginInOrder ==
  ASSUME NEW e \in 1..Epochs, NEW s \in Seqs
  PROVE  /\ Begin(e, s) \in Ranges /\ <<<<e, s>>>> \in Seq(Lines)
         /\ Begin(e, s).epoch = e /\ Begin(e, s).start = s /\ Begin(e, s).end = s
         /\ InOrder(Begin(e, s), <<<<e, s>>>>)
<1>1. Begin(e, s) \in Ranges
  BY DEF Begin, Ranges
<1>2. <<e, s>> \in Lines
  BY DEF Lines
<1>3. Begin(e, s) # None
  BY <1>1, Constants
<1>4. <<<<e, s>>>> # <<>> /\ Len(<<<<e, s>>>>) = 1 /\ <<<<e, s>>>>[1] = <<e, s>> /\ Head(<<<<e, s>>>>) = <<e, s>>
  BY <1>2
<1> QED
  BY <1>1, <1>2, <1>3, <1>4 DEF InOrder, Begin

(* A later row of the log shown keeps the view in order.                    *)
LEMMA AppendInOrder ==
  ASSUME NEW c \in Ranges, NEW sh \in Seq(Lines), InOrder(c, sh), NEW s \in Seqs, s > c.end
  PROVE  /\ [c EXCEPT !.end = s] \in Ranges /\ Append(sh, <<c.epoch, s>>) \in Seq(Lines)
         /\ InOrder([c EXCEPT !.end = s], Append(sh, <<c.epoch, s>>))
<1> DEFINE d == [c EXCEPT !.end = s]
           th == Append(sh, <<c.epoch, s>>)
<1>1. c # None /\ c.epoch \in 1..Epochs /\ c.start \in Seqs /\ c.end \in Seqs
  BY RangeTyped
<1>2. d \in Ranges /\ d.epoch = c.epoch /\ d.start = c.start /\ d.end = s
  BY DEF Ranges
<1>3. d # None
  BY <1>2, Constants
<1>4. th \in Seq(Lines)
  BY <1>1 DEF Lines
<1>5. sh # <<>> /\ Len(sh) \in Nat /\ Len(sh) >= 1
  BY <1>1 DEF InOrder
<1>6. Len(th) = Len(sh) + 1 /\ th[Len(th)] = <<c.epoch, s>> /\ \A i \in 1..Len(sh) : th[i] = sh[i]
  BY <1>1
<1>7. th # <<>> /\ Head(th) = sh[1] /\ Head(sh) = sh[1]
  BY <1>4, <1>5, <1>6
<1>8. \A i \in 2..Len(th) : th[i][1] = d.epoch /\ th[i - 1][2] < th[i][2]
  <2> SUFFICES ASSUME NEW i \in 2..Len(th) PROVE th[i][1] = d.epoch /\ th[i - 1][2] < th[i][2]
    OBVIOUS
  <2>1. CASE i = Len(th)
    <3>1. th[i] = <<c.epoch, s>> /\ th[i - 1] = <<c.epoch, c.end>>
      BY <1>1, <1>5, <1>6, <2>1 DEF InOrder
    <3> QED
      BY <1>2, <3>1
  <2>2. CASE i # Len(th)
    <3>1. i \in 2..Len(sh) /\ i - 1 \in 1..Len(sh)
      BY <1>5, <1>6, <2>2
    <3>2. th[i] = sh[i] /\ th[i - 1] = sh[i - 1]
      BY <1>6, <3>1
    <3> QED
      BY <1>1, <1>2, <3>1, <3>2 DEF InOrder
  <2> QED
    BY <2>1, <2>2
<1>9. Head(th) = <<d.epoch, d.start>> /\ th[Len(th)] = <<d.epoch, d.end>>
  BY <1>1, <1>2, <1>6, <1>7 DEF InOrder
<1> HIDE DEF d, th
<1>10. InOrder(d, th)
  BY <1>3, <1>7, <1>8, <1>9 DEF InOrder
<1> QED
  BY <1>2, <1>4, <1>10 DEF d, th

Ascends(rows) == \A i \in 1..Len(rows) : rows[i] = rows[1] + i - 1

(* The lines of some rows of one log.                                       *)
LEMMA LinesTyped ==
  ASSUME NEW e \in 1..Epochs, NEW n \in Nat, NEW f, \A i \in 1..n : f[i] \in Seqs
  PROVE  LET sh == [i \in 1..n |-> <<e, f[i]>>]
         IN sh \in Seq(Lines) /\ Len(sh) = n /\ \A i \in 1..n : sh[i] = <<e, f[i]>>
<1> DEFINE sh == [i \in 1..n |-> <<e, f[i]>>]
<1>1. sh \in [1..n -> Lines]
  BY DEF Lines
<1>2. sh \in Seq(Lines)
  <2>1. [1..n -> Lines] \in {[1..k -> Lines] : k \in Nat}
    OBVIOUS
  <2> QED
    BY <1>1, <2>1, SeqDef
<1>3. DOMAIN sh = 1..Len(sh) /\ Len(sh) \in Nat /\ DOMAIN sh = 1..n
  BY <1>2, LenProperties
<1> QED
  BY <1>2, <1>3

(* applyTimelineReplacePath shows exactly the rows of the answer.           *)
LEMMA ReplacedIs ==
  ASSUME NEW m \in Answers, Ascends(m.rows)
  PROVE  /\ Replaced(m).cursor \in Ranges \cup {None} /\ Replaced(m).shown \in Seq(Lines)
         /\ InOrder(Replaced(m).cursor, Replaced(m).shown)
         /\ Replaced(m).gap = FALSE
         /\ m.rows = <<>> => Replaced(m).cursor = None
         /\ m.rows # <<>> => /\ Replaced(m).cursor # None
                             /\ Replaced(m).cursor.epoch = m.epoch
                             /\ Replaced(m).cursor.end = m.rows[Len(m.rows)]
<1> DEFINE n == Len(m.rows)
           sh == [i \in 1..n |-> <<m.epoch, m.rows[i]>>]
<1>1. m.rows \in Seq(Seqs) /\ n \in Nat /\ m.epoch \in 1..Epochs
  BY DEF Answers
<1>2. \A i \in 1..n : m.rows[i] \in Seqs
  BY <1>1
<1>3. sh \in Seq(Lines) /\ Len(sh) = n /\ \A i \in 1..n : sh[i] = <<m.epoch, m.rows[i]>>
  <2> HIDE DEF n
  <2> QED
    BY <1>1, <1>2, LinesTyped
<1>4. Replaced(m).shown = sh /\ Replaced(m).gap = FALSE
  BY DEF Replaced
<1>5. CASE n = 0
  <2>1. Replaced(m).cursor = None /\ m.rows = <<>> /\ sh = <<>>
    BY <1>1, <1>3, <1>5 DEF Replaced
  <2> QED
    BY <1>3, <1>4, <2>1 DEF InOrder
<1>6. CASE n # 0
  <2> DEFINE c == [epoch |-> m.epoch, start |-> m.rows[1], end |-> m.rows[n]]
  <2>1. Replaced(m).cursor = c /\ m.rows # <<>>
    BY <1>1, <1>6 DEF Replaced
  <2>2. c \in Ranges /\ c # None
    BY <1>1, <1>2, <1>6, Constants DEF Ranges
  <2>3. sh # <<>> /\ Head(sh) = sh[1] /\ sh[1] = <<m.epoch, m.rows[1]>> /\ sh[n] = <<m.epoch, m.rows[n]>>
    BY <1>1, <1>3, <1>6
  <2>4. \A i \in 2..n : sh[i][1] = m.epoch /\ sh[i - 1][2] < sh[i][2]
    <3> SUFFICES ASSUME NEW i \in 2..n PROVE sh[i][1] = m.epoch /\ sh[i - 1][2] < sh[i][2]
      OBVIOUS
    <3>0. i \in 1..n /\ i - 1 \in 1..n /\ 1 \in 1..n
      BY <1>1
    <3>1. m.rows[i] = m.rows[1] + i - 1 /\ m.rows[i - 1] = m.rows[1] + (i - 1) - 1 /\ m.rows[1] \in Nat
      BY <1>2, <3>0, SeqsNat DEF Ascends
    <3>2. sh[i] = <<m.epoch, m.rows[i]>> /\ sh[i - 1] = <<m.epoch, m.rows[i - 1]>>
      BY <1>1, <1>3
    <3> HIDE DEF sh
    <3> QED
      BY <1>1, <3>1, <3>2
  <2> HIDE DEF sh
  <2>5. InOrder(c, sh)
    BY <1>3, <2>2, <2>3, <2>4 DEF InOrder
  <2> QED
    BY <1>3, <1>4, <2>1, <2>2, <2>5
<1> QED
  BY <1>5, <1>6

(* The loop over an answer's rows is a function: there is no least length   *)
(* without one.                                                             *)
LEMMA LoopExists ==
  ASSUME NEW m, NEW k \in Nat
  PROVE  \E g : g = [n \in 0..k |-> IF n = 0 THEN Shown ELSE Accept(m.epoch, g[n - 1], m.rows[n])]
<1> DEFINE Is(g, j) == g = [n \in 0..j |-> IF n = 0 THEN Shown ELSE Accept(m.epoch, g[n - 1], m.rows[n])]
           T == {j \in Nat : ~ \E g : Is(g, j)}
<1> SUFFICES T = {}
  OBVIOUS
<1>1. SUFFICES ASSUME T # {} PROVE FALSE
  OBVIOUS
<1>2. PICK j \in T : \A i \in T : j <= i
  BY <1>1, LeastNat
<1>3. CASE j = 0
  <2> DEFINE g == [n \in 0..0 |-> Shown]
  <2>1. Is(g, 0)
    OBVIOUS
  <2> HIDE DEF g, Is
  <2> QED
    BY <1>2, <1>3, <2>1
<1>4. CASE j # 0
  <2>1. j \in Nat /\ j - 1 \in Nat /\ j - 1 \notin T
    <3>1. T \subseteq Nat
      OBVIOUS
    <3> HIDE DEF T
    <3> QED
      BY <1>2, <1>4, <3>1
  <2>2. PICK g : Is(g, j - 1)
    BY <2>1
  <2> DEFINE h == [n \in 0..j |-> IF n = j THEN Accept(m.epoch, g[j - 1], m.rows[j]) ELSE g[n]]
  <2>3. Is(h, j)
    <3>1. \A n \in 0..j : h[n] = IF n = 0 THEN Shown ELSE Accept(m.epoch, h[n - 1], m.rows[n])
      <4> SUFFICES ASSUME NEW n \in 0..j
                   PROVE h[n] = IF n = 0 THEN Shown ELSE Accept(m.epoch, h[n - 1], m.rows[n])
        OBVIOUS
      <4>1. CASE n = j
        <5>1. j - 1 \in 0..j /\ j - 1 # j
          BY <2>1
        <5>2. h[j - 1] = g[j - 1]
          BY <5>1
        <5>3. h[n] = Accept(m.epoch, g[j - 1], m.rows[j])
          BY <4>1
        <5> QED
          BY <1>4, <4>1, <5>2, <5>3
      <4>2. CASE n # j
        <5>1. n \in 0..j - 1 /\ (n # 0 => n - 1 \in 0..j /\ n - 1 # j)
          BY <2>1, <4>2
        <5>2. g[n] = IF n = 0 THEN Shown ELSE Accept(m.epoch, g[n - 1], m.rows[n])
          BY <2>2, <5>1
        <5>3. h[n] = g[n] /\ (n # 0 => h[n - 1] = g[n - 1])
          BY <4>2, <5>1
        <5> QED
          BY <5>2, <5>3
      <4> QED
        BY <4>1, <4>2
    <3>2. h = [n \in 0..j |-> h[n]]
      OBVIOUS
    <3> HIDE DEF h
    <3> QED
      BY <3>1, <3>2
  <2> QED
    BY <1>2, <2>1, <2>3
<1> QED
  BY <1>3, <1>4

States == [cursor : Ranges \cup {None}, shown : Seq(Lines), gap : BOOLEAN]
After(m, s, n) ==
  /\ s \in States /\ InOrder(s.cursor, s.shown)
  /\ n = 0 => s = Shown
  /\ cursor = None /\ n # 0 =>
       s.cursor # None /\ s.cursor.epoch = m.epoch /\ s.cursor.end = m.rows[n] /\ ~s.gap
  /\ cursor # None =>
       /\ s.cursor # None /\ s.cursor.epoch = cursor.epoch
       /\ cursor.epoch # m.epoch => s.cursor.end = cursor.end /\ ~s.gap
       /\ cursor.epoch = m.epoch /\ n # 0 =>
            IF m.rows[1] > cursor.end + 1 THEN s.gap /\ s.cursor.end = cursor.end
            ELSE /\ ~s.gap
                 /\ s.cursor.end = IF m.rows[n] > cursor.end THEN m.rows[n] ELSE cursor.end

(* One row is taken if it follows, skipped if it is there, refused after    *)
(* a gap.                                                                   *)
LEMMA AcceptIs ==
  ASSUME NEW e \in 1..Epochs, NEW s \in States, NEW x \in Seqs, InOrder(s.cursor, s.shown),
         NEW t, t = Accept(e, s, x)
  PROVE  /\ t \in States /\ InOrder(t.cursor, t.shown)
         /\ s.gap => t = s
         /\ ~s.gap /\ s.cursor = None =>
              t.cursor # None /\ t.cursor.epoch = e /\ t.cursor.end = x /\ ~t.gap
         /\ ~s.gap /\ s.cursor # None =>
              /\ t.cursor # None /\ t.cursor.epoch = s.cursor.epoch
              /\ s.cursor.epoch # e => t = s
              /\ s.cursor.epoch = e =>
                   IF x > s.cursor.end + 1 THEN t.gap /\ t.cursor = s.cursor
                   ELSE /\ ~t.gap
                        /\ t.cursor.end = IF x > s.cursor.end THEN x ELSE s.cursor.end
<1>1. /\ s.cursor \in Ranges \cup {None} /\ s.shown \in Seq(Lines) /\ s.gap \in BOOLEAN
      /\ x \in Nat /\ x > 0
  BY SeqsNat DEF States
<1>2. s.cursor # None => s.cursor.end \in Nat /\ s.cursor.epoch \in Nat
  BY <1>1, RangeTyped
<1>3. CASE s.gap
  BY <1>1, <1>3 DEF Accept
<1>4. CASE ~s.gap /\ s.cursor = None
  <2>1. t = [s EXCEPT !.cursor = Begin(e, x), !.shown = Append(@, <<e, x>>)]
    BY <1>4 DEF Accept, Decision
  <2>2. s.shown = <<>>
    BY <1>4 DEF InOrder
  <2>3. Append(<<>>, <<e, x>>) = <<<<e, x>>>>
    OBVIOUS
  <2>4. t.cursor = Begin(e, x) /\ t.shown = <<<<e, x>>>> /\ t.gap = s.gap
    BY <2>1, <2>2, <2>3 DEF States
  <2>5. t \in States
    <3>1. t = [cursor |-> Begin(e, x), shown |-> <<<<e, x>>>>, gap |-> s.gap]
      BY <2>1, <2>2, <2>3 DEF States
    <3> QED
      BY <1>1, <3>1, BeginInOrder DEF States
  <2>6. Begin(e, x) # None
    BY BeginInOrder, Constants
  <2> QED
    BY <1>4, <2>4, <2>5, <2>6, BeginInOrder
<1>5. CASE ~s.gap /\ s.cursor # None /\ s.cursor.epoch # e
  <2>1. t = s
    BY <1>5 DEF Accept, Decision
  <2> QED
    BY <1>5, <2>1
<1>6. CASE ~s.gap /\ s.cursor # None /\ s.cursor.epoch = e /\ x <= s.cursor.end
  <2>1. t = s
    BY <1>1, <1>2, <1>6 DEF Accept, Decision
  <2> QED
    BY <1>1, <1>2, <1>6, <2>1
<1>7. CASE ~s.gap /\ s.cursor # None /\ s.cursor.epoch = e /\ x = s.cursor.end + 1
  <2>1. Decision(s.cursor, e, x) = "accept"
    BY <1>1, <1>2, <1>7 DEF Decision
  <2>2. t = [s EXCEPT !.cursor = [@ EXCEPT !.end = x], !.shown = Append(@, <<e, x>>)]
    BY <1>7, <2>1 DEF Accept
  <2>3. t.cursor = [s.cursor EXCEPT !.end = x] /\ t.shown = Append(s.shown, <<e, x>>) /\ t.gap = s.gap
    BY <2>2 DEF States
  <2>4. x > s.cursor.end /\ ~(x > s.cursor.end + 1)
    BY <1>1, <1>2, <1>7
  <2>5. s.cursor \in Ranges
    BY <1>1, <1>7
  <2>6. t.cursor \in Ranges /\ t.shown \in Seq(Lines) /\ InOrder(t.cursor, t.shown)
    <3>1. t.shown = Append(s.shown, <<s.cursor.epoch, x>>)
      BY <1>7, <2>3
    <3> QED
      BY <1>1, <2>3, <2>4, <2>5, <3>1, AppendInOrder
  <2>7. t.cursor # None /\ t.cursor.epoch = e /\ t.cursor.end = x
    BY <1>7, <2>3, <2>5, <2>6, Constants DEF Ranges
  <2>8. t \in States
    BY <2>2, <2>3, <2>6 DEF States
  <2> QED
    BY <1>7, <2>3, <2>4, <2>6, <2>7, <2>8
<1>8. CASE ~s.gap /\ s.cursor # None /\ s.cursor.epoch = e /\ x > s.cursor.end + 1
  <2>1. Decision(s.cursor, e, x) = "gap"
    BY <1>1, <1>2, <1>8 DEF Decision
  <2>2. t = [s EXCEPT !.gap = TRUE]
    BY <1>8, <2>1 DEF Accept
  <2>3. t \in States /\ t.cursor = s.cursor /\ t.shown = s.shown /\ t.gap = TRUE
    BY <2>2 DEF States
  <2> QED
    BY <1>1, <1>2, <1>8, <2>3
<1> QED
  BY <1>1, <1>2, <1>3, <1>4, <1>5, <1>6, <1>7, <1>8

(* After one more row of the answer.                                        *)
LEMMA AfterStep ==
  ASSUME TypeOK, Ascending, NEW m \in Answers, Ascends(m.rows),
         NEW n \in Nat, n + 1 <= Len(m.rows), NEW s, After(m, s, n)
  PROVE  After(m, Accept(m.epoch, s, m.rows[n + 1]), n + 1)
<1> DEFINE x == m.rows[n + 1]
<1>0. PICK t : t = Accept(m.epoch, s, x)
  OBVIOUS
<1> SUFFICES After(m, t, n + 1)
  BY <1>0
<1>1. m.rows \in Seq(Seqs) /\ m.epoch \in 1..Epochs /\ Len(m.rows) \in Nat
  BY DEF Answers
<1>2. /\ x \in Seqs /\ m.rows[1] \in Seqs /\ x = m.rows[1] + n
      /\ n # 0 => m.rows[n] = m.rows[1] + n - 1 /\ m.rows[n] \in Int /\ x = m.rows[n] + 1
  <2>1. n + 1 \in 1..Len(m.rows) /\ 1 \in 1..Len(m.rows) /\ (n # 0 => n \in 1..Len(m.rows))
    BY <1>1
  <2>2. m.rows[1] \in Nat
    BY <2>1, RowTyped
  <2>3. m.rows[n + 1] = m.rows[1] + (n + 1) - 1
    BY <2>1 DEF Ascends
  <2>4. n # 0 => m.rows[n] = m.rows[1] + n - 1
    BY <2>1 DEF Ascends
  <2>5. n # 0 => m.rows[n] \in Int /\ m.rows[n + 1] = m.rows[n] + 1
    BY <2>2, <2>3, <2>4
  <2> QED
    BY <2>1, <2>2, <2>3, <2>4, <2>5, RowTyped
<1>3. x \in Nat /\ m.rows[1] \in Nat /\ (cursor # None => cursor.end \in Nat /\ cursor.epoch \in Nat)
  BY <1>2, SeqsNat, RangeTyped DEF TypeOK
<1>4. /\ t \in States /\ InOrder(t.cursor, t.shown)
      /\ s.gap => t = s
      /\ ~s.gap /\ s.cursor = None =>
           t.cursor # None /\ t.cursor.epoch = m.epoch /\ t.cursor.end = x /\ ~t.gap
      /\ ~s.gap /\ s.cursor # None =>
           /\ t.cursor # None /\ t.cursor.epoch = s.cursor.epoch
           /\ s.cursor.epoch # m.epoch => t = s
           /\ s.cursor.epoch = m.epoch =>
                IF x > s.cursor.end + 1 THEN t.gap /\ t.cursor = s.cursor
                ELSE /\ ~t.gap
                     /\ t.cursor.end = IF x > s.cursor.end THEN x ELSE s.cursor.end
  BY <1>0, <1>1, <1>2, AcceptIs DEF After
<1>5. n = 0 => s.cursor = cursor /\ s.gap = FALSE
  BY DEF After, Shown
<1> HIDE DEF x
<1>6. CASE cursor = None
  <2>1. s.gap = FALSE /\ (s.cursor # None => s.cursor.epoch = m.epoch /\ s.cursor.end = m.rows[n] /\ n # 0)
    BY <1>5, <1>6 DEF After, States
  <2>2. t.cursor # None /\ t.cursor.epoch = m.epoch /\ t.cursor.end = x /\ ~t.gap
    <3>1. CASE s.cursor = None
      BY <1>4, <2>1, <3>1
    <3>2. CASE s.cursor # None
      <4>1. s.cursor.end = m.rows[n] /\ n # 0
        BY <2>1, <3>2
      <4>2. x = s.cursor.end + 1 /\ s.cursor.end \in Int
        BY <1>2, <4>1
      <4>3. ~(x > s.cursor.end + 1) /\ x > s.cursor.end
        BY <1>3, <4>2
      <4> QED
        BY <1>4, <2>1, <3>2, <4>3
    <3> QED
      BY <3>1, <3>2
  <2> QED
    BY <1>4, <1>6, <2>2 DEF After, x
<1>7. CASE cursor # None /\ cursor.epoch # m.epoch
  <2>1. s.cursor # None /\ s.cursor.epoch = cursor.epoch /\ s.cursor.end = cursor.end /\ ~s.gap
    BY <1>7 DEF After
  <2>2. t = s
    BY <1>4, <1>7, <2>1
  <2> QED
    BY <1>4, <1>7, <2>1, <2>2 DEF After
<1>8. CASE cursor # None /\ cursor.epoch = m.epoch /\ m.rows[1] > cursor.end + 1
  <2>1. s.cursor # None /\ s.cursor.epoch = cursor.epoch /\ s.cursor.end = cursor.end
    BY <1>5, <1>8 DEF After
  <2>2. t.gap /\ t.cursor # None /\ t.cursor.epoch = cursor.epoch /\ t.cursor.end = cursor.end
    <3>1. CASE n = 0
      BY <1>2, <1>3, <1>4, <1>5, <1>8, <2>1, <3>1
    <3>2. CASE n # 0
      <4>1. s.gap
        BY <1>8, <3>2 DEF After
      <4> QED
        BY <1>4, <2>1, <4>1
    <3> QED
      BY <3>1, <3>2
  <2> QED
    BY <1>4, <1>8, <2>2 DEF After
<1>9. CASE cursor # None /\ cursor.epoch = m.epoch /\ ~(m.rows[1] > cursor.end + 1)
  <2>1. /\ s.cursor # None /\ s.cursor.epoch = cursor.epoch /\ ~s.gap
        /\ n = 0 => s.cursor.end = cursor.end
        /\ n # 0 => s.cursor.end = IF m.rows[n] > cursor.end THEN m.rows[n] ELSE cursor.end
    BY <1>5, <1>9 DEF After
  <2>2. /\ ~(x > s.cursor.end + 1)
        /\ (IF x > s.cursor.end THEN x ELSE s.cursor.end) = IF x > cursor.end THEN x ELSE cursor.end
    <3>1. PICK c \in Nat : c = cursor.end
      BY <1>3, <1>9
    <3>2. PICK d : d = s.cursor.end
      OBVIOUS
    <3>3. CASE n = 0
      <4>1. d = c /\ x = m.rows[1] /\ x \in Nat /\ ~(x > c + 1)
        BY <1>2, <1>3, <1>9, <2>1, <3>1, <3>2, <3>3
      <4> QED
        BY <3>1, <3>2, <4>1
    <3>4. CASE n # 0
      <4>1. PICK b \in Int : b = m.rows[n] /\ x = b + 1 /\ x \in Nat
        BY <1>2, <1>3, <3>4
      <4>2. d = IF b > c THEN b ELSE c
        BY <2>1, <3>1, <3>2, <3>4, <4>1
      <4>3. ~(x > d + 1) /\ (IF x > d THEN x ELSE d) = IF x > c THEN x ELSE c
        <5>1. CASE b > c
          BY <3>1, <4>1, <4>2, <5>1
        <5>2. CASE ~(b > c)
          BY <3>1, <4>1, <4>2, <5>2
        <5> QED
          BY <5>1, <5>2
      <4> QED
        BY <3>1, <3>2, <4>3
    <3> QED
      BY <3>3, <3>4
  <2>3. ~t.gap /\ t.cursor # None /\ t.cursor.epoch = cursor.epoch
        /\ t.cursor.end = IF x > cursor.end THEN x ELSE cursor.end
    BY <1>4, <1>9, <2>1, <2>2
  <2> QED
    BY <1>4, <1>9, <2>3 DEF After, x
<1> QED
  BY <1>6, <1>7, <1>8, <1>9

(* After all rows of the answer.                                            *)
LEMMA NewerIs ==
  ASSUME TypeOK, Ascending, NEW m \in Answers, Ascends(m.rows)
  PROVE  After(m, AcceptNewer(m), Len(m.rows))
<1> DEFINE k == Len(m.rows)
           Is(g) == g = [n \in 0..k |->
                           IF n = 0 THEN Shown ELSE Accept(m.epoch, g[n - 1], m.rows[n])]
<1>1. k \in Nat
  BY DEF Answers
<1>2. PICK g : g = (CHOOSE h : Is(h))
  OBVIOUS
<1>3. Is(g)
  <2>1. \E h : Is(h)
    <3> HIDE DEF k
    <3>1. PICK i \in Nat : i = k
      BY <1>1
    <3>2. \E h : h = [n \in 0..i |-> IF n = 0 THEN Shown ELSE Accept(m.epoch, h[n - 1], m.rows[n])]
      BY LoopExists, Zenon
    <3> QED
      BY <3>1, <3>2
  <2> HIDE DEF Is
  <2> QED
    BY <1>2, <2>1
<1>4. AcceptNewer(m) = g[k]
  BY <1>2 DEF AcceptNewer
<1> HIDE DEF k
<1>5. g[0] = Shown /\ \A n \in 0..k : n # 0 => g[n] = Accept(m.epoch, g[n - 1], m.rows[n])
  BY <1>1, <1>3
<1>6. After(m, Shown, 0)
  <2>1. Shown \in States
    BY DEF Shown, States, TypeOK, Lines
  <2>2. InOrder(Shown.cursor, Shown.shown)
    BY DEF Shown, InOrder, Ascending
  <2> QED
    BY <2>1, <2>2 DEF After, Shown
<1> DEFINE T == {n \in 0..k : ~After(m, g[n], n)}
<1>7. T = {}
  <2> SUFFICES ASSUME T # {} PROVE FALSE
    OBVIOUS
  <2>1. PICK n \in T : \A i \in T : n <= i
    <3>1. T \in SUBSET Nat
      BY <1>1
    <3> HIDE DEF T
    <3> QED
      BY <3>1, LeastNat
  <2>2. n # 0
    BY <1>5, <1>6, <2>1
  <2>3. n - 1 \in 0..k /\ n - 1 \in Nat /\ n <= k /\ n \in Nat
    BY <1>1, <2>1, <2>2
  <2>4. After(m, g[n - 1], n - 1)
    <3>1. n - 1 \notin T
      BY <2>1, <2>3
    <3> QED
      BY <2>3, <3>1
  <2>5. (n - 1) + 1 = n
    BY <2>3
  <2>6. After(m, Accept(m.epoch, g[n - 1], m.rows[n]), n)
    BY <2>3, <2>4, <2>5, AfterStep DEF k
  <2> QED
    BY <1>5, <2>1, <2>2, <2>6
<1>8. k \in 0..k
  BY <1>1
<1> QED
  BY <1>4, <1>7, <1>8 DEF k

(* A page before the view leaves its log and its end alone.                 *)
LEMMA OlderIs ==
  ASSUME TypeOK, Ascending, NEW m \in Answers, Ascends(m.rows), NEW t, t = AcceptOlder(m)
  PROVE  /\ t.cursor \in Ranges \cup {None} /\ t.shown \in Seq(Lines)
         /\ InOrder(t.cursor, t.shown) /\ t.gap = FALSE
         /\ t.cursor = None <=> cursor = None
         /\ cursor # None => t.cursor.epoch = cursor.epoch /\ t.cursor.end = cursor.end
<1> DEFINE rows == Older(m)
           dom == {i \in 1..Len(m.rows) : /\ cursor # None /\ cursor.epoch = m.epoch
                                          /\ m.rows[i] < cursor.start}
           new == [i \in 1..Len(rows) |-> <<m.epoch, rows[i]>>]
<1>1. /\ m.rows \in Seq(Seqs) /\ Len(m.rows) \in Nat /\ m.epoch \in 1..Epochs
      /\ cursor \in Ranges \cup {None} /\ shown \in Seq(Lines)
      /\ InOrder(cursor, shown)
  BY DEF Answers, TypeOK, Ascending, InOrder, Lines
<1>2. rows = [i \in dom |-> m.rows[i]]
  BY DEF Older
<1>3. /\ t.cursor = IF rows = <<>> THEN cursor ELSE [cursor EXCEPT !.start = Head(m.rows)]
      /\ t.shown = new \o shown /\ t.gap = FALSE
  BY DEF AcceptOlder
<1>4. CASE dom = {}
  <2>1. rows = <<>>
    BY <1>2, <1>4
  <2>2. Len(rows) = 0
    BY <2>1
  <2>3. new = <<>>
    BY <2>2
  <2>4. new \o shown = shown
    <3>1. <<>> \o shown = shown
      BY <1>1, ConcatEmptySeq
    <3> HIDE DEF new
    <3> QED
      BY <2>3, <3>1
  <2> QED
    BY <1>1, <1>3, <2>1, <2>4
<1>5. CASE dom # {}
  <2>1. /\ cursor # None /\ cursor.epoch = m.epoch /\ cursor \in Ranges
        /\ cursor.start \in Nat /\ cursor.start \in Seqs /\ cursor.end \in Seqs
    BY <1>1, <1>5, RangeTyped
  <2>2. m.rows[1] \in Nat /\ m.rows[1] \in Seqs /\ 1 \in 1..Len(m.rows)
    BY <1>1, <1>5, RowTyped
  <2>3. \A i \in 1..Len(m.rows) : m.rows[i] = m.rows[1] + i - 1
    BY DEF Ascends
  <2> DEFINE k == IF cursor.start - m.rows[1] > Len(m.rows) THEN Len(m.rows)
                  ELSE cursor.start - m.rows[1]
  <2>4. dom = 1..k /\ k \in Nat /\ k >= 1 /\ k <= Len(m.rows)
    <3>1. \A i \in 1..Len(m.rows) : i \in dom <=> i <= cursor.start - m.rows[1]
      BY <2>1, <2>2, <2>3
    <3>2. dom \subseteq 1..Len(m.rows)
      OBVIOUS
    <3>3. PICK i \in 1..Len(m.rows) : i <= cursor.start - m.rows[1]
      BY <1>5, <3>1, <3>2
    <3> HIDE DEF dom
    <3>4. k \in Nat /\ k >= 1 /\ k <= Len(m.rows)
      BY <1>1, <2>1, <2>2, <3>3
    <3>5. \A n : n \in dom <=> n \in 1..k
      <4> SUFFICES ASSUME NEW n PROVE n \in dom <=> n \in 1..k
        OBVIOUS
      <4>1. n \in 1..k <=> n \in 1..Len(m.rows) /\ n <= cursor.start - m.rows[1]
        BY <1>1, <2>1, <2>2
      <4> HIDE DEF k
      <4> QED
        BY <3>1, <3>2, <4>1
    <3> HIDE DEF k
    <3>6. dom = 1..k
      BY <3>5, Zenon
    <3> QED
      BY <3>4, <3>6
  <2> HIDE DEF k, dom
  <2>5. \A i \in 1..k : rows[i] = m.rows[i] /\ m.rows[i] \in Seqs /\ m.rows[i] < cursor.start
    <3>1. \A i \in dom : m.rows[i] < cursor.start
      BY DEF dom
    <3> QED
      BY <1>1, <1>2, <2>4, <3>1, RowTyped
  <2>6. rows \in Seq(Seqs) /\ Len(rows) = k /\ rows # <<>>
    <3>1. rows = [i \in 1..k |-> m.rows[i]]
      BY <1>2, <2>4
    <3> HIDE DEF rows
    <3>2. rows \in [1..k -> Seqs]
      BY <2>5, <3>1
    <3>3. rows \in Seq(Seqs)
      <4>1. [1..k -> Seqs] \in {[1..n -> Seqs] : n \in Nat}
        BY <2>4
      <4> QED
        BY <3>2, <4>1, SeqDef
    <3>4. Len(rows) \in Nat /\ DOMAIN rows = 1..Len(rows) /\ DOMAIN rows = 1..k
      BY <3>1, <3>3, LenProperties
    <3>5. \A i : i \in 1..Len(rows) <=> i \in 1..k
      BY <3>4
    <3>6. Len(rows) = k
      <4>1. Len(rows) \in Nat
        BY <3>4
      <4>2. k <= Len(rows)
        <5>1. k \in 1..k
          BY <2>4
        <5> QED
          BY <3>5, <4>1, <5>1
      <4>3. Len(rows) # 0 => Len(rows) <= k
        <5>1. Len(rows) # 0 => Len(rows) \in 1..Len(rows)
          BY <4>1
        <5> QED
          BY <2>4, <3>5, <5>1
      <4> QED
        BY <2>4, <4>1, <4>2, <4>3
    <3> QED
      BY <2>4, <3>3, <3>6
  <2>7. new \in Seq(Lines) /\ Len(new) = k /\ \A i \in 1..k : new[i] = <<m.epoch, m.rows[i]>>
    <3>1. new = [i \in 1..k |-> <<m.epoch, rows[i]>>]
      BY <2>6
    <3>2. \A i \in 1..k : rows[i] \in Seqs
      BY <2>5
    <3> HIDE DEF rows, new
    <3> QED
      BY <1>1, <2>4, <2>5, <3>1, <3>2, LinesTyped
  <2> DEFINE c == [cursor EXCEPT !.start = Head(m.rows)]
             sh == new \o shown
  <2>8. /\ c \in Ranges /\ c # None /\ c.epoch = m.epoch /\ c.start = m.rows[1]
        /\ c.end = cursor.end
    <3>1. Head(m.rows) = m.rows[1]
      BY <1>1, <2>2
    <3>2. c \in Ranges /\ c.epoch = m.epoch /\ c.start = m.rows[1] /\ c.end = cursor.end
      BY <2>1, <2>2, <3>1 DEF Ranges
    <3> QED
      BY <3>2, Constants
  <2> HIDE DEF rows, new, c
  <2>9. /\ shown # <<>> /\ Len(shown) \in Nat /\ Len(shown) >= 1
        /\ shown[1] = <<cursor.epoch, cursor.start>>
        /\ shown[Len(shown)] = <<cursor.epoch, cursor.end>>
        /\ \A i \in 2..Len(shown) : shown[i][1] = cursor.epoch /\ shown[i - 1][2] < shown[i][2]
    BY <1>1, <2>1 DEF InOrder
  <2>10. /\ sh \in Seq(Lines) /\ Len(sh) = k + Len(shown)
         /\ \A i \in 1..k : sh[i] = new[i]
         /\ \A i \in 1..Len(shown) : sh[k + i] = shown[i]
    <3>1. /\ sh \in Seq(Lines) /\ Len(sh) = Len(new) + Len(shown)
          /\ \A i \in 1..Len(new) + Len(shown) :
               sh[i] = IF i <= Len(new) THEN new[i] ELSE shown[i - Len(new)]
      BY <1>1, <2>7, ConcatProperties
    <3> HIDE DEF sh
    <3>2. Len(new) = k /\ k \in Nat /\ Len(shown) \in Nat
      BY <2>4, <2>7, <2>9
    <3>3. \A i \in 1..k : sh[i] = new[i]
      BY <3>1, <3>2
    <3>4. ASSUME NEW i \in 1..Len(shown) PROVE sh[k + i] = shown[i]
      <4>1. k + i \in 1..k + Len(shown) /\ ~(k + i <= k) /\ k + i - k = i
        BY <3>2
      <4> QED
        BY <3>1, <3>2, <4>1
    <3> QED
      BY <3>1, <3>2, <3>3, <3>4
  <2> HIDE DEF sh
  <2>11. sh # <<>> /\ Head(sh) = <<c.epoch, c.start>> /\ sh[Len(sh)] = <<c.epoch, c.end>>
    <3>1. 1 \in 1..k /\ Len(shown) \in 1..Len(shown) /\ Len(sh) >= 1
      BY <2>4, <2>9, <2>10
    <3>2. sh # <<>> /\ Head(sh) = sh[1]
      BY <2>10, <3>1
    <3> QED
      BY <2>1, <2>7, <2>8, <2>9, <2>10, <3>1, <3>2
  <2>12. \A i \in 2..Len(sh) : sh[i][1] = c.epoch /\ sh[i - 1][2] < sh[i][2]
    <3> SUFFICES ASSUME NEW i \in 2..Len(sh) PROVE sh[i][1] = c.epoch /\ sh[i - 1][2] < sh[i][2]
      OBVIOUS
    <3>1. CASE i <= k
      <4>1. i \in 1..k /\ i - 1 \in 1..k /\ i \in 1..Len(m.rows) /\ i - 1 \in 1..Len(m.rows)
        BY <1>1, <2>4, <3>1
      <4>2. m.rows[i] = m.rows[1] + i - 1 /\ m.rows[i - 1] = m.rows[1] + (i - 1) - 1
        BY <2>3, <4>1
      <4>3. m.rows[i - 1] < m.rows[i]
        BY <2>2, <4>1, <4>2
      <4> QED
        BY <2>7, <2>8, <2>10, <4>1, <4>3
    <3>2. CASE i = k + 1
      <4>1. k \in 1..k /\ 1 \in 1..Len(shown) /\ i - 1 = k
        BY <2>4, <2>9, <3>2
      <4>2. sh[i - 1] = <<m.epoch, m.rows[k]>> /\ sh[i] = <<cursor.epoch, cursor.start>>
        BY <2>7, <2>9, <2>10, <3>2, <4>1
      <4>3. m.rows[k] < cursor.start
        BY <2>5, <4>1
      <4> QED
        BY <2>1, <2>8, <4>2, <4>3
    <3>3. CASE i > k + 1
      <4>1. PICK j \in 2..Len(shown) : i = k + j
        <5>1. i - k \in 2..Len(shown) /\ i = k + (i - k)
          BY <2>4, <2>9, <2>10, <3>3
        <5> QED
          BY <5>1
      <4>2. j \in 1..Len(shown) /\ j - 1 \in 1..Len(shown) /\ i - 1 = k + (j - 1)
        BY <2>4, <2>9, <4>1
      <4>3. sh[i] = shown[j] /\ sh[i - 1] = shown[j - 1]
        BY <2>10, <4>1, <4>2
      <4> QED
        BY <2>1, <2>8, <2>9, <4>1, <4>3
    <3>4. i \in Nat /\ k \in Nat
      BY <2>4, <2>10
    <3> QED
      BY <3>1, <3>2, <3>3, <3>4
  <2>13. InOrder(c, sh)
    BY <2>8, <2>11, <2>12 DEF InOrder
  <2>14. t.cursor = c /\ t.shown = sh
    BY <1>3, <2>6 DEF c, sh, new, rows
  <2> QED
    BY <1>3, <2>1, <2>8, <2>10, <2>13, <2>14
<1> QED
  BY <1>4, <1>5

-----------------------------------------------------------------------------
(* Messages on their way.                                                  *)

Messages == Events \cup Answers \cup Rejected \cup {[type |-> "reloaded"]}

(* What each message is made of.                                            *)
LEMMA MessageTyped ==
  ASSUME NEW m \in Messages
  PROVE  /\ m.type \in {"row", "answer", "error", "reloaded"}
         /\ m.type = "row" => /\ m \in Events /\ m.epoch \in 1..Epochs /\ m.epoch \in Nat
                              /\ m.seq \in Seqs /\ m.seq \in Nat /\ m.seq > 0
         /\ m.type = "answer" => /\ m \in Answers /\ m.request \in Fetches
                                 /\ m.epoch \in 1..Epochs /\ m.epoch \in Nat
         /\ m.type = "error" => m \in Rejected /\ m.request \in Fetches
BY Constants DEF Messages, Events, Answers, Rejected, Seqs

(* What a request is made of.                                               *)
LEMMA FetchTyped ==
  ASSUME NEW r \in Fetches
  PROVE  /\ r.dir \in {"tail", "after", "before"}
         /\ r.cursor # None => /\ r.cursor \in Positions /\ r.cursor.epoch \in Nat
                               /\ r.cursor.seq \in Nat /\ r.cursor.seq > 0
BY PositionTyped DEF Fetches

(* What TypeOK says, ready for use.                                         *)
LEMMA StateTyped ==
  ASSUME TypeOK
  PROVE  /\ epoch \in Nat /\ last \in Nat /\ epoch \in 1..Epochs /\ last \in 0..Rows
         /\ toClient \in Seq(Messages) /\ Len(toClient) \in Nat
         /\ toDaemon \in Seq(Fetches) /\ Len(toDaemon) \in Nat
         /\ \A i \in 1..Len(toClient) : toClient[i] \in Messages
         /\ \A r \in Queued : r \in Fetches
         /\ \A r \in Replied : r \in Fetches
         /\ \A r \in Answered : r \in Replied
         /\ cursor \in Ranges \cup {None}
         /\ cursor # None => /\ cursor.epoch \in Nat /\ cursor.end \in Nat /\ cursor.end > 0
                             /\ cursor.epoch \in 1..Epochs /\ cursor.end \in Seqs
                             /\ cursor.start \in Seqs /\ cursor.start \in Nat
<1>1. /\ toClient \in Seq(Messages) /\ Len(toClient) \in Nat
      /\ \A i \in 1..Len(toClient) : toClient[i] \in Messages
  BY DEF TypeOK, Messages
<1>2. \A i \in 1..Len(toDaemon) : toDaemon[i] \in Fetches
  BY DEF TypeOK
<1>3. epoch \in Nat /\ last \in Nat
  BY Constants DEF TypeOK
<1>4. \A i \in 1..Len(toClient) : Replies(toClient[i]) => toClient[i].request \in Fetches
  BY <1>1, MessageTyped DEF Replies
<1> QED
  BY <1>1, <1>2, <1>3, <1>4, RangeTyped DEF TypeOK, Queued, Replied, Answered, Replies, IsAnswer

(* A dated message tells of a row, or of the place before the first.        *)
LEMMA ToldTyped ==
  ASSUME NEW m \in Messages, Dated(m), IsAnswer(m) => AnswerShape(m)
  PROVE  /\ m.epoch \in Nat /\ m.epoch \in 1..Epochs /\ Told(m) \in Nat
         /\ m.type = "row" => Told(m) = m.seq /\ News(m) /\ Whole(m)
<1>1. CASE m.type = "row"
  BY <1>1, MessageTyped DEF Told, News, Whole
<1>2. CASE m.type = "answer"
  <2>1. m \in Answers /\ m.request \in Fetches /\ m.rows \in Seq(Seqs)
    BY <1>2, MessageTyped DEF Answers
  <2>2. m.rows # <<>> => Len(m.rows) \in 1..Len(m.rows)
    BY <2>1
  <2>3. m.rows # <<>> => m.rows[Len(m.rows)] \in Nat
    BY <2>1, <2>2, RowTyped
  <2>4. m.request.dir # "tail" => m.request.cursor # None
    BY <1>2 DEF IsAnswer, AnswerShape, AskShape
  <2> QED
    BY <1>2, <2>1, <2>3, <2>4, FetchTyped, MessageTyped DEF Told
<1> QED
  BY <1>1, <1>2 DEF Dated

(* What was pushed comes after what was under way.                          *)
LEMMA PushedIs ==
  ASSUME TypeOK, NEW ms \in Seq(Messages), toClient' = toClient \o ms
  PROVE  /\ toClient' \in Seq(Messages)
         /\ Len(toClient') = Len(toClient) + Len(ms) /\ Len(ms) \in Nat /\ Len(toClient') \in Nat
         /\ \A i \in 1..Len(toClient) : toClient'[i] = toClient[i]
         /\ \A i \in 1..Len(toClient') :
              i \notin 1..Len(toClient) =>
                i - Len(toClient) \in 1..Len(ms) /\ toClient'[i] = ms[i - Len(toClient)]
         /\ \A i \in 1..Len(ms) : toClient'[Len(toClient) + i] = ms[i]
<1>1. toClient \in Seq(Messages)
  BY StateTyped
<1>2. /\ toClient' \in Seq(Messages)
      /\ Len(toClient') = Len(toClient) + Len(ms)
      /\ \A i \in 1..Len(toClient) + Len(ms) :
           toClient'[i] = IF i <= Len(toClient) THEN toClient[i] ELSE ms[i - Len(toClient)]
  BY <1>1, ConcatProperties
<1>3. Len(toClient) \in Nat /\ Len(ms) \in Nat
  BY <1>1
<1> QED
  BY <1>2, <1>3

(* The message taken was the first.                                         *)
LEMMA TakenIs ==
  ASSUME TypeOK, toClient # <<>>, toClient' = Tail(toClient)
  PROVE  /\ toClient' \in Seq(Messages)
         /\ Head(toClient) = toClient[1] /\ Head(toClient) \in Messages
         /\ Len(toClient) \in Nat /\ Len(toClient) >= 1
         /\ Len(toClient') = Len(toClient) - 1 /\ Len(toClient') \in Nat
         /\ \A i \in 1..Len(toClient') : toClient'[i] = toClient[i + 1] /\ i + 1 \in 1..Len(toClient)
         /\ \A i \in 1..Len(toClient) : i # 1 => i - 1 \in 1..Len(toClient') /\ toClient'[i - 1] = toClient[i]
<1>1. toClient \in Seq(Messages)
  BY StateTyped
<1>2. /\ toClient' \in Seq(Messages) /\ Len(toClient') = Len(toClient) - 1
      /\ \A i \in 1..Len(toClient') : toClient'[i] = toClient[i + 1]
      /\ Head(toClient) \in Messages
  BY <1>1, HeadTailProperties
<1>3. Len(toClient) \in Nat /\ Len(toClient) >= 1 /\ Head(toClient) = toClient[1]
  BY <1>1
<1> QED
  <2>1. \A i \in 1..Len(toClient) : i # 1 => i - 1 \in 1..Len(toClient') /\ toClient'[i - 1] = toClient[(i - 1) + 1]
    BY <1>2, <1>3
  <2>2. \A i \in 1..Len(toClient) : (i - 1) + 1 = i
    BY <1>3
  <2>3. Len(toClient') \in Nat /\ \A i \in 1..Len(toClient') : i + 1 \in 1..Len(toClient)
    BY <1>2, <1>3
  <2> QED
    BY <1>2, <1>3, <2>1, <2>2, <2>3

-----------------------------------------------------------------------------
(* What is under way, and what is shown, when the log grows or is replaced  *)
(* and messages are pushed.                                                *)

Chan == Shape /\ Past /\ Ordered /\ Known

(* Messages that tell of what the log has now may be pushed.                *)
LEMMA PushChan ==
  ASSUME TypeOK, Chan, NEW ms \in Seq(Messages), toClient' = toClient \o ms,
         epoch' \in Nat, last' \in Nat, epoch <= epoch', epoch' = epoch => last <= last',
         cursor' = cursor, Queued' \subseteq Queued,
         \A i \in 1..Len(ms) : Dated(ms[i]) =>
           /\ IsAnswer(ms[i]) => AnswerShape(ms[i]) /\ ms[i].request \in Queued
           /\ ms[i].epoch = epoch'
           /\ News(ms[i]) => Told(ms[i]) <= last'
           /\ epoch' = epoch /\ Whole(ms[i]) => last <= Told(ms[i])
           /\ epoch' = epoch /\ ms[i].type = "row" => last < Told(ms[i]),
         \A i, j \in 1..Len(ms) : i < j /\ Dated(ms[i]) /\ Dated(ms[j]) /\ News(ms[i]) =>
           Beyond(epoch', Told(ms[i]), ms[j])
  PROVE  Chan'
<1> DEFINE n == Len(toClient)
<1>1. /\ Len(toClient') = n + Len(ms) /\ Len(ms) \in Nat /\ n \in Nat
      /\ \A i \in 1..n : toClient'[i] = toClient[i]
      /\ \A i \in 1..Len(toClient') : i \notin 1..n =>
           i - n \in 1..Len(ms) /\ toClient'[i] = ms[i - n]
  BY PushedIs, StateTyped
<1>2. /\ epoch \in Nat /\ last \in Nat
      /\ \A i \in 1..n : toClient[i] \in Messages
      /\ cursor # None => cursor.epoch \in Nat /\ cursor.end \in Nat
      /\ \A r \in Queued \cup Answered : r \in Fetches
  BY StateTyped
<1>3. \A r \in Queued \cup Answered : r.cursor # None => r.cursor.epoch \in Nat /\ r.cursor.seq \in Nat
  BY <1>2, FetchTyped
<1>4. \A i \in 1..n : Dated(toClient[i]) => toClient[i].epoch \in Nat /\ Told(toClient[i]) \in Nat
  BY <1>2, ToldTyped DEF Chan, Shape
<1>5. \A i \in 1..Len(ms) : Dated(ms[i]) => ms[i].epoch \in Nat /\ Told(ms[i]) \in Nat
  <2>1. \A i \in 1..Len(ms) : ms[i] \in Messages
    OBVIOUS
  <2> QED
    BY <2>1, ToldTyped
<1> HIDE DEF n
<1>6. Shape'
  <2>1. \A r \in Queued' : AskShape(r)
    BY DEF Chan, Shape
  <2>2. \A i \in 1..Len(toClient') : IsAnswer(toClient'[i]) => AnswerShape(toClient'[i])
    BY <1>1 DEF Chan, Shape, n, Dated, IsAnswer
  <2> QED
    BY <2>1, <2>2 DEF Shape
<1>7. Past'
  <2>1. \A r \in Queued' : r.cursor # None => Within(r.cursor.epoch, r.cursor.seq, epoch', last')
    BY <1>2, <1>3 DEF Chan, Past, Within
  <2>2. cursor' # None => Within(cursor'.epoch, cursor'.end, epoch', last')
    BY <1>2 DEF Chan, Past, Within
  <2>3. \A i \in 1..Len(toClient') : Dated(toClient'[i]) =>
          /\ toClient'[i].epoch <= epoch'
          /\ toClient'[i].epoch = epoch' /\ News(toClient'[i]) => Told(toClient'[i]) <= last'
    <3> SUFFICES ASSUME NEW i \in 1..Len(toClient'), Dated(toClient'[i])
                 PROVE  /\ toClient'[i].epoch <= epoch'
                        /\ toClient'[i].epoch = epoch' /\ News(toClient'[i]) =>
                             Told(toClient'[i]) <= last'
      OBVIOUS
    <3>1. CASE i \in 1..n
      <4>1. /\ toClient[i].epoch <= epoch
            /\ toClient[i].epoch = epoch /\ News(toClient[i]) => Told(toClient[i]) <= last
        BY <1>1, <3>1 DEF Chan, Past, n
      <4>2. toClient[i].epoch \in Nat /\ Told(toClient[i]) \in Nat
        BY <1>1, <1>4, <3>1
      <4>3. toClient'[i] = toClient[i]
        BY <1>1, <3>1
      <4> QED
        BY <1>2, <4>1, <4>2, <4>3
    <3>2. CASE i \notin 1..n
      BY <1>1, <3>2
    <3> QED
      BY <3>1, <3>2
  <2> QED
    BY <2>1, <2>2, <2>3 DEF Past
<1>8. Ordered'
  <2>1. ASSUME NEW i \in 1..Len(toClient'), NEW j \in 1..Len(toClient'), i < j,
               Dated(toClient'[i]), Dated(toClient'[j])
        PROVE  /\ toClient'[i].epoch <= toClient'[j].epoch
               /\ News(toClient'[i]) =>
                    Beyond(toClient'[i].epoch, Told(toClient'[i]), toClient'[j])
    <3>1. CASE j \in 1..n
      <4>1. i \in 1..n
        BY <1>1, <2>1, <3>1
      <4>2. toClient'[i] = toClient[i] /\ toClient'[j] = toClient[j]
        BY <1>1, <3>1, <4>1
      <4> QED
        BY <2>1, <3>1, <4>1, <4>2 DEF Chan, Ordered, n
    <3>2. CASE j \notin 1..n /\ i \in 1..n
      <4>1. PICK b \in 1..Len(ms) : toClient'[j] = ms[b]
        BY <1>1, <3>2
      <4>2. toClient'[i] = toClient[i] /\ Dated(toClient[i])
        BY <1>1, <2>1, <3>2
      <4>3. /\ toClient[i].epoch <= epoch
            /\ toClient[i].epoch = epoch /\ News(toClient[i]) => Told(toClient[i]) <= last
        BY <3>2, <4>2 DEF Chan, Past, n
      <4>4. toClient[i].epoch \in Nat /\ Told(toClient[i]) \in Nat
        BY <1>4, <3>2, <4>2
      <4>5. /\ Dated(ms[b]) /\ ms[b].epoch = epoch' /\ Told(ms[b]) \in Nat
            /\ epoch' = epoch /\ Whole(ms[b]) => last <= Told(ms[b])
            /\ epoch' = epoch /\ ms[b].type = "row" => last < Told(ms[b])
        BY <1>5, <2>1, <4>1
      <4>6. toClient[i].epoch <= ms[b].epoch
        BY <1>2, <4>3, <4>4, <4>5
      <4>7. News(toClient[i]) => Beyond(toClient[i].epoch, Told(toClient[i]), ms[b])
        BY <1>2, <4>3, <4>4, <4>5, <4>6 DEF Beyond
      <4> QED
        BY <4>1, <4>2, <4>6, <4>7
    <3>3. CASE j \notin 1..n /\ i \notin 1..n
      <4>1. /\ i - n \in 1..Len(ms) /\ j - n \in 1..Len(ms) /\ i - n < j - n
            /\ toClient'[i] = ms[i - n] /\ toClient'[j] = ms[j - n]
        BY <1>1, <2>1, <3>3
      <4> QED
        BY <1>5, <2>1, <4>1
    <3> QED
      BY <3>1, <3>2, <3>3
  <2>2. ASSUME NEW i \in 1..Len(toClient'), cursor' # None, Dated(toClient'[i])
        PROVE  Beyond(cursor'.epoch, cursor'.end, toClient'[i])
    <3>1. CASE i \in 1..n
      BY <1>1, <2>2, <3>1 DEF Chan, Ordered, n
    <3>2. CASE i \notin 1..n
      <4>1. PICK b \in 1..Len(ms) : toClient'[i] = ms[b]
        BY <1>1, <3>2
      <4>2. /\ Dated(ms[b]) /\ ms[b].epoch = epoch' /\ Told(ms[b]) \in Nat
            /\ epoch' = epoch /\ Whole(ms[b]) => last <= Told(ms[b])
            /\ epoch' = epoch /\ ms[b].type = "row" => last < Told(ms[b])
        BY <1>5, <2>2, <4>1
      <4>3. cursor.epoch <= epoch /\ (cursor.epoch = epoch => cursor.end <= last)
        BY <2>2 DEF Chan, Past, Within
      <4>4. Beyond(cursor.epoch, cursor.end, ms[b])
        BY <1>2, <2>2, <4>2, <4>3 DEF Beyond
      <4> QED
        BY <4>1, <4>4
    <3> QED
      BY <3>1, <3>2
  <2> QED
    BY <2>1, <2>2 DEF Ordered
<1>9. Known'
  <2>1. Queued' \cup Answered' \subseteq Queued \cup Answered
    <3>1. ASSUME NEW i \in 1..Len(toClient'), IsAnswer(toClient'[i])
          PROVE  toClient'[i].request \in Queued \cup Answered
      <4>1. CASE i \in 1..n
        BY <1>1, <3>1, <4>1 DEF Answered, n
      <4>2. CASE i \notin 1..n
        BY <1>1, <3>1, <4>2 DEF Dated, IsAnswer
      <4> QED
        BY <4>1, <4>2
    <3> QED
      BY <3>1 DEF Answered
  <2> SUFFICES ASSUME NEW r \in Queued \cup Answered, r.cursor # None
               PROVE  IF cursor = None
                      THEN /\ r.cursor.epoch < epoch'
                           /\ \A i \in 1..Len(toClient') : Dated(toClient'[i]) =>
                                r.cursor.epoch < toClient'[i].epoch
                      ELSE /\ r.cursor.epoch <= cursor.epoch
                           /\ r.cursor.epoch = cursor.epoch /\ r.dir # "before" =>
                                r.cursor.seq <= cursor.end
    BY <2>1 DEF Known
  <2>2. r.cursor.epoch \in Nat
    BY <1>3
  <2>3. CASE cursor = None
    <3>1. r.cursor.epoch < epoch
      BY <2>3 DEF Chan, Known
    <3>2. r.cursor.epoch < epoch'
      BY <1>2, <2>2, <3>1
    <3>3. \A i \in 1..Len(toClient') : Dated(toClient'[i]) => r.cursor.epoch < toClient'[i].epoch
      <4> SUFFICES ASSUME NEW i \in 1..Len(toClient'), Dated(toClient'[i])
                   PROVE  r.cursor.epoch < toClient'[i].epoch
        OBVIOUS
      <4>1. CASE i \in 1..n
        BY <1>1, <2>3, <4>1 DEF Chan, Known, n
      <4>2. CASE i \notin 1..n
        BY <1>1, <3>2, <4>2
      <4> QED
        BY <4>1, <4>2
    <3> QED
      BY <2>3, <3>2, <3>3
  <2>4. CASE cursor # None
    BY <2>4 DEF Chan, Known
  <2> QED
    BY <2>3, <2>4
<1> QED
  BY <1>6, <1>7, <1>8, <1>9 DEF Chan

(* Where the app may go with a message, and what it may ask for then.       *)
Stays == /\ cursor' = None <=> cursor = None
         /\ cursor # None => cursor'.epoch = cursor.epoch /\ cursor'.end = cursor.end
Goes(m) ==
  \/ Stays
  \/ /\ Dated(m) /\ News(m)
     /\ cursor' # None /\ cursor'.epoch = m.epoch /\ cursor'.end = Told(m)
  \/ /\ Dated(m) /\ News(m) /\ Whole(m) /\ Told(m) = 0
     /\ cursor' = None
Forward ==
  cursor # None /\ cursor' # None =>
    /\ cursor.epoch <= cursor'.epoch
    /\ cursor'.epoch = cursor.epoch => cursor.end <= cursor'.end
Fits(r) ==
  /\ r \in Fetches /\ AskShape(r)
  /\ r.cursor # None =>
       /\ cursor' # None /\ r.cursor.epoch = cursor'.epoch
       /\ r.cursor.seq <= cursor'.end

(* The first message may be taken if the view goes where it tells, or       *)
(* stays.                                                                   *)
LEMMA TakeChan ==
  ASSUME TypeOK, Chan, toClient # <<>>, toClient' = Tail(toClient),
         UNCHANGED <<epoch, last>>,
         cursor' # None => cursor'.epoch \in Nat /\ cursor'.end \in Nat,
         Goes(Head(toClient)), Forward,
         \A r \in Queued' : r \in Queued \/ Fits(r)
  PROVE  Chan'
<1> DEFINE m == Head(toClient)
           k == Len(toClient')
<1>1. /\ m = toClient[1] /\ m \in Messages /\ 1 \in 1..Len(toClient)
      /\ k \in Nat /\ Len(toClient) = k + 1
      /\ \A i \in 1..k : toClient'[i] = toClient[i + 1] /\ i + 1 \in 1..Len(toClient)
  BY TakenIs
<1>2. /\ epoch \in Nat /\ last \in Nat
      /\ \A i \in 1..Len(toClient) : toClient[i] \in Messages
      /\ cursor # None => cursor.epoch \in Nat /\ cursor.end \in Nat /\ cursor.end > 0
      /\ \A r \in Queued \cup Answered : r \in Fetches
  BY StateTyped
<1>3. \A r \in Queued \cup Answered : r.cursor # None => r.cursor.epoch \in Nat /\ r.cursor.seq \in Nat
  BY <1>2, FetchTyped
<1>4. \A i \in 1..Len(toClient) : Dated(toClient[i]) => toClient[i].epoch \in Nat /\ Told(toClient[i]) \in Nat
  BY <1>2, ToldTyped DEF Chan, Shape
<1>5. epoch' = epoch /\ last' = last
  OBVIOUS
<1>6. Dated(m) =>
        /\ m.epoch \in Nat /\ Told(m) \in Nat /\ m.epoch <= epoch
        /\ m.epoch = epoch /\ News(m) => Told(m) <= last
        /\ cursor # None => Beyond(cursor.epoch, cursor.end, m)
        /\ \A i \in 1..k : Dated(toClient[i + 1]) =>
             /\ m.epoch <= toClient[i + 1].epoch
             /\ News(m) => Beyond(m.epoch, Told(m), toClient[i + 1])
  <2> HIDE DEF m
  <2>1. ASSUME Dated(m), NEW i \in 1..k, Dated(toClient[i + 1])
        PROVE  /\ m.epoch <= toClient[i + 1].epoch
               /\ News(m) => Beyond(m.epoch, Told(m), toClient[i + 1])
    <3>1. 1 < i + 1 /\ i + 1 \in 1..Len(toClient) /\ 1 \in 1..Len(toClient)
      BY <1>1
    <3> QED
      BY <1>1, <2>1, <3>1 DEF Chan, Ordered
  <2> QED
    BY <1>1, <1>4, <2>1 DEF Chan, Past, Ordered
<1> HIDE DEF m, k
<1>7. cursor' # None => Within(cursor'.epoch, cursor'.end, epoch, last)
  BY <1>6 DEF Goes, Stays, Chan, Past, Within, m
<1>8. Shape'
  <2>1. \A r \in Queued' : AskShape(r)
    BY DEF Chan, Shape, Fits
  <2>2. \A i \in 1..Len(toClient') : IsAnswer(toClient'[i]) => AnswerShape(toClient'[i])
    BY <1>1 DEF Chan, Shape, k
  <2> QED
    BY <2>1, <2>2 DEF Shape
<1>9. Past'
  <2>1. ASSUME NEW r \in Queued', r.cursor # None
        PROVE  Within(r.cursor.epoch, r.cursor.seq, epoch, last)
    <3>1. CASE r \in Queued
      BY <2>1, <3>1 DEF Chan, Past
    <3>2. CASE Fits(r)
      <4>1. r.cursor.epoch \in Nat /\ r.cursor.seq \in Nat
        BY <2>1, <3>2, FetchTyped DEF Fits
      <4>2. /\ cursor' # None /\ r.cursor.epoch = cursor'.epoch
            /\ r.cursor.seq <= cursor'.end
        BY <2>1, <3>2 DEF Fits
      <4> QED
        BY <1>2, <1>7, <4>1, <4>2 DEF Within
    <3> QED
      BY <3>1, <3>2
  <2>2. ASSUME NEW i \in 1..Len(toClient'), Dated(toClient'[i])
        PROVE  /\ toClient'[i].epoch <= epoch
               /\ toClient'[i].epoch = epoch /\ News(toClient'[i]) => Told(toClient'[i]) <= last
    BY <1>1, <2>2 DEF Chan, Past, k
  <2> QED
    BY <1>5, <1>7, <2>1, <2>2 DEF Past
<1>10. Ordered'
  <2>1. ASSUME NEW i \in 1..Len(toClient'), NEW j \in 1..Len(toClient'), i < j,
               Dated(toClient'[i]), Dated(toClient'[j])
        PROVE  /\ toClient'[i].epoch <= toClient'[j].epoch
               /\ News(toClient'[i]) =>
                    Beyond(toClient'[i].epoch, Told(toClient'[i]), toClient'[j])
    <3>1. /\ i + 1 \in 1..Len(toClient) /\ j + 1 \in 1..Len(toClient) /\ i + 1 < j + 1
          /\ toClient'[i] = toClient[i + 1] /\ toClient'[j] = toClient[j + 1]
      BY <1>1, <2>1 DEF k
    <3> QED
      BY <2>1, <3>1 DEF Chan, Ordered
  <2>2. ASSUME NEW i \in 1..Len(toClient'), cursor' # None, Dated(toClient'[i])
        PROVE  Beyond(cursor'.epoch, cursor'.end, toClient'[i])
    <3>1. toClient'[i] = toClient[i + 1] /\ i + 1 \in 1..Len(toClient) /\ i \in 1..k
      BY <1>1 DEF k
    <3>2. CASE Stays
      BY <2>2, <3>1, <3>2 DEF Stays, Chan, Ordered
    <3>3. CASE ~Stays
      <4>1. /\ Dated(m) /\ News(m)
            /\ cursor'.epoch = m.epoch /\ cursor'.end = Told(m)
        BY <2>2, <3>3 DEF Goes, m
      <4> QED
        BY <1>6, <2>2, <3>1, <4>1
    <3> QED
      BY <3>2, <3>3
  <2> QED
    BY <2>1, <2>2 DEF Ordered
<1>11. Known'
  <2>1. \A r \in Queued' \cup Answered' : r \in Queued \cup Answered \/ Fits(r)
    <3>1. ASSUME NEW i \in 1..Len(toClient'), IsAnswer(toClient'[i])
          PROVE  toClient'[i].request \in Answered
      BY <1>1, <3>1 DEF Answered, k
    <3> QED
      BY <3>1 DEF Answered
  <2> SUFFICES ASSUME NEW r, r \in Queued \cup Answered \/ Fits(r), r.cursor # None
               PROVE  IF cursor' = None
                      THEN /\ r.cursor.epoch < epoch
                           /\ \A i \in 1..Len(toClient') : Dated(toClient'[i]) =>
                                r.cursor.epoch < toClient'[i].epoch
                      ELSE /\ r.cursor.epoch <= cursor'.epoch
                           /\ r.cursor.epoch = cursor'.epoch /\ r.dir # "before" =>
                                r.cursor.seq <= cursor'.end
    BY <1>5, <2>1 DEF Known
  <2>2. CASE Fits(r)
    BY <2>2 DEF Fits
  <2>3. CASE r \in Queued \cup Answered /\ cursor = None
    <3>1. /\ r.cursor.epoch < epoch
          /\ \A i \in 1..Len(toClient) : Dated(toClient[i]) => r.cursor.epoch < toClient[i].epoch
      BY <2>3 DEF Chan, Known
    <3>2. r.cursor.epoch \in Nat
      BY <1>3, <2>3
    <3>3. CASE cursor' = None
      BY <1>1, <3>1, <3>3 DEF k
    <3>4. CASE cursor' # None
      <4>1. Dated(m) /\ cursor'.epoch = m.epoch /\ m.epoch \in Nat
        BY <1>6, <2>3, <3>4 DEF Goes, Stays, m
      <4>2. r.cursor.epoch < m.epoch
        BY <1>1, <3>1, <4>1
      <4> QED
        BY <3>2, <3>4, <4>1, <4>2
    <3> QED
      BY <3>3, <3>4
  <2>4. CASE r \in Queued \cup Answered /\ cursor # None
    <3>1. /\ r.cursor.epoch <= cursor.epoch
          /\ r.cursor.epoch = cursor.epoch /\ r.dir # "before" => r.cursor.seq <= cursor.end
      BY <2>4 DEF Chan, Known
    <3>2. r.cursor.epoch \in Nat /\ r.cursor.seq \in Nat /\ cursor.epoch \in Nat /\ cursor.end \in Nat
      BY <1>2, <1>3, <2>4
    <3>3. CASE cursor' = None
      <4>1. /\ Dated(m) /\ News(m) /\ Whole(m) /\ Told(m) = 0 /\ m.epoch \in Nat
            /\ m.epoch <= epoch
            /\ Beyond(cursor.epoch, cursor.end, m)
        BY <1>6, <2>4, <3>3 DEF Goes, Stays, m
      <4>2. cursor.epoch < m.epoch
        BY <1>2, <2>4, <4>1 DEF Beyond
      <4>3. r.cursor.epoch < m.epoch
        BY <3>1, <3>2, <4>1, <4>2
      <4>4. r.cursor.epoch < epoch
        BY <1>2, <3>2, <4>1, <4>3
      <4>5. ASSUME NEW i \in 1..Len(toClient'), Dated(toClient'[i])
            PROVE  r.cursor.epoch < toClient'[i].epoch
        <5>1. toClient'[i] = toClient[i + 1] /\ i + 1 \in 1..Len(toClient) /\ i \in 1..k
          BY <1>1 DEF k
        <5>2. m.epoch <= toClient[i + 1].epoch /\ toClient[i + 1].epoch \in Nat
          BY <1>4, <1>6, <4>1, <4>5, <5>1
        <5> QED
          BY <3>2, <4>1, <4>3, <5>1, <5>2
      <4> QED
        BY <3>3, <4>4, <4>5
    <3>4. CASE cursor' # None
      <4>1. /\ cursor.epoch <= cursor'.epoch
            /\ cursor'.epoch = cursor.epoch => cursor.end <= cursor'.end
        BY <2>4, <3>4 DEF Forward
      <4> QED
        BY <3>1, <3>2, <3>4, <4>1
    <3> QED
      BY <3>3, <3>4
  <2> QED
    BY <2>2, <2>3, <2>4
<1> QED
  BY <1>8, <1>9, <1>10, <1>11 DEF Chan

(* A request from where the view is may be sent.                            *)
LEMMA AskChan ==
  ASSUME TypeOK, Chan, UNCHANGED <<epoch, last, toClient, cursor>>,
         \A r \in Queued' : r \in Queued \/ Fits(r)
  PROVE  Chan'
<1>1. /\ epoch \in Nat /\ last \in Nat
      /\ cursor # None => cursor.epoch \in Nat /\ cursor.end \in Nat
      /\ Answered' = Answered
  BY StateTyped DEF Answered
<1>2. Shape' /\ Ordered'
  BY DEF Chan, Shape, Ordered, Fits
<1>3. Past'
  <2>1. ASSUME NEW r \in Queued', r.cursor # None
        PROVE  Within(r.cursor.epoch, r.cursor.seq, epoch, last)
    <3>1. CASE r \in Queued
      BY <2>1, <3>1 DEF Chan, Past
    <3>2. CASE Fits(r)
      <4>1. r.cursor.epoch \in Nat /\ r.cursor.seq \in Nat
        BY <2>1, <3>2, FetchTyped DEF Fits
      <4> QED
        BY <1>1, <2>1, <3>2, <4>1 DEF Fits, Chan, Past, Within
    <3> QED
      BY <3>1, <3>2
  <2> QED
    BY <2>1 DEF Chan, Past
<1>4. Known'
  BY <1>1 DEF Chan, Known, Fits
<1> QED
  BY <1>2, <1>3, <1>4 DEF Chan

-----------------------------------------------------------------------------
(* An answer, and where it takes the app.                                  *)

(* The first row shown is not after the last.                               *)
LEMMA StartFirst ==
  ASSUME TypeOK, Ascending, cursor # None
  PROVE  cursor.start <= cursor.end
<1>1. /\ shown \in Seq(Lines) /\ shown # <<>> /\ Len(shown) \in Nat /\ Len(shown) >= 1
      /\ shown[1] = <<cursor.epoch, cursor.start>>
      /\ shown[Len(shown)] = <<cursor.epoch, cursor.end>>
      /\ \A i \in 2..Len(shown) : shown[i - 1][2] < shown[i][2]
      /\ cursor.start \in Nat /\ cursor.end \in Nat
  BY StateTyped DEF TypeOK, Ascending, Lines
<1>2. \A i \in 1..Len(shown) : shown[i][2] \in Nat
  <2>1. \A i \in 1..Len(shown) : shown[i] \in Lines
    BY <1>1
  <2> QED
    BY <2>1, SeqsNat DEF Lines
<1> DEFINE T == {i \in 1..Len(shown) : shown[i][2] < cursor.start}
<1>3. T = {}
  <2> SUFFICES ASSUME T # {} PROVE FALSE
    OBVIOUS
  <2>1. T \in SUBSET Nat
    BY <1>1
  <2>2. PICK n \in T : \A i \in T : n <= i
    <3> HIDE DEF T
    <3> QED
      BY <2>1, LeastNat
  <2>3. n \in 1..Len(shown) /\ shown[n][2] < cursor.start /\ n # 1
    BY <1>1, <2>2
  <2>4. n \in 2..Len(shown) /\ n - 1 \in 1..Len(shown) /\ n - 1 < n
    BY <1>1, <2>3
  <2>5. n - 1 \in T
    <3>1. shown[n - 1][2] < shown[n][2]
      BY <1>1, <2>4
    <3>2. \A a, b, c \in Nat : a < b /\ b < c => a < c
      OBVIOUS
    <3>3. shown[n - 1][2] \in Nat /\ shown[n][2] \in Nat
      BY <1>2, <2>3, <2>4
    <3>4. shown[n - 1][2] < cursor.start
      BY <1>1, <2>3, <3>1, <3>2, <3>3
    <3> QED
      BY <2>4, <3>4
  <2> QED
    BY <2>2, <2>4, <2>5
<1> QED
  <2>1. Len(shown) \in 1..Len(shown) /\ Len(shown) \notin T
    BY <1>1, <1>3
  <2> QED
    BY <1>1, <2>1

(* What is known of an answer when it is taken.                             *)
LEMMA HeadAnswer ==
  ASSUME TypeOK, Chan, toClient # <<>>, NEW m, m = Head(toClient), m.type = "answer"
  PROVE  /\ m \in Answers /\ AnswerShape(m) /\ Ascends(m.rows) /\ m.request \in Fetches
         /\ m.epoch \in Nat /\ m.epoch \in 1..Epochs /\ Told(m) \in Nat
         /\ m.rows # <<>> => Told(m) = m.rows[Len(m.rows)] /\ Told(m) > 0 /\ Told(m) \in Seqs
                             /\ Len(m.rows) # 0
         /\ m.rows = <<>> => Len(m.rows) = 0
         /\ cursor # None => Beyond(cursor.epoch, cursor.end, m)
         /\ m.request \in Answered
         /\ m.request.cursor # None =>
              IF cursor = None THEN m.request.cursor.epoch < m.epoch
              ELSE /\ m.request.cursor.epoch <= cursor.epoch
                   /\ m.request.cursor.epoch = cursor.epoch /\ m.request.dir # "before" =>
                        m.request.cursor.seq <= cursor.end
<1>1. m = toClient[1] /\ 1 \in 1..Len(toClient) /\ m \in Messages
  <2>1. toClient \in Seq(Messages)
    BY StateTyped
  <2> QED
    BY <2>1
<1>2. m \in Answers /\ AnswerShape(m) /\ IsAnswer(m) /\ Dated(m)
  BY <1>1, MessageTyped DEF Chan, Shape, IsAnswer, Dated
<1>3. m.epoch \in Nat /\ m.epoch \in 1..Epochs /\ Told(m) \in Nat
  BY <1>1, <1>2, ToldTyped
<1>4. Ascends(m.rows)
  BY <1>2 DEF AnswerShape, Ascends
<1>5. /\ m.rows # <<>> => Told(m) = m.rows[Len(m.rows)] /\ Told(m) > 0 /\ Told(m) \in Seqs
                          /\ Len(m.rows) # 0
      /\ m.rows = <<>> => Len(m.rows) = 0
  <2>1. m.rows \in Seq(Seqs)
    BY <1>2 DEF Answers
  <2>2. m.rows # <<>> => Len(m.rows) \in 1..Len(m.rows) /\ Len(m.rows) # 0
    BY <2>1
  <2>3. m.rows # <<>> => Told(m) = m.rows[Len(m.rows)]
    BY <1>2 DEF Told, IsAnswer
  <2> QED
    BY <1>2, <2>1, <2>2, <2>3, RowTyped
<1>6. m.request \in Answered /\ m.request \in Fetches
  BY <1>1, <1>2, MessageTyped DEF Answered, IsAnswer
<1>7. cursor # None => Beyond(cursor.epoch, cursor.end, m)
  BY <1>1, <1>2 DEF Chan, Ordered
<1>8. m.request.cursor # None =>
        IF cursor = None THEN m.request.cursor.epoch < m.epoch
        ELSE /\ m.request.cursor.epoch <= cursor.epoch
             /\ m.request.cursor.epoch = cursor.epoch /\ m.request.dir # "before" =>
                  m.request.cursor.seq <= cursor.end
  BY <1>1, <1>2, <1>6 DEF Chan, Known
<1> QED
  BY <1>2, <1>3, <1>4, <1>5, <1>6, <1>7, <1>8

(* The rows of an answer that is complete are shown, unless it was ignored. *)
Reaches(m) ==
  \/ Told(m) = 0 /\ cursor' = None
  \/ Told(m) > 0 /\ cursor' # None /\ cursor'.epoch = m.epoch /\ Told(m) <= cursor'.end

(* Where an answer takes the view: to what it tells if it is whole and      *)
(* not ignored, and never back.                                             *)
LEMMA AppliedIs ==
  ASSUME TypeOK, Ascending, Chan, toClient # <<>>, NEW m, m = Head(toClient),
         m.type = "answer", NEW a, a = Applied(m), cursor' = a.cursor
  PROVE  /\ a.cursor \in Ranges \cup {None} /\ a.shown \in Seq(Lines)
         /\ InOrder(a.cursor, a.shown)
         /\ Goes(m) /\ Forward
         /\ a.gap \in BOOLEAN
         /\ a.gap => m.request.dir = "tail" /\ cursor' # None
         /\ PageEnd(m) # None => /\ PageEnd(m) = Position(m.epoch, Told(m)) /\ Told(m) \in Seqs
                                 /\ cursor' # None /\ cursor'.epoch = m.epoch
                                 /\ Told(m) <= cursor'.end
                                 /\ m.request.dir = "after" => Told(m) > m.request.cursor.seq
         /\ m.request.dir # "before" /\ ~a.gap /\ ~Ignored(m) /\ Whole(m) => Reaches(m)
         /\ m.reset => Goes(m) /\ Reaches(m)
         /\ m.request.dir = "before" /\ ~m.reset => Stays
<1>1. /\ m \in Answers /\ AnswerShape(m) /\ Ascends(m.rows) /\ m.request \in Fetches
      /\ m.epoch \in Nat /\ m.epoch \in 1..Epochs /\ Told(m) \in Nat
      /\ m.rows # <<>> => Told(m) = m.rows[Len(m.rows)] /\ Told(m) > 0 /\ Told(m) \in Seqs
                          /\ Len(m.rows) # 0
      /\ m.rows = <<>> => Len(m.rows) = 0
      /\ cursor # None => Beyond(cursor.epoch, cursor.end, m)
      /\ m.request.cursor # None =>
           IF cursor = None THEN m.request.cursor.epoch < m.epoch
           ELSE /\ m.request.cursor.epoch <= cursor.epoch
                /\ m.request.cursor.epoch = cursor.epoch /\ m.request.dir # "before" =>
                     m.request.cursor.seq <= cursor.end
  BY HeadAnswer
<1>2. /\ cursor # None => cursor.epoch \in Nat /\ cursor.end \in Nat /\ cursor.end > 0
      /\ m.request.dir \in {"tail", "after", "before"}
      /\ m.request.cursor # None => m.request.cursor.epoch \in Nat /\ m.request.cursor.seq \in Nat
      /\ m.reset \in BOOLEAN /\ m.hasNewer \in BOOLEAN
  BY <1>1, StateTyped, FetchTyped DEF Answers
<1>3. IsAnswer(m) /\ Dated(m)
  BY DEF IsAnswer, Dated
<1>4. CASE Replaces(m)
  <2>1. /\ a = Replaced(m)
        /\ a.cursor \in Ranges \cup {None} /\ a.shown \in Seq(Lines)
        /\ InOrder(a.cursor, a.shown) /\ a.gap = FALSE
        /\ m.rows = <<>> => cursor' = None
        /\ m.rows # <<>> => cursor' # None /\ cursor'.epoch = m.epoch /\ cursor'.end = Told(m)
    BY <1>1, <1>4, ReplacedIs DEF Applied
  <2>2. News(m) /\ Whole(m) /\ (m.rows = <<>> => Told(m) = 0)
    BY <1>1, <1>2, <1>3, <1>4 DEF Replaces, Bootstraps, News, Whole, AnswerShape, Told, IsAnswer
  <2>3. Goes(m) /\ Reaches(m)
    BY <1>1, <1>3, <2>1, <2>2 DEF Goes, Reaches
  <2>4. Forward
    BY <1>1, <1>2, <2>1, <2>2 DEF Forward, Beyond
  <2>5. PageEnd(m) # None => /\ PageEnd(m) = Position(m.epoch, Told(m)) /\ Told(m) \in Seqs
                             /\ cursor' # None /\ cursor'.epoch = m.epoch
                             /\ Told(m) <= cursor'.end
                             /\ m.request.dir = "after" => Told(m) > m.request.cursor.seq
    <3> SUFFICES ASSUME PageEnd(m) # None
                 PROVE  /\ PageEnd(m) = Position(m.epoch, Told(m)) /\ m.rows # <<>>
                        /\ m.request.dir # "after"
      BY <1>1, <2>1
    <3>1. m.rows # <<>> /\ PageEnd(m) = Position(m.epoch, m.rows[Len(m.rows)])
      BY DEF PageEnd
    <3>2. Incomplete(m) \/ ~m.reset
      BY DEF PageEnd
    <3>3. m.request.dir # "after"
      BY <1>1, <1>4, <2>2, <3>2 DEF Incomplete, Replaces, Bootstraps, Whole, News, AnswerShape, IsAnswer
    <3> QED
      BY <1>1, <3>1, <3>3
  <2>6. m.request.dir = "before" => m.reset
    BY <1>4 DEF Replaces, Bootstraps
  <2> QED
    BY <2>1, <2>3, <2>4, <2>5, <2>6
<1>5. CASE ~Replaces(m) /\ m.request.dir = "before"
  <2>1. a = AcceptOlder(m)
    BY <1>5 DEF Applied
  <2>2. /\ a.cursor \in Ranges \cup {None} /\ a.shown \in Seq(Lines)
        /\ InOrder(a.cursor, a.shown) /\ a.gap = FALSE
        /\ a.cursor = None <=> cursor = None
        /\ cursor # None => a.cursor.epoch = cursor.epoch /\ a.cursor.end = cursor.end
    BY <1>1, <2>1, OlderIs
  <2>3. Stays /\ Goes(m) /\ Forward
    BY <1>2, <2>2 DEF Stays, Goes, Forward
  <2>4. PageEnd(m) = None
    BY <1>5 DEF PageEnd, Incomplete, Replaces
  <2>5. ~m.reset
    BY <1>5 DEF Replaces
  <2> QED
    BY <1>5, <2>2, <2>3, <2>4, <2>5
<1>6. CASE ~Replaces(m) /\ m.request.dir # "before"
  <2>1. a = AcceptNewer(m) /\ ~m.reset
    BY <1>6 DEF Applied, Replaces
  <2> DEFINE n == Len(m.rows)
  <2>2. After(m, a, n)
    BY <1>1, <2>1, NewerIs
  <2>3. /\ a \in States /\ InOrder(a.cursor, a.shown)
        /\ n = 0 => a.cursor = cursor /\ a.gap = FALSE
        /\ cursor = None /\ n # 0 =>
             cursor' # None /\ cursor'.epoch = m.epoch /\ cursor'.end = m.rows[n] /\ ~a.gap
        /\ cursor # None =>
             /\ cursor' # None /\ cursor'.epoch = cursor.epoch
             /\ cursor.epoch # m.epoch => cursor'.end = cursor.end /\ ~a.gap
             /\ cursor.epoch = m.epoch /\ n # 0 =>
                  IF m.rows[1] > cursor.end + 1 THEN a.gap /\ cursor'.end = cursor.end
                  ELSE /\ ~a.gap
                       /\ cursor'.end = IF m.rows[n] > cursor.end THEN m.rows[n] ELSE cursor.end
    BY <2>2 DEF After, Shown
  <2>4. News(m)
    BY <1>3, <1>6 DEF News
  <2>5. /\ a.cursor \in Ranges \cup {None} /\ a.shown \in Seq(Lines) /\ a.gap \in BOOLEAN
    BY <2>3 DEF States
  <2>6. Goes(m) /\ Forward
    BY <1>1, <1>2, <1>3, <2>3, <2>4 DEF Goes, Stays, Forward
  \* A request after the cursor is answered from where the app is, or with a reset.
  <2>7. m.request.dir = "after" =>
          /\ cursor # None
          /\ m.request.cursor # None /\ m.request.cursor.epoch = m.epoch
          /\ cursor.epoch = m.epoch /\ m.request.cursor.seq <= cursor.end
          /\ m.rows # <<>> => m.rows[1] = m.request.cursor.seq + 1
    <3> SUFFICES ASSUME m.request.dir = "after"
                 PROVE  /\ cursor # None
                        /\ m.request.cursor # None /\ m.request.cursor.epoch = m.epoch
                        /\ cursor.epoch = m.epoch /\ m.request.cursor.seq <= cursor.end
                        /\ m.rows # <<>> => m.rows[1] = m.request.cursor.seq + 1
      OBVIOUS
    <3>1. /\ m.request.cursor # None
          /\ m.request.cursor.epoch <= m.epoch /\ ~(m.request.cursor.epoch < m.epoch)
          /\ m.rows # <<>> => m.rows[1] = m.request.cursor.seq + 1
      BY <1>1, <2>1 DEF AnswerShape, AskShape
    <3>2. m.request.cursor.epoch = m.epoch
      BY <1>1, <1>2, <3>1
    <3>3. cursor # None
      BY <1>1, <1>2, <3>1, <3>2
    <3>4. cursor.epoch <= m.epoch
      BY <1>1, <3>3 DEF Beyond
    <3>5. cursor.epoch = m.epoch
      BY <1>1, <1>2, <3>1, <3>2, <3>3, <3>4
    <3> QED
      BY <1>1, <3>1, <3>2, <3>3, <3>5
  <2>8. a.gap => m.request.dir = "tail" /\ cursor' # None
    <3> SUFFICES ASSUME a.gap PROVE m.request.dir = "tail" /\ cursor' # None
      OBVIOUS
    <3>1. n # 0 /\ cursor # None /\ cursor.epoch = m.epoch /\ m.rows[1] > cursor.end + 1
      BY <1>2, <2>3
    <3>2. m.rows # <<>>
      BY <1>1, <3>1
    <3>3. m.request.dir # "after"
      BY <1>2, <2>7, <3>1, <3>2
    <3> QED
      BY <1>2, <1>6, <2>3, <3>1, <3>3
  <2>9. PageEnd(m) # None => /\ PageEnd(m) = Position(m.epoch, Told(m)) /\ Told(m) \in Seqs
                             /\ cursor' # None /\ cursor'.epoch = m.epoch
                             /\ Told(m) <= cursor'.end
                             /\ m.request.dir = "after" => Told(m) > m.request.cursor.seq
    <3> SUFFICES ASSUME PageEnd(m) # None
                 PROVE  /\ PageEnd(m) = Position(m.epoch, Told(m)) /\ Told(m) \in Seqs
                        /\ cursor' # None /\ cursor'.epoch = m.epoch
                        /\ Told(m) <= cursor'.end
                        /\ m.request.dir = "after" => Told(m) > m.request.cursor.seq
      OBVIOUS
    <3>1. m.rows # <<>> /\ PageEnd(m) = Position(m.epoch, m.rows[Len(m.rows)])
      BY DEF PageEnd
    <3>2. m.request.dir = "after"
      BY <1>6 DEF PageEnd, Incomplete
    <3>3. /\ cursor # None /\ cursor.epoch = m.epoch /\ m.request.cursor.seq <= cursor.end
          /\ m.rows[1] = m.request.cursor.seq + 1 /\ m.request.cursor.seq \in Nat
      BY <1>2, <2>7, <3>1, <3>2
    <3>4. ~(m.rows[1] > cursor.end + 1)
      BY <1>2, <3>3
    <3>5. cursor' # None /\ cursor'.epoch = m.epoch /\ Told(m) <= cursor'.end
      BY <1>1, <1>2, <2>3, <3>1, <3>3, <3>4
    <3>6. Told(m) > m.request.cursor.seq
      <4>1. n \in 1..n /\ n \in Nat
        BY <1>1, <3>1 DEF Answers
      <4>2. m.rows[n] = m.rows[1] + n - 1
        BY <1>1, <4>1 DEF Ascends
      <4> HIDE DEF n
      <4> QED
        BY <1>1, <3>1, <3>3, <4>1, <4>2 DEF n
    <3> QED
      BY <1>1, <3>1, <3>5, <3>6
  <2>10. ~a.gap /\ ~Ignored(m) /\ Whole(m) => Reaches(m)
    <3> SUFFICES ASSUME ~a.gap, ~Ignored(m), Whole(m) PROVE Reaches(m)
      OBVIOUS
    <3>1. cursor # None => cursor.epoch = m.epoch /\ cursor.end <= Told(m)
      BY <1>1, <1>6 DEF Ignored, Beyond
    <3>2. CASE m.rows # <<>>
      BY <1>1, <1>2, <2>3, <3>1, <3>2 DEF Reaches
    <3>3. CASE m.rows = <<>> /\ m.request.dir = "tail"
      <4>1. Told(m) = 0
        BY <1>3, <3>3 DEF Told, IsAnswer
      <4>2. cursor = None
        BY <1>2, <3>1, <4>1
      <4> QED
        BY <1>1, <2>3, <3>3, <4>1, <4>2 DEF Reaches
    <3>4. CASE m.rows = <<>> /\ m.request.dir = "after"
      <4>1. Told(m) = m.request.cursor.seq
        BY <1>3, <2>1, <3>4 DEF Told, IsAnswer
      <4>2. cursor # None /\ cursor.epoch = m.epoch /\ Told(m) <= cursor.end
        BY <2>7, <3>4, <4>1
      <4>3. Told(m) > 0
        BY <1>1, <1>2, <3>1, <4>2
      <4> QED
        BY <1>1, <2>3, <3>4, <4>2, <4>3 DEF Reaches
    <3> QED
      BY <1>2, <1>6, <3>2, <3>3, <3>4
  <2> QED
    BY <1>6, <2>1, <2>3, <2>5, <2>6, <2>8, <2>9, <2>10
<1> QED
  BY <1>4, <1>5, <1>6

-----------------------------------------------------------------------------
(* Requests on their way.                                                  *)

Waiting == Queued \cup Replied
Next1(at) == Request("after", at, Page, TRUE)

(* A push appends when there is a connection, and else does nothing.        *)
LEMMA PushIs ==
  ASSUME TypeOK, NEW ms \in Seq(Messages), Push(ms)
  PROVE  \E qs \in Seq(Messages) :
           /\ toClient' = toClient \o qs
           /\ qs = IF online THEN ms ELSE <<>>
<1>1. CASE online
  BY <1>1 DEF Push
<1>2. CASE ~online
  <2>1. toClient \o <<>> = toClient /\ <<>> \in Seq(Messages)
    BY StateTyped, ConcatEmptySeq
  <2> QED
    BY <1>2, <2>1 DEF Push
<1> QED
  BY <1>1, <1>2

(* A push adds the replies it has.                                          *)
LEMMA PushedReplies ==
  ASSUME TypeOK, NEW ms \in Seq(Messages), toClient' = toClient \o ms
  PROVE  /\ Replied \subseteq Replied'
         /\ \A r \in Replied' : r \in Replied \/ \E i \in 1..Len(ms) : Replies(ms[i]) /\ r = ms[i].request
         /\ \A i \in 1..Len(ms) : Replies(ms[i]) => ms[i].request \in Replied'
<1>1. /\ Len(toClient') = Len(toClient) + Len(ms) /\ Len(ms) \in Nat /\ Len(toClient) \in Nat
      /\ \A i \in 1..Len(toClient) : toClient'[i] = toClient[i]
      /\ \A i \in 1..Len(toClient') : i \notin 1..Len(toClient) =>
           i - Len(toClient) \in 1..Len(ms) /\ toClient'[i] = ms[i - Len(toClient)]
      /\ \A i \in 1..Len(ms) : toClient'[Len(toClient) + i] = ms[i]
  BY PushedIs, StateTyped
<1>2. ASSUME NEW i \in 1..Len(toClient), Replies(toClient[i])
      PROVE  toClient[i].request \in Replied'
  <2>1. i \in 1..Len(toClient') /\ toClient'[i] = toClient[i]
    BY <1>1
  <2> QED
    BY <1>2, <2>1 DEF Replied
<1>3. ASSUME NEW i \in 1..Len(ms), Replies(ms[i])
      PROVE  ms[i].request \in Replied'
  <2>1. Len(toClient) + i \in 1..Len(toClient') /\ toClient'[Len(toClient) + i] = ms[i]
    BY <1>1
  <2> QED
    BY <1>3, <2>1 DEF Replied
<1>4. ASSUME NEW i \in 1..Len(toClient'), Replies(toClient'[i])
      PROVE  \/ toClient'[i].request \in Replied
             \/ \E j \in 1..Len(ms) : Replies(ms[j]) /\ toClient'[i].request = ms[j].request
  <2>1. CASE i \in 1..Len(toClient)
    BY <1>1, <1>4, <2>1 DEF Replied
  <2>2. CASE i \notin 1..Len(toClient)
    BY <1>1, <1>4, <2>2
  <2> QED
    BY <2>1, <2>2
<1> QED
  BY <1>2, <1>3, <1>4 DEF Replied

(* Taking a message removes no reply but its own.                           *)
LEMMA TakenReplies ==
  ASSUME TypeOK, toClient # <<>>, toClient' = Tail(toClient)
  PROVE  /\ Replied' \subseteq Replied
         /\ \A r \in Replied : r \in Replied' \/ (Replies(Head(toClient)) /\ r = Head(toClient).request)
         /\ Replies(Head(toClient)) => Head(toClient).request \in Replied
<1>1. /\ Head(toClient) = toClient[1] /\ 1 \in 1..Len(toClient)
      /\ \A i \in 1..Len(toClient') : toClient'[i] = toClient[i + 1] /\ i + 1 \in 1..Len(toClient)
      /\ \A i \in 1..Len(toClient) : i # 1 => i - 1 \in 1..Len(toClient') /\ toClient'[i - 1] = toClient[i]
  BY TakenIs
<1>2. ASSUME NEW i \in 1..Len(toClient), i # 1, Replies(toClient[i])
      PROVE  toClient[i].request \in Replied'
  <2>1. i - 1 \in 1..Len(toClient') /\ toClient'[i - 1] = toClient[i]
    BY <1>1, <1>2
  <2> QED
    BY <1>2, <2>1 DEF Replied
<1>3. ASSUME NEW i \in 1..Len(toClient'), Replies(toClient'[i])
      PROVE  toClient'[i].request \in Replied
  BY <1>1, <1>3 DEF Replied
<1> QED
  BY <1>1, <1>2, <1>3 DEF Replied

(* Reading a request leaves the others.                                     *)
LEMMA QueueTail ==
  ASSUME TypeOK, toDaemon # <<>>, toDaemon' = Tail(toDaemon)
  PROVE  /\ toDaemon' \in Seq(Fetches) /\ Queued' \subseteq Queued
         /\ Head(toDaemon) \in Queued /\ Head(toDaemon) \in Fetches
         /\ \A r \in Queued : r \in Queued' \/ r = Head(toDaemon)
<1>1. toDaemon \in Seq(Fetches)
  BY StateTyped
<1>2. /\ toDaemon' \in Seq(Fetches) /\ Len(toDaemon') = Len(toDaemon) - 1
      /\ \A i \in 1..Len(toDaemon') : toDaemon'[i] = toDaemon[i + 1]
  BY <1>1, HeadTailProperties
<1>3. Len(toDaemon) \in Nat /\ Len(toDaemon) >= 1 /\ Head(toDaemon) = toDaemon[1] /\ 1 \in 1..Len(toDaemon)
  BY <1>1
<1>4. ASSUME NEW i \in 1..Len(toDaemon') PROVE toDaemon'[i] \in Queued
  <2>1. i + 1 \in 1..Len(toDaemon)
    BY <1>2, <1>3
  <2> QED
    BY <1>2, <2>1 DEF Queued
<1>5. ASSUME NEW i \in 1..Len(toDaemon), i # 1 PROVE toDaemon[i] \in Queued'
  <2>1. i - 1 \in 1..Len(toDaemon') /\ (i - 1) + 1 = i
    BY <1>2, <1>3, <1>5
  <2>2. toDaemon'[i - 1] = toDaemon[i]
    BY <1>2, <2>1
  <2> QED
    BY <2>1, <2>2 DEF Queued
<1>6. /\ Queued = {toDaemon[i] : i \in 1..Len(toDaemon)}
      /\ Queued' = {toDaemon'[i] : i \in 1..Len(toDaemon')}
  BY DEF Queued
<1>7. Queued' \subseteq Queued
  BY <1>4, <1>6
<1>8. \A r \in Queued : r \in Queued' \/ r = Head(toDaemon)
  BY <1>3, <1>5, <1>6
<1>9. Head(toDaemon) \in Queued /\ Head(toDaemon) \in Fetches
  BY <1>1, <1>3, <1>6
<1> QED
  BY <1>2, <1>7, <1>8, <1>9

(* Requests sent are added to those waiting.                                *)
LEMMA AskIs ==
  ASSUME TypeOK, NEW rs \in Seq(Fetches), toDaemon' = toDaemon \o rs
  PROVE  /\ toDaemon' \in Seq(Fetches) /\ Queued \subseteq Queued'
         /\ \A r \in Queued' : r \in Queued \/ \E i \in 1..Len(rs) : r = rs[i]
         /\ \A i \in 1..Len(rs) : rs[i] \in Queued'
<1>1. toDaemon \in Seq(Fetches)
  BY StateTyped
<1>2. /\ toDaemon' \in Seq(Fetches)
      /\ Len(toDaemon') = Len(toDaemon) + Len(rs)
      /\ \A i \in 1..Len(toDaemon) + Len(rs) :
           toDaemon'[i] = IF i <= Len(toDaemon) THEN toDaemon[i] ELSE rs[i - Len(toDaemon)]
  BY <1>1, ConcatProperties
<1>3. Len(toDaemon) \in Nat /\ Len(rs) \in Nat
  BY <1>1
<1>4. ASSUME NEW i \in 1..Len(toDaemon) PROVE toDaemon[i] \in Queued'
  <2>1. i \in 1..Len(toDaemon') /\ toDaemon'[i] = toDaemon[i]
    BY <1>2, <1>3
  <2> QED
    BY <2>1 DEF Queued
<1>5. ASSUME NEW i \in 1..Len(rs) PROVE rs[i] \in Queued'
  <2>1. Len(toDaemon) + i \in 1..Len(toDaemon') /\ ~(Len(toDaemon) + i <= Len(toDaemon))
        /\ (Len(toDaemon) + i) - Len(toDaemon) = i
    BY <1>2, <1>3
  <2>2. toDaemon'[Len(toDaemon) + i] = rs[i]
    BY <1>2, <2>1
  <2> QED
    BY <2>1, <2>2 DEF Queued
<1>6. ASSUME NEW i \in 1..Len(toDaemon')
      PROVE  toDaemon'[i] \in Queued \/ \E j \in 1..Len(rs) : toDaemon'[i] = rs[j]
  <2>1. CASE i <= Len(toDaemon)
    BY <1>2, <1>3, <2>1 DEF Queued
  <2>2. CASE ~(i <= Len(toDaemon))
    <3>1. i - Len(toDaemon) \in 1..Len(rs) /\ toDaemon'[i] = rs[i - Len(toDaemon)]
      BY <1>2, <1>3, <2>2
    <3> QED
      BY <3>1
  <2> QED
    BY <2>1, <2>2
<1>7. /\ Queued = {toDaemon[i] : i \in 1..Len(toDaemon)}
      /\ Queued' = {toDaemon'[i] : i \in 1..Len(toDaemon')}
  BY DEF Queued
<1>8. Queued \subseteq Queued'
  BY <1>4, <1>7
<1>9. \A r \in Queued' : r \in Queued \/ \E i \in 1..Len(rs) : r = rs[i]
  BY <1>6, <1>7
<1> QED
  BY <1>2, <1>5, <1>8, <1>9

(* One request sent is added to those waiting.                              *)
LEMMA AskOne ==
  ASSUME TypeOK, NEW r \in Fetches, toDaemon' = Append(toDaemon, r)
  PROVE  /\ toDaemon' \in Seq(Fetches)
         /\ Queued \subseteq Queued' /\ r \in Queued'
         /\ \A q \in Queued' : q \in Queued \/ q = r
<1>1. toDaemon \in Seq(Fetches)
  BY StateTyped
<1>2. <<r>> \in Seq(Fetches) /\ Len(<<r>>) = 1 /\ <<r>>[1] = r /\ 1 \in 1..1
  OBVIOUS
<1>3. toDaemon' = toDaemon \o <<r>>
  BY <1>1
<1>4. /\ toDaemon' \in Seq(Fetches) /\ Queued \subseteq Queued'
      /\ \A q \in Queued' : q \in Queued \/ \E i \in 1..1 : q = <<r>>[i]
      /\ \A i \in 1..1 : <<r>>[i] \in Queued'
  BY <1>2, <1>3, AskIs
<1> QED
  <2>1. \A i \in 1..1 : <<r>>[i] = r
    OBVIOUS
  <2> QED
    BY <1>2, <1>4, <2>1

(* A catch-up request is sent unless one for that position counts as        *)
(* under way.                                                               *)
LEMMA SentIs ==
  ASSUME NEW at \in Positions \cup {None}
  PROVE  /\ Sent(at) \in Seq(Fetches)
         /\ \A i \in 1..Len(Sent(at)) : at # None /\ Sent(at)[i] = Next1(at)
         /\ at # None => \/ CatchUp(at) \in inFlight
                         \/ Sent(at) = <<Next1(at)>> /\ Len(Sent(at)) = 1 /\ Sent(at)[1] = Next1(at)
         /\ at # None => /\ Next1(at) \in Fetches /\ Key(Next1(at)) = CatchUp(at)
                         /\ AskShape(Next1(at))
                         /\ Next1(at).dir = "after" /\ Next1(at).cursor = at /\ Next1(at).tracked
                         /\ CatchUp(at) \in [dir : {"after", "before"}, cursor : Positions]
<1>1. CASE at = None \/ CatchUp(at) \in inFlight
  <2>1. Sent(at) = <<>>
    BY <1>1 DEF Sent
  <2> QED
    BY <1>1, <2>1 DEF Next1, Request, Key, CatchUp, Fetches, AskShape
<1>2. CASE ~(at = None \/ CatchUp(at) \in inFlight)
  <2>1. Sent(at) = <<Next1(at)>>
    BY <1>2 DEF Sent, Next1
  <2>2. Next1(at) \in Fetches /\ Key(Next1(at)) = CatchUp(at)
        /\ AskShape(Next1(at))
        /\ Next1(at).dir = "after" /\ Next1(at).cursor = at /\ Next1(at).tracked
        /\ CatchUp(at) \in [dir : {"after", "before"}, cursor : Positions]
    BY <1>2 DEF Next1, Request, Key, CatchUp, Fetches, AskShape
  <2> HIDE DEF Next1
  <2>3. Len(Sent(at)) = 1 /\ Sent(at)[1] = Next1(at) /\ Sent(at) \in Seq(Fetches)
    BY <2>1, <2>2
  <2> QED
    BY <1>2, <2>1, <2>2, <2>3
<1> QED
  BY <1>1, <1>2

(* Catch-up after a gap and after a page.                                   *)
LEMMA CatchUpIs ==
  ASSUME TypeOK, NEW p \in Positions \cup {None}, NEW q \in Positions \cup {None},
         toDaemon' = toDaemon \o Sent(p) \o Sent(q)
  PROVE  /\ toDaemon' \in Seq(Fetches) /\ Queued \subseteq Queued'
         /\ \A r \in Queued' : \/ r \in Queued
                               \/ p # None /\ r = Next1(p)
                               \/ q # None /\ r = Next1(q)
         /\ p # None => CatchUp(p) \in inFlight \/ Next1(p) \in Queued'
         /\ q # None => CatchUp(q) \in inFlight \/ Next1(q) \in Queued'
<1> DEFINE rs == Sent(p) \o Sent(q)
<1>1. toDaemon \in Seq(Fetches) /\ Sent(p) \in Seq(Fetches) /\ Sent(q) \in Seq(Fetches)
  BY StateTyped, SentIs
<1>2. toDaemon' = toDaemon \o rs
  BY <1>1, ConcatAssociative
<1>3. /\ rs \in Seq(Fetches) /\ Len(rs) = Len(Sent(p)) + Len(Sent(q))
      /\ \A i \in 1..Len(Sent(p)) + Len(Sent(q)) :
           rs[i] = IF i <= Len(Sent(p)) THEN Sent(p)[i] ELSE Sent(q)[i - Len(Sent(p))]
  BY <1>1, ConcatProperties
<1>4. Len(Sent(p)) \in Nat /\ Len(Sent(q)) \in Nat
  BY <1>1
<1> HIDE DEF rs
<1>5. \A i \in 1..Len(rs) : (p # None /\ rs[i] = Next1(p)) \/ (q # None /\ rs[i] = Next1(q))
  <2> SUFFICES ASSUME NEW i \in 1..Len(rs)
               PROVE  (p # None /\ rs[i] = Next1(p)) \/ (q # None /\ rs[i] = Next1(q))
    OBVIOUS
  <2>1. CASE i <= Len(Sent(p))
    <3>1. i \in 1..Len(Sent(p)) /\ rs[i] = Sent(p)[i]
      BY <1>3, <1>4, <2>1
    <3> QED
      BY <3>1, SentIs
  <2>2. CASE ~(i <= Len(Sent(p)))
    <3>1. i - Len(Sent(p)) \in 1..Len(Sent(q)) /\ rs[i] = Sent(q)[i - Len(Sent(p))]
      BY <1>3, <1>4, <2>2
    <3> QED
      BY <3>1, SentIs
  <2> QED
    BY <2>1, <2>2
<1>6. p # None => CatchUp(p) \in inFlight \/ \E i \in 1..Len(rs) : rs[i] = Next1(p)
  <2> SUFFICES ASSUME p # None, CatchUp(p) \notin inFlight
               PROVE  1 \in 1..Len(rs) /\ rs[1] = Next1(p)
    OBVIOUS
  <2>1. Len(Sent(p)) = 1 /\ Sent(p)[1] = Next1(p)
    BY SentIs
  <2> QED
    BY <1>3, <1>4, <2>1
<1>7. q # None => CatchUp(q) \in inFlight \/ \E i \in 1..Len(rs) : rs[i] = Next1(q)
  <2> SUFFICES ASSUME q # None, CatchUp(q) \notin inFlight
               PROVE  Len(Sent(p)) + 1 \in 1..Len(rs) /\ rs[Len(Sent(p)) + 1] = Next1(q)
    OBVIOUS
  <2>1. Len(Sent(q)) = 1 /\ Sent(q)[1] = Next1(q)
    BY SentIs
  <2>2. /\ Len(Sent(p)) + 1 \in 1..Len(Sent(p)) + Len(Sent(q)) /\ ~(Len(Sent(p)) + 1 <= Len(Sent(p)))
        /\ (Len(Sent(p)) + 1) - Len(Sent(p)) = 1
    BY <1>4, <2>1
  <2> QED
    BY <1>3, <2>1, <2>2
<1>8. /\ toDaemon' \in Seq(Fetches) /\ Queued \subseteq Queued'
      /\ \A r \in Queued' : r \in Queued \/ \E i \in 1..Len(rs) : r = rs[i]
      /\ \A i \in 1..Len(rs) : rs[i] \in Queued'
  BY <1>2, <1>3, AskIs
<1> QED
  BY <1>5, <1>6, <1>7, <1>8

-----------------------------------------------------------------------------
(* Types, what is shown and the messages on their way, action by action.    *)

Base == TypeOK /\ Ascending /\ Chan

(* The inductive invariant has the base.                                    *)
LEMMA BaseIs == IInv => Base
BY DEF IInv, Base, Chan

(* Nothing that these facts are about changes.                              *)
LEMMA SameView ==
  ASSUME Ascending, UNCHANGED <<cursor, shown>>
  PROVE  Ascending'
BY DEF Ascending

(* Faults are counted up to their bound.                                    *)
LEMMA FaultTyped ==
  ASSUME TypeOK, Fault PROVE faults' \in 0..Faults
BY Constants DEF TypeOK, Fault

(* AppendRow keeps the base.                                                *)
LEMMA AppendRowBase ==
  ASSUME Base, AppendRow
  PROVE  Base'
<1>1. TypeOK /\ Ascending /\ Chan
  BY DEF Base
<1> DEFINE m == Row(epoch, last + 1)
<1>2. /\ epoch \in Nat /\ last \in Nat /\ epoch \in 1..Epochs
      /\ last < Rows /\ last' = last + 1 /\ epoch' = epoch
      /\ UNCHANGED <<loaded, epoch, seeding, online, faults, toDaemon, client, missed>>
      /\ Push(<<m>>)
  BY <1>1, StateTyped DEF AppendRow
<1>3. last' \in 0..Rows /\ last' \in Seqs /\ last' \in Nat
  BY <1>1, <1>2, Constants DEF TypeOK, Seqs
<1>4. m \in Events /\ m \in Messages /\ m.type = "row" /\ m.epoch = epoch /\ m.seq = last'
  BY <1>2, <1>3 DEF Row, Events, Messages
<1> HIDE DEF m
<1>5. Dated(m) /\ ~IsAnswer(m) /\ News(m) /\ Told(m) = last'
  BY <1>4 DEF Dated, IsAnswer, News, Told
<1>6. PICK qs \in Seq(Messages) : toClient' = toClient \o qs /\ qs = IF online THEN <<m>> ELSE <<>>
  <2>1. <<m>> \in Seq(Messages)
    BY <1>4
  <2> QED
    BY <1>1, <1>2, <2>1, PushIs
<1>7. toClient' \in Seq(Messages)
  BY <1>1, <1>6, PushedIs
<1>8. TypeOK'
  BY <1>1, <1>2, <1>3, <1>7 DEF TypeOK, Messages, client, view
<1>9. Len(qs) \in 0..1 /\ \A i \in 1..Len(qs) : i = 1 /\ qs[i] = m
  <2>1. CASE online
    <3>1. Len(<<m>>) = 1 /\ <<m>>[1] = m
      OBVIOUS
    <3> QED
      BY <1>6, <2>1, <3>1
  <2>2. CASE ~online
    BY <1>6, <2>2
  <2> QED
    BY <2>1, <2>2
<1>10. Chan'
  <2>1. Queued' = Queued /\ cursor' = cursor
    BY <1>2 DEF Queued, client, view
  <2>2. \A i \in 1..Len(qs) : Dated(qs[i]) =>
           /\ IsAnswer(qs[i]) => AnswerShape(qs[i]) /\ qs[i].request \in Queued
           /\ qs[i].epoch = epoch'
           /\ News(qs[i]) => Told(qs[i]) <= last'
           /\ epoch' = epoch /\ Whole(qs[i]) => last <= Told(qs[i])
           /\ epoch' = epoch /\ qs[i].type = "row" => last < Told(qs[i])
    BY <1>2, <1>3, <1>4, <1>5, <1>9
  <2>3. \A i, j \in 1..Len(qs) : i < j /\ Dated(qs[i]) /\ Dated(qs[j]) /\ News(qs[i]) =>
          Beyond(epoch', Told(qs[i]), qs[j])
    <3>1. \A i, j \in 1..Len(qs) : ~(i < j)
      BY <1>9
    <3> QED
      BY <3>1
  <2>4. epoch' \in Nat /\ last' \in Nat /\ epoch <= epoch' /\ (epoch' = epoch => last <= last')
    BY <1>2, <1>3
  <2>5. Queued' \subseteq Queued
    BY <2>1
  <2> QED
    BY <1>1, <1>6, <2>1, <2>2, <2>3, <2>4, <2>5, PushChan
<1>11. Ascending'
  BY <1>1, <1>2, SameView DEF client, view
<1> QED
  BY <1>8, <1>10, <1>11 DEF Base

(* Steps that push no row and no answer.                                    *)
LEMMA GrowBase ==
  ASSUME Base, UNCHANGED <<cursor, shown>>, TypeOK',
         epoch <= epoch', epoch' = epoch => last <= last', Queued' \subseteq Queued,
         NEW ms \in Seq(Messages), toClient' = toClient \o ms,
         \A i \in 1..Len(ms) : ~Dated(ms[i])
  PROVE  Base'
<1>1. TypeOK /\ Ascending /\ Chan
  BY DEF Base
<1>2. epoch' \in Nat /\ last' \in Nat
  BY Constants DEF TypeOK
<1>3. Chan'
  BY <1>1, <1>2, PushChan
<1>4. Ascending'
  BY <1>1, SameView
<1> QED
  BY <1>3, <1>4 DEF Base

(* No push is a push of nothing.                                            *)
LEMMA SameClient ==
  ASSUME TypeOK, UNCHANGED toClient
  PROVE  /\ <<>> \in Seq(Messages) /\ toClient' = toClient \o <<>>
         /\ \A i \in 1..Len(<<>>) : ~Dated(<<>>[i])
<1>1. toClient \in Seq(Messages)
  BY StateTyped
<1>2. toClient \o <<>> = toClient /\ <<>> \in Seq(Messages)
  BY <1>1, ConcatEmptySeq
<1>3. \A i \in 1..Len(<<>>) : FALSE
  OBVIOUS
<1> QED
  BY <1>2, <1>3

(* SeedRow keeps the base.                                                  *)
LEMMA SeedRowBase ==
  ASSUME Base, SeedRow
  PROVE  Base'
<1>1. TypeOK
  BY DEF Base
<1>2. /\ last \in Nat /\ last < Rows /\ last' = last + 1 /\ epoch \in Nat
      /\ UNCHANGED <<loaded, epoch, seeding, online, faults, toDaemon, toClient, client>>
      /\ missed' = TRUE
  BY <1>1, StateTyped DEF SeedRow
<1>3. last' \in 0..Rows
  BY <1>2, Constants
<1>4. TypeOK'
  BY <1>1, <1>2, <1>3 DEF TypeOK, client, view
<1>5. Queued' = Queued /\ epoch <= epoch' /\ last <= last'
  BY <1>2 DEF Queued
<1>6. UNCHANGED <<cursor, shown>>
  BY <1>2 DEF client, view
<1> QED
  BY <1>1, <1>2, <1>4, <1>5, <1>6, GrowBase, SameClient

(* A load or a reload keeps the base.                                       *)
LEMMA NewLogBase ==
  ASSUME Base, NEW for \in {"background", "reload"}, NewLog(for)
  PROVE  Base'
<1>1. TypeOK
  BY DEF Base
<1>2. /\ epoch \in 1..Epochs /\ epoch \in Nat /\ epoch < Epochs /\ epoch' = epoch + 1 /\ last' = 0
      /\ loaded' = TRUE /\ missed' = TRUE /\ seeding' = for
      /\ UNCHANGED <<online, faults, toDaemon, toClient, client>>
  BY <1>1, StateTyped DEF NewLog
<1>3. epoch' \in 1..Epochs /\ last' \in 0..Rows
  BY <1>2, Constants
<1>4. TypeOK'
  BY <1>1, <1>2, <1>3 DEF TypeOK, client, view
<1>5. Queued' = Queued /\ epoch <= epoch' /\ epoch' # epoch
  BY <1>2 DEF Queued
<1>6. UNCHANGED <<cursor, shown>>
  BY <1>2 DEF client, view
<1> QED
  BY <1>1, <1>2, <1>4, <1>5, <1>6, GrowBase, SameClient

(* SeedEnds keeps the base.                                                 *)
LEMMA SeedEndsBase ==
  ASSUME Base, SeedEnds
  PROVE  Base'
<1>1. TypeOK
  BY DEF Base
<1> DEFINE ms == IF seeding = "reload" THEN <<[type |-> "reloaded"]>> ELSE <<>>
<1>2. /\ Push(ms) /\ seeding' = "no"
      /\ UNCHANGED <<loaded, epoch, last, online, faults, toDaemon, client, missed>>
  BY DEF SeedEnds
<1>3. ms \in Seq(Messages) /\ \A i \in 1..Len(ms) : ms[i] = [type |-> "reloaded"]
  <2>1. [type |-> "reloaded"] \in Messages
    BY DEF Messages
  <2>2. CASE seeding = "reload"
    <3>1. <<[type |-> "reloaded"]>> \in Seq(Messages) /\ Len(<<[type |-> "reloaded"]>>) = 1
          /\ <<[type |-> "reloaded"]>>[1] = [type |-> "reloaded"]
      BY <2>1
    <3> QED
      BY <2>2, <3>1
  <2>3. CASE seeding # "reload"
    BY <2>3
  <2> QED
    BY <2>2, <2>3
<1> HIDE DEF ms
<1>4. PICK qs \in Seq(Messages) : toClient' = toClient \o qs /\ qs = IF online THEN ms ELSE <<>>
  BY <1>1, <1>2, <1>3, PushIs
<1>5. \A i \in 1..Len(qs) : ~Dated(qs[i])
  <2>1. ~Dated([type |-> "reloaded"])
    BY DEF Dated
  <2>2. \A i \in 1..Len(<<>>) : FALSE
    OBVIOUS
  <2> QED
    BY <1>3, <1>4, <2>1, <2>2
<1>6. toClient' \in Seq(Messages)
  BY <1>1, <1>4, PushedIs
<1>7. TypeOK'
  BY <1>1, <1>2, <1>6 DEF TypeOK, Messages, client, view
<1>8. Queued' = Queued /\ epoch <= epoch' /\ last <= last' /\ UNCHANGED <<cursor, shown>>
  BY <1>1, <1>2, StateTyped DEF Queued, client, view
<1> QED
  BY <1>4, <1>5, <1>7, <1>8, GrowBase

(* Unload keeps the base.                                                   *)
LEMMA UnloadBase ==
  ASSUME Base, Unload
  PROVE  Base'
<1>1. TypeOK /\ UNCHANGED <<epoch, last, seeding, online, faults, toDaemon, toClient, client, missed>>
      /\ loaded' = FALSE
  BY DEF Base, Unload
<1>2. TypeOK'
  BY <1>1 DEF TypeOK, client, view
<1>3. Queued' = Queued /\ epoch <= epoch' /\ last <= last' /\ UNCHANGED <<cursor, shown>>
  BY <1>1, StateTyped DEF Queued, client, view
<1> QED
  BY <1>1, <1>2, <1>3, GrowBase, SameClient

(* A rewind pushes all rows of the new log in order.                        *)
LEMMA RewindIs ==
  ASSUME TypeOK, Rewind
  PROVE  /\ epoch' = epoch + 1 /\ last' \in 0..Rows /\ epoch < Epochs
         /\ missed' = (missed \/ last' = 0)
         /\ UNCHANGED <<loaded, seeding, online, faults, toDaemon, client>>
         /\ \E ms \in Seq(Messages) :
              /\ toClient' = toClient \o ms
              /\ ~online => ms = <<>>
              /\ online => last' <= Len(ms)
              /\ \A i \in 1..Len(ms) :
                   IF i <= last' THEN ms[i] = Row(epoch', i) ELSE ms[i].type = "reloaded"
<1>1. /\ epoch' = epoch + 1 /\ last' \in 0..Rows /\ epoch < Epochs
      /\ missed' = (missed \/ last' = 0)
      /\ UNCHANGED <<loaded, seeding, online, faults, toDaemon, client>>
  BY DEF Rewind
<1> DEFINE rows == [s \in 1..last' |-> Row(epoch', s)]
<1>2. PICK asked \in BOOLEAN : Push(rows \o (IF asked THEN <<[type |-> "reloaded"]>> ELSE <<>>))
  BY DEF Rewind
<1> DEFINE more == IF asked THEN <<[type |-> "reloaded"]>> ELSE <<>>
<1>3. more \in Seq(Messages) /\ \A i \in 1..Len(more) : more[i].type = "reloaded"
  <2>1. [type |-> "reloaded"] \in Messages
    BY DEF Messages
  <2>2. CASE asked
    <3>1. <<[type |-> "reloaded"]>> \in Seq(Messages) /\ Len(<<[type |-> "reloaded"]>>) = 1
          /\ <<[type |-> "reloaded"]>>[1] = [type |-> "reloaded"]
      BY <2>1
    <3> QED
      BY <2>2, <3>1
  <2>3. CASE ~asked
    BY <2>3
  <2> QED
    BY <2>2, <2>3
<1>4. rows \in Seq(Messages) /\ Len(rows) = last' /\ last' \in Nat
      /\ \A i \in 1..last' : rows[i] = Row(epoch', i)
  <2>1. epoch' \in 1..Epochs /\ last' \in Nat /\ last' <= Rows
    BY <1>1, StateTyped, Constants
  <2>2. \A s \in 1..last' : Row(epoch', s) \in Messages
    BY <2>1, Constants DEF Row, Messages, Events, Seqs
  <2>3. rows \in [1..last' -> Messages]
    BY <2>2
  <2>4. rows \in Seq(Messages)
    <3>1. [1..last' -> Messages] \in {[1..k -> Messages] : k \in Nat}
      BY <2>1
    <3> QED
      BY <2>3, <3>1, SeqDef
  <2>5. DOMAIN rows = 1..Len(rows) /\ Len(rows) \in Nat /\ DOMAIN rows = 1..last'
    BY <2>4, LenProperties
  <2> QED
    BY <2>1, <2>4, <2>5
<1> HIDE DEF rows, more
<1> DEFINE ms == rows \o more
<1>5. ms \in Seq(Messages) /\ Len(ms) = last' + Len(more) /\ Len(more) \in Nat
      /\ \A i \in 1..last' + Len(more) : ms[i] = IF i <= last' THEN rows[i] ELSE more[i - last']
  <2>1. /\ ms \in Seq(Messages) /\ Len(ms) = Len(rows) + Len(more)
        /\ \A i \in 1..Len(rows) + Len(more) :
             ms[i] = IF i <= Len(rows) THEN rows[i] ELSE more[i - Len(rows)]
    BY <1>3, <1>4, ConcatProperties
  <2>2. Len(more) \in Nat
    BY <1>3
  <2> HIDE DEF ms
  <2> QED
    BY <1>4, <2>1, <2>2
<1>6. \A i \in 1..Len(ms) : IF i <= last' THEN ms[i] = Row(epoch', i) ELSE ms[i].type = "reloaded"
  <2> SUFFICES ASSUME NEW i \in 1..Len(ms)
               PROVE  IF i <= last' THEN ms[i] = Row(epoch', i) ELSE ms[i].type = "reloaded"
    OBVIOUS
  <2> HIDE DEF ms
  <2>1. CASE i <= last'
    BY <1>4, <1>5, <2>1
  <2>2. CASE ~(i <= last')
    <3>0. /\ last' \in Nat /\ Len(more) \in Nat /\ Len(ms) = last' + Len(more)
          /\ ~(i <= last') /\ i \in 1..Len(ms)
      BY <1>4, <1>5, <2>2
    <3>1. i - last' \in 1..Len(more) /\ i \in 1..last' + Len(more)
      <4>1. \A x, y, z \in Nat : ~(x <= y) /\ x <= y + z => x - y \in 1..z /\ x \in 1..y + z
        OBVIOUS
      <4>2. i \in Nat /\ i <= last' + Len(more)
        BY <3>0
      <4> QED
        BY <3>0, <4>1, <4>2
    <3>2. ms[i] = more[i - last']
      BY <1>5, <2>2, <3>1
    <3> QED
      BY <1>3, <2>2, <3>1, <3>2
  <2> QED
    BY <2>1, <2>2
<1>7. Push(ms)
  BY <1>2 DEF rows, more
<1> HIDE DEF ms
<1>8. PICK qs \in Seq(Messages) : toClient' = toClient \o qs /\ qs = IF online THEN ms ELSE <<>>
  BY <1>5, <1>7, PushIs
<1>9. \A i \in 1..Len(<<>>) : FALSE
  OBVIOUS
<1>10. /\ ~online => qs = <<>>
       /\ online => last' <= Len(qs)
       /\ \A i \in 1..Len(qs) :
            IF i <= last' THEN qs[i] = Row(epoch', i) ELSE qs[i].type = "reloaded"
  <2>1. CASE online
    BY <1>4, <1>5, <1>6, <1>8, <2>1
  <2>2. CASE ~online
    BY <1>8, <1>9, <2>2
  <2> QED
    BY <2>1, <2>2
<1> QED
  BY <1>1, <1>8, <1>10

(* A row tells of itself.                                                   *)
LEMMA RowIs ==
  ASSUME NEW e, NEW s, NEW m, m = Row(e, s)
  PROVE  m.type = "row" /\ m.epoch = e /\ m.seq = s /\ Dated(m) /\ ~IsAnswer(m) /\ News(m) /\ Told(m) = s
BY DEF Row, Dated, IsAnswer, News, Told

(* Rewind keeps the base.                                                   *)
LEMMA RewindBase ==
  ASSUME Base, Rewind
  PROVE  Base'
<1>1. TypeOK /\ Ascending /\ Chan
  BY DEF Base
<1>2. /\ epoch' = epoch + 1 /\ last' \in 0..Rows /\ epoch < Epochs /\ epoch \in 1..Epochs
      /\ missed' = (missed \/ last' = 0) /\ epoch \in Nat /\ last' \in Nat
      /\ UNCHANGED <<loaded, seeding, online, faults, toDaemon, client>>
  BY <1>1, RewindIs, StateTyped
<1>3. PICK ms \in Seq(Messages) :
        /\ toClient' = toClient \o ms
        /\ \A i \in 1..Len(ms) :
             IF i <= last' THEN ms[i] = Row(epoch', i) ELSE ms[i].type = "reloaded"
  BY <1>1, RewindIs
<1>4. \A i \in 1..Len(ms) : Dated(ms[i]) => i <= last' /\ i \in Nat /\ i > 0
        /\ ms[i].type = "row" /\ ms[i].epoch = epoch' /\ ms[i].seq = i /\ ~IsAnswer(ms[i]) /\ Told(ms[i]) = i
  <2> SUFFICES ASSUME NEW i \in 1..Len(ms), Dated(ms[i])
               PROVE  i <= last' /\ ms[i] = Row(epoch', i)
    BY RowIs
  <2> QED
    BY <1>3 DEF Dated
<1>5. epoch' \in 1..Epochs
  BY <1>2, Constants
<1>6. toClient' \in Seq(Messages)
  BY <1>1, <1>3, PushedIs
<1>7. TypeOK'
  BY <1>1, <1>2, <1>5, <1>6 DEF TypeOK, Messages, client, view
<1>8. Chan'
  <2>1. Queued' \subseteq Queued /\ cursor' = cursor
    BY <1>2 DEF Queued, client, view
  <2>2. \A i \in 1..Len(ms) : Dated(ms[i]) =>
           /\ IsAnswer(ms[i]) => AnswerShape(ms[i]) /\ ms[i].request \in Queued
           /\ ms[i].epoch = epoch'
           /\ News(ms[i]) => Told(ms[i]) <= last'
           /\ epoch' = epoch /\ Whole(ms[i]) => last <= Told(ms[i])
           /\ epoch' = epoch /\ ms[i].type = "row" => last < Told(ms[i])
    BY <1>2, <1>4
  <2>3. \A i, j \in 1..Len(ms) : i < j /\ Dated(ms[i]) /\ Dated(ms[j]) /\ News(ms[i]) =>
          Beyond(epoch', Told(ms[i]), ms[j])
    BY <1>2, <1>4 DEF Beyond
  <2>4. epoch' \in Nat /\ last' \in Nat /\ epoch <= epoch' /\ (epoch' = epoch => last <= last')
    BY <1>2
  <2> QED
    BY <1>1, <1>3, <2>1, <2>2, <2>3, <2>4, PushChan
<1>9. Ascending'
  BY <1>1, <1>2, SameView DEF client, view
<1> QED
  BY <1>7, <1>8, <1>9 DEF Base

(* What the daemon's answer tells.                                          *)
LEMMA AnswerIs ==
  ASSUME Base, Offline, Answer
  PROVE  /\ online /\ toDaemon # <<>> /\ Head(toDaemon) \in Queued /\ toDaemon' = Tail(toDaemon)
         /\ missed' = (missed /\ Head(toDaemon).dir = "before")
         /\ UNCHANGED <<daemon, online, faults, client>>
         /\ \E m \in Messages :
              /\ toClient' = toClient \o <<m>> /\ m.type = "answer" /\ m \in Answers
              /\ m.request = Head(toDaemon) /\ m.epoch = epoch /\ AnswerShape(m)
              /\ News(m) => Told(m) <= last
              /\ Whole(m) => Told(m) = last
              /\ last = 0 => m.rows = <<>>
<1>1. TypeOK /\ Chan
  BY DEF Base
<1>2. /\ toDaemon # <<>> /\ toDaemon' = Tail(toDaemon)
      /\ Push(<<Fetch(Head(toDaemon))>>)
      /\ missed' = (missed /\ Head(toDaemon).dir = "before")
      /\ UNCHANGED <<daemon, online, faults, client>>
  BY DEF Answer
<1>3. online
  BY <1>1, <1>2 DEF Offline, TypeOK
<1>4. Head(toDaemon) \in Queued /\ Head(toDaemon) \in Fetches
  BY <1>1, <1>2, QueueTail
<1>5. PICK r \in Fetches : r = Head(toDaemon)
  BY <1>4
<1>6. AskShape(r) /\ (r.cursor # None => Within(r.cursor.epoch, r.cursor.seq, epoch, last))
  BY <1>1, <1>4, <1>5 DEF Chan, Shape, Past
<1>7. PICK m : m = Fetch(r)
  OBVIOUS
<1>8. /\ m \in Answers /\ m.type = "answer" /\ m.request = r /\ m.epoch = epoch
      /\ AnswerShape(m)
      /\ News(m) => Told(m) <= last
      /\ Whole(m) => Told(m) = last
      /\ last = 0 => m.rows = <<>>
  BY <1>1, <1>6, <1>7, FetchedIs
<1>9. m \in Messages /\ <<m>> \in Seq(Messages)
  <2>1. m \in Messages
    BY <1>8 DEF Messages
  <2> QED
    BY <2>1
<1>10. toClient' = toClient \o <<m>>
  BY <1>2, <1>3, <1>5, <1>7 DEF Push
<1> QED
  BY <1>2, <1>3, <1>4, <1>5, <1>8, <1>9, <1>10

(* Answer keeps the base.                                                   *)
LEMMA AnswerBase ==
  ASSUME Base, Offline, Answer
  PROVE  Base'
<1>1. TypeOK /\ Ascending /\ Chan
  BY DEF Base
<1>2. /\ Head(toDaemon) \in Queued /\ toDaemon' = Tail(toDaemon) /\ toDaemon # <<>>
      /\ missed' = (missed /\ Head(toDaemon).dir = "before")
      /\ UNCHANGED <<daemon, online, faults, client>>
  BY AnswerIs
<1>3. PICK m \in Messages :
        /\ toClient' = toClient \o <<m>> /\ m.type = "answer"
        /\ m.request = Head(toDaemon) /\ m.epoch = epoch /\ AnswerShape(m)
        /\ News(m) => Told(m) <= last
        /\ Whole(m) => Told(m) = last
  BY AnswerIs
<1>4. <<m>> \in Seq(Messages) /\ Len(<<m>>) = 1 /\ \A i \in 1..1 : <<m>>[i] = m
  OBVIOUS
<1>5. toClient' \in Seq(Messages)
  BY <1>1, <1>3, <1>4, PushedIs
<1>6. toDaemon' \in Seq(Fetches) /\ Queued' \subseteq Queued
  BY <1>1, <1>2, QueueTail
<1>7. TypeOK'
  BY <1>1, <1>2, <1>5, <1>6 DEF TypeOK, Messages, client, view, daemon
<1>8. /\ epoch' = epoch /\ last' = last /\ epoch' \in Nat /\ last' \in Nat /\ epoch <= epoch'
      /\ last <= last' /\ cursor' = cursor /\ shown' = shown
  BY <1>1, <1>2, StateTyped DEF client, view, daemon
<1>9. Dated(m) /\ ~(m.type = "row")
  BY <1>3 DEF Dated
<1> DEFINE ms == <<m>>
<1>10. Len(ms) = 1 /\ ms \in Seq(Messages) /\ \A i \in 1..Len(ms) : i = 1 /\ ms[i] = m
  BY <1>4
<1>11. Chan'
  <2> HIDE DEF ms
  <2>1. \A i \in 1..Len(ms) : Dated(ms[i]) =>
           /\ IsAnswer(ms[i]) => AnswerShape(ms[i]) /\ ms[i].request \in Queued
           /\ ms[i].epoch = epoch'
           /\ News(ms[i]) => Told(ms[i]) <= last'
           /\ epoch' = epoch /\ Whole(ms[i]) => last <= Told(ms[i])
           /\ epoch' = epoch /\ ms[i].type = "row" => last < Told(ms[i])
    BY <1>2, <1>3, <1>8, <1>9, <1>10
  <2>2. \A i, j \in 1..Len(ms) : i < j /\ Dated(ms[i]) /\ Dated(ms[j]) /\ News(ms[i]) =>
          Beyond(epoch', Told(ms[i]), ms[j])
    <3>1. \A i, j \in 1..Len(ms) : ~(i < j)
      BY <1>10
    <3> QED
      BY <3>1
  <2>3. toClient' = toClient \o ms
    BY <1>3 DEF ms
  <2> QED
    BY <1>1, <1>6, <1>8, <1>10, <2>1, <2>2, <2>3, PushChan
<1>12. Ascending'
  BY <1>1, <1>8, SameView
<1> QED
  BY <1>7, <1>11, <1>12 DEF Base

(* What a failed request leaves.                                            *)
LEMMA FailIs ==
  ASSUME TypeOK, Offline, Fail
  PROVE  /\ online /\ toDaemon # <<>> /\ toDaemon' = Tail(toDaemon) /\ missed' = TRUE
         /\ UNCHANGED <<daemon, online, client>> /\ faults' \in 0..Faults
         /\ \E m \in Messages : /\ toClient' = toClient \o <<m>> /\ m.type = "error"
                                /\ m.request = Head(toDaemon)
<1>1. /\ toDaemon # <<>> /\ toDaemon' = Tail(toDaemon) /\ missed' = TRUE
      /\ UNCHANGED <<daemon, online, client>> /\ Fault
      /\ Push(<<[type |-> "error", request |-> Head(toDaemon)]>>)
  BY DEF Fail
<1>2. online
  BY <1>1 DEF Offline, TypeOK
<1>3. Head(toDaemon) \in Fetches
  BY <1>1, QueueTail
<1>4. PICK m : m = [type |-> "error", request |-> Head(toDaemon)]
  OBVIOUS
<1>5. m \in Messages /\ m.type = "error" /\ m.request = Head(toDaemon)
  BY <1>3, <1>4 DEF Messages, Rejected
<1>6. toClient' = toClient \o <<m>>
  BY <1>1, <1>2, <1>4 DEF Push
<1> QED
  BY <1>1, <1>2, <1>5, <1>6, FaultTyped

(* Fail keeps the base.                                                     *)
LEMMA FailBase ==
  ASSUME Base, Offline, Fail
  PROVE  Base'
<1>1. TypeOK
  BY DEF Base
<1>2. /\ toDaemon # <<>> /\ toDaemon' = Tail(toDaemon) /\ missed' = TRUE
      /\ UNCHANGED <<daemon, online, client>> /\ faults' \in 0..Faults
  BY <1>1, FailIs
<1>3. PICK m \in Messages : toClient' = toClient \o <<m>> /\ m.type = "error"
  BY <1>1, FailIs
<1>4. <<m>> \in Seq(Messages) /\ Len(<<m>>) = 1 /\ \A i \in 1..1 : <<m>>[i] = m
  OBVIOUS
<1>5. toClient' \in Seq(Messages)
  BY <1>1, <1>3, <1>4, PushedIs
<1>6. toDaemon' \in Seq(Fetches) /\ Queued' \subseteq Queued
  BY <1>1, <1>2, QueueTail
<1>7. TypeOK'
  BY <1>1, <1>2, <1>5, <1>6 DEF TypeOK, Messages, client, view, daemon
<1>8. epoch <= epoch' /\ last <= last' /\ UNCHANGED <<cursor, shown>>
  BY <1>1, <1>2, StateTyped DEF client, view, daemon
<1>9. \A i \in 1..Len(<<m>>) : ~Dated(<<m>>[i])
  BY <1>3, <1>4 DEF Dated
<1> QED
  BY <1>3, <1>4, <1>6, <1>7, <1>8, <1>9, GrowBase

(* The ends of the view are positions.                                      *)
LEMMA EndTyped ==
  ASSUME TypeOK, cursor # None
  PROVE  /\ End \in Positions /\ End # None /\ End.epoch = cursor.epoch /\ End.seq = cursor.end
         /\ [epoch |-> cursor.epoch, seq |-> cursor.start] \in Positions
         /\ [epoch |-> cursor.epoch, seq |-> cursor.start] # None
<1>1. End \in Positions /\ [epoch |-> cursor.epoch, seq |-> cursor.start] \in Positions
  BY StateTyped DEF End, Positions
<1> QED
  BY <1>1, Constants DEF End

(* A request that fits the view keeps the base.                             *)
LEMMA AskBase ==
  ASSUME Base, NEW r \in Fetches, toDaemon' = Append(toDaemon, r), Fits(r),
         init' \in {"none", "tail", "after", "left"},
         inFlight' \subseteq [dir : {"after", "before"}, cursor : Positions],
         {resumed', opened'} \subseteq BOOLEAN,
         UNCHANGED <<daemon, online, faults, toClient, view, missed>>
  PROVE  Base'
<1>1. TypeOK /\ Ascending /\ Chan
  BY DEF Base
<1>2. toDaemon' \in Seq(Fetches) /\ \A q \in Queued' : q \in Queued \/ q = r
  BY <1>1, AskOne
<1>3. TypeOK'
  BY <1>1, <1>2 DEF TypeOK, daemon, view
<1>4. Chan'
  <2>1. \A q \in Queued' : q \in Queued \/ Fits(q)
    BY <1>2
  <2> QED
    BY <1>1, <2>1, AskChan DEF daemon, view
<1>5. Ascending'
  BY <1>1, SameView DEF view
<1> QED
  BY <1>3, <1>4, <1>5 DEF Base

(* Open keeps the base.                                                     *)
LEMMA OpenBase ==
  ASSUME Base, Open
  PROVE  Base'
<1>1. TypeOK
  BY DEF Base
<1> DEFINE after == authoritative /\ cursor # None
           r == IF after THEN Request("after", End, Page, FALSE)
                ELSE Request("tail", None, Page, FALSE)
<1>2. /\ init' = IF after THEN "after" ELSE "tail"
      /\ toDaemon' = Append(toDaemon, r)
      /\ resumed' = FALSE /\ opened' = TRUE
      /\ UNCHANGED <<daemon, online, faults, toClient, view, inFlight, missed>>
  BY DEF Open
<1>3. r \in Fetches /\ Fits(r)
  <2>1. CASE after
    <3>1. r = Request("after", End, Page, FALSE) /\ End \in Positions /\ cursor' = cursor
      BY <1>1, <1>2, <2>1, EndTyped DEF view
    <3>2. cursor.end <= cursor.end
      BY <1>1, <2>1, StateTyped
    <3> QED
      BY <1>1, <2>1, <3>1, <3>2, EndTyped DEF Request, Fetches, Fits, AskShape
  <2>2. CASE ~after
    <3>1. r = Request("tail", None, Page, FALSE)
      BY <2>2
    <3> QED
      BY <3>1 DEF Request, Fetches, Fits, AskShape
  <2> QED
    BY <2>1, <2>2
<1>4. init' \in {"none", "tail", "after", "left"} /\ {resumed', opened'} \subseteq BOOLEAN
      /\ inFlight' \subseteq [dir : {"after", "before"}, cursor : Positions]
  BY <1>1, <1>2 DEF TypeOK
<1> HIDE DEF r
<1> QED
  BY <1>2, <1>3, <1>4, AskBase

(* Scrolling up asks from the first row shown, once.                        *)
LEMMA LoadOlderIs ==
  ASSUME Base, LoadOlder
  PROVE  /\ online
         /\ \E r \in Fetches :
              /\ toDaemon' = Append(toDaemon, r) /\ Fits(r) /\ r.dir = "before" /\ r.tracked
              /\ inFlight' = inFlight \cup {Key(r)}
              /\ Key(r) \in [dir : {"after", "before"}, cursor : Positions]
         /\ UNCHANGED <<daemon, online, faults, toClient, view, init, resumed, opened, missed>>
<1>1. TypeOK /\ Ascending
  BY DEF Base
<1> DEFINE at == [epoch |-> cursor.epoch, seq |-> cursor.start]
<1>2. /\ online /\ cursor # None
      /\ toDaemon' = Append(toDaemon, Request("before", at, Page, TRUE))
      /\ inFlight' = inFlight \cup {[dir |-> "before", cursor |-> at]}
      /\ UNCHANGED <<daemon, online, faults, toClient, view, init, resumed, opened, missed>>
  BY DEF LoadOlder
<1>3. at \in Positions /\ at # None /\ at.epoch = cursor.epoch /\ at.seq = cursor.start
  BY <1>1, <1>2, EndTyped
<1>4. cursor.start <= cursor.end /\ cursor' = cursor
  BY <1>1, <1>2, StartFirst DEF view
<1> HIDE DEF at
<1> DEFINE r == Request("before", at, Page, TRUE)
<1>5. r \in Fetches /\ Fits(r) /\ r.dir = "before" /\ r.tracked
      /\ Key(r) = [dir |-> "before", cursor |-> at]
      /\ Key(r) \in [dir : {"after", "before"}, cursor : Positions]
  BY <1>2, <1>3, <1>4 DEF Request, Fetches, Fits, AskShape, Key
<1> HIDE DEF r
<1> QED
  BY <1>2, <1>5 DEF r

(* LoadOlder keeps the base.                                                *)
LEMMA LoadOlderBase ==
  ASSUME Base, LoadOlder
  PROVE  Base'
<1>1. TypeOK
  BY DEF Base
<1>2. PICK r \in Fetches :
        /\ toDaemon' = Append(toDaemon, r) /\ Fits(r)
        /\ inFlight' = inFlight \cup {Key(r)}
        /\ Key(r) \in [dir : {"after", "before"}, cursor : Positions]
  BY LoadOlderIs
<1>3. UNCHANGED <<daemon, online, faults, toClient, view, init, resumed, opened, missed>>
  BY LoadOlderIs
<1>4. init' \in {"none", "tail", "after", "left"} /\ {resumed', opened'} \subseteq BOOLEAN
      /\ inFlight' \subseteq [dir : {"after", "before"}, cursor : Positions]
  BY <1>1, <1>2, <1>3 DEF TypeOK
<1> QED
  BY <1>2, <1>3, <1>4, AskBase

(* The log, the messages and what is shown are as they were.                *)
LEMMA SameBase ==
  ASSUME Base, TypeOK', UNCHANGED <<epoch, last, toDaemon, toClient, cursor, shown>>
  PROVE  Base'
<1>1. Queued' = Queued /\ Answered' = Answered
  BY DEF Queued, Answered
<1> QED
  BY <1>1 DEF Base, Ascending, Chan, Shape, Past, Ordered, Known

(* Time-outs and the return of the connection keep the base.                *)
LEMMA TimeoutsBase ==
  ASSUME Base, InitTimesOut \/ RequestTimesOut \/ Reconnect \/ OpenJoins
  PROVE  Base'
<1>1. TypeOK
  BY DEF Base
<1>2. CASE InitTimesOut
  <2>1. TypeOK'
    BY <1>1, <1>2, FaultTyped DEF TypeOK, InitTimesOut, daemon, view
  <2> QED
    BY <1>2, <2>1, SameBase DEF InitTimesOut, daemon, view
<1>3. CASE RequestTimesOut
  <2>1. TypeOK'
    BY <1>1, <1>3, FaultTyped DEF TypeOK, RequestTimesOut, daemon, view
  <2> QED
    BY <1>3, <2>1, SameBase DEF RequestTimesOut, daemon, view
<1>4. CASE Reconnect
  <2>1. TypeOK'
    BY <1>1, <1>4 DEF TypeOK, Reconnect, daemon, view
  <2> QED
    BY <1>4, <2>1, SameBase DEF Reconnect, daemon, view
<1>5. CASE OpenJoins
  <2>1. TypeOK'
    BY <1>1, <1>5 DEF TypeOK, OpenJoins, daemon, view
  <2> QED
    BY <1>5, <2>1, SameBase DEF OpenJoins, daemon, view
<1> QED
  BY <1>2, <1>3, <1>4, <1>5

(* Empty queues hold no request.                                            *)
LEMMA EmptyQueues ==
  /\ toDaemon = <<>> => Queued = {}
  /\ toClient = <<>> => Replied = {} /\ Answered = {}
  /\ toDaemon' = <<>> => Queued' = {}
  /\ toClient' = <<>> => Replied' = {} /\ Answered' = {}
<1>1. \A i \in 1..Len(<<>>) : FALSE
  OBVIOUS
<1> QED
  BY <1>1 DEF Queued, Replied, Answered

(* Disconnect keeps the base.                                               *)
LEMMA DisconnectBase ==
  ASSUME Base, Disconnect
  PROVE  Base'
<1>1. TypeOK /\ Ascending /\ Chan
  BY DEF Base
<1>2. /\ online' = FALSE /\ toDaemon' = <<>> /\ toClient' = <<>>
      /\ init' \in {"none", "left"} /\ inFlight' = {} /\ opened' = FALSE
      /\ seeding' \in {"no", "background", "reload"}
      /\ faults' \in 0..Faults
      /\ UNCHANGED <<loaded, epoch, last, view, resumed, missed>>
  BY <1>1, FaultTyped DEF Disconnect, TypeOK
<1>3. TypeOK'
  <2>1. toDaemon' \in Seq(Fetches) /\ toClient' \in Seq(Messages)
    BY <1>2
  <2>2. /\ {loaded', online', authoritative', hasOlder', resumed', opened', missed'} \subseteq BOOLEAN
        /\ inFlight' \subseteq [dir : {"after", "before"}, cursor : Positions]
    BY <1>1, <1>2 DEF TypeOK, view
  <2>3. /\ epoch' \in 1..Epochs /\ last' \in 0..Rows
        /\ cursor' \in Ranges \cup {None} /\ shown' \in Seq((1..Epochs) \X Seqs)
        /\ kept' \in Positions \cup {None}
    BY <1>1, <1>2 DEF TypeOK, view
  <2> QED
    BY <1>2, <2>1, <2>2, <2>3 DEF TypeOK, Messages
<1>4. Queued' = {} /\ Answered' = {}
  BY <1>2, EmptyQueues
<1>5. \A i \in 1..Len(toClient') : FALSE
  BY <1>2
<1>6. cursor' = cursor /\ epoch' = epoch /\ last' = last /\ shown' = shown
  BY <1>2 DEF view
<1>7. Chan'
  BY <1>1, <1>4, <1>5, <1>6 DEF Chan, Shape, Past, Ordered, Known
<1> QED
  BY <1>1, <1>3, <1>6, <1>7, SameView DEF Base

(* ReceiveError keeps the base.                                             *)
LEMMA ErrorBase ==
  ASSUME Base, ReceiveError
  PROVE  Base'
<1>1. TypeOK /\ Ascending /\ Chan
  BY DEF Base
<1>2. /\ toClient # <<>> /\ toClient' = Tail(toClient)
      /\ hasOlder' = FALSE /\ init' = "none"
      /\ inFlight' \subseteq inFlight
      /\ UNCHANGED <<daemon, online, faults, toDaemon, cursor, shown, kept, authoritative, resumed,
                     opened, missed>>
  BY DEF ReceiveError
<1>3. toClient' \in Seq(Messages)
  BY <1>1, <1>2, TakenIs
<1>4. TypeOK'
  BY <1>1, <1>2, <1>3 DEF TypeOK, Messages, daemon
<1>5. UNCHANGED <<epoch, last>> /\ Queued' = Queued /\ cursor' = cursor /\ shown' = shown
  BY <1>2 DEF daemon, Queued
<1>6. Goes(Head(toClient)) /\ Forward /\ (cursor' # None => cursor'.epoch \in Nat /\ cursor'.end \in Nat)
  BY <1>1, <1>5, StateTyped DEF Goes, Stays, Forward
<1>7. Chan'
  BY <1>1, <1>2, <1>5, <1>6, TakeChan
<1> QED
  BY <1>1, <1>4, <1>5, <1>7, SameView DEF Base

(* The end of a reload is followed by a request for the tail.               *)
LEMMA ReloadedIs ==
  ASSUME TypeOK, ReceiveReloaded
  PROVE  /\ toClient # <<>> /\ Head(toClient).type = "reloaded" /\ toClient' = Tail(toClient)
         /\ UNCHANGED <<daemon, online, faults, client, missed>>
         /\ \E r \in Fetches : toDaemon' = Append(toDaemon, r) /\ Fits(r) /\ r.dir = "tail"
<1>1. /\ toClient # <<>> /\ Head(toClient).type = "reloaded" /\ toClient' = Tail(toClient)
      /\ UNCHANGED <<daemon, online, faults, client, missed>>
      /\ toDaemon' = Append(toDaemon, Request("tail", IF cursor = None THEN None ELSE End,
                                              DefaultLimit, FALSE))
  BY DEF ReceiveReloaded
<1>2. PICK r : r = Request("tail", IF cursor = None THEN None ELSE End, DefaultLimit, FALSE)
  OBVIOUS
<1>3. cursor' = cursor
  BY <1>1 DEF client, view
<1>4. r \in Fetches /\ r.dir = "tail" /\ Fits(r)
  <2>1. CASE cursor = None
    BY <1>2, <2>1 DEF Request, Fetches, Fits, AskShape
  <2>2. CASE cursor # None
    <3>1. cursor.end <= cursor.end
      BY <2>2, StateTyped
    <3> QED
      BY <1>2, <1>3, <2>2, <3>1, EndTyped DEF Request, Fetches, Fits, AskShape
  <2> QED
    BY <2>1, <2>2
<1> QED
  BY <1>1, <1>2, <1>4

(* ReceiveReloaded keeps the base.                                          *)
LEMMA ReloadedBase ==
  ASSUME Base, ReceiveReloaded
  PROVE  Base'
<1>1. TypeOK /\ Ascending /\ Chan
  BY DEF Base
<1>2. /\ toClient # <<>> /\ toClient' = Tail(toClient)
      /\ UNCHANGED <<daemon, online, faults, client, missed>>
  BY <1>1, ReloadedIs
<1>3. PICK r \in Fetches : toDaemon' = Append(toDaemon, r) /\ Fits(r)
  BY <1>1, ReloadedIs
<1>4. toDaemon' \in Seq(Fetches) /\ \A q \in Queued' : q \in Queued \/ q = r
  BY <1>1, <1>3, AskOne
<1>5. toClient' \in Seq(Messages)
  BY <1>1, <1>2, TakenIs
<1>6. TypeOK'
  BY <1>1, <1>2, <1>4, <1>5 DEF TypeOK, Messages, daemon, client, view
<1>7. UNCHANGED <<epoch, last>> /\ cursor' = cursor /\ shown' = shown
  BY <1>2 DEF daemon, client, view
<1>8. Goes(Head(toClient)) /\ Forward /\ (cursor' # None => cursor'.epoch \in Nat /\ cursor'.end \in Nat)
  BY <1>1, <1>7, StateTyped DEF Goes, Stays, Forward
<1>9. \A q \in Queued' : q \in Queued \/ Fits(q)
  BY <1>3, <1>4
<1>10. Chan'
  BY <1>1, <1>2, <1>7, <1>8, <1>9, TakeChan
<1> QED
  BY <1>1, <1>6, <1>7, <1>10, SameView DEF Base

(* Where a row takes the view: it begins one, continues it, or leaves it.   *)
LEMMA RowMoves ==
  ASSUME Base, toClient # <<>>, NEW m, m = Head(toClient), m.type = "row",
         NEW how, how = Decision(cursor, m.epoch, m.seq),
         NEW restart \in BOOLEAN,
         restart <=> (how = "init" \/ (how = "drop_epoch" /\ m.seq = 1)),
         cursor' = CASE restart -> Begin(m.epoch, m.seq)
                     [] how = "accept" -> [cursor EXCEPT !.end = m.seq]
                     [] OTHER -> cursor,
         shown' = CASE restart -> <<<<m.epoch, m.seq>>>>
                    [] how = "accept" -> Append(shown, <<m.epoch, m.seq>>)
                    [] OTHER -> shown
  PROVE  /\ cursor' \in Ranges \cup {None} /\ shown' \in Seq(Lines) /\ Ascending'
         /\ Goes(m) /\ Forward
         /\ how = "gap" => cursor # None /\ UNCHANGED <<cursor, shown>>
         /\ cursor = None => cursor' # None /\ cursor'.epoch = m.epoch /\ cursor'.end = m.seq
         /\ cursor # None =>
              /\ cursor' # None
              /\ cursor'.epoch # cursor.epoch => cursor'.epoch = m.epoch
              /\ cursor.epoch # m.epoch /\ m.seq = 1 => cursor'.epoch = m.epoch /\ cursor'.end = m.seq
              /\ cursor.epoch = m.epoch /\ m.seq <= cursor.end + 1 =>
                   cursor'.epoch = m.epoch /\ m.seq <= cursor'.end /\ how # "gap"
              /\ cursor.epoch # m.epoch => how # "gap"
<1>1. TypeOK /\ Ascending /\ Chan
  BY DEF Base
<1>2. m \in Messages /\ m = toClient[1] /\ 1 \in 1..Len(toClient) /\ Dated(m) /\ ~IsAnswer(m)
  <2>1. toClient \in Seq(Messages)
    BY <1>1, StateTyped
  <2> QED
    BY <2>1 DEF Dated, IsAnswer
<1>3. /\ m.epoch \in 1..Epochs /\ m.epoch \in Nat /\ m.seq \in Seqs /\ m.seq \in Nat /\ m.seq > 0
      /\ Told(m) = m.seq /\ News(m)
  BY <1>2, MessageTyped, ToldTyped
<1>4. /\ cursor \in Ranges \cup {None} /\ shown \in Seq(Lines)
      /\ cursor # None => /\ cursor.epoch \in Nat /\ cursor.end \in Nat
                          /\ cursor.epoch <= m.epoch
  <2>1. cursor # None => Beyond(cursor.epoch, cursor.end, m)
    BY <1>1, <1>2 DEF Chan, Ordered
  <2> QED
    BY <1>1, <2>1, StateTyped DEF Beyond, TypeOK, Lines
<1>5. InOrder(cursor, shown)
  BY <1>1 DEF Ascending, InOrder
<1>6. /\ how = "init" <=> cursor = None
      /\ cursor # None =>
           /\ how = "drop_epoch" <=> cursor.epoch # m.epoch
           /\ how = "accept" <=> cursor.epoch = m.epoch /\ m.seq = cursor.end + 1
           /\ how = "gap" <=> cursor.epoch = m.epoch /\ m.seq > cursor.end + 1
  BY <1>3, <1>4 DEF Decision
<1>7. Ascending' <=> InOrder(cursor', shown')
  BY DEF Ascending, InOrder
<1>8. CASE restart
  <2>1. cursor' = Begin(m.epoch, m.seq) /\ shown' = <<<<m.epoch, m.seq>>>>
    BY <1>8
  <2>2. /\ cursor' \in Ranges /\ shown' \in Seq(Lines) /\ InOrder(cursor', shown')
        /\ cursor'.epoch = m.epoch /\ cursor'.end = m.seq /\ cursor' # None
    <3>1. m.epoch \in 1..Epochs /\ m.seq \in Seqs
      BY <1>3
    <3>2. /\ Begin(m.epoch, m.seq) \in Ranges /\ <<<<m.epoch, m.seq>>>> \in Seq(Lines)
          /\ Begin(m.epoch, m.seq).epoch = m.epoch /\ Begin(m.epoch, m.seq).end = m.seq
          /\ InOrder(Begin(m.epoch, m.seq), <<<<m.epoch, m.seq>>>>)
      BY <3>1, BeginInOrder
    <3>3. Begin(m.epoch, m.seq) # None
      BY <3>2, Constants
    <3> QED
      BY <2>1, <3>2, <3>3
  <2>3. cursor = None \/ (cursor.epoch # m.epoch /\ m.seq = 1)
    BY <1>6, <1>8
  <2>4. Goes(m) /\ Forward
    BY <1>2, <1>3, <1>4, <2>2, <2>3 DEF Goes, Forward
  <2> QED
    BY <1>3, <1>4, <1>6, <1>7, <2>2, <2>3, <2>4
<1>9. CASE ~restart /\ how = "accept"
  <2>1. cursor # None /\ cursor \in Ranges /\ cursor.epoch = m.epoch /\ m.seq = cursor.end + 1
    BY <1>4, <1>6, <1>9
  <2>2. cursor' = [cursor EXCEPT !.end = m.seq] /\ shown' = Append(shown, <<cursor.epoch, m.seq>>)
    BY <1>9, <2>1
  <2>3. m.seq > cursor.end
    BY <1>3, <1>4, <2>1
  <2>4. cursor' \in Ranges /\ shown' \in Seq(Lines) /\ InOrder(cursor', shown')
    BY <1>3, <1>4, <1>5, <2>1, <2>2, <2>3, AppendInOrder
  <2>5. cursor'.epoch = m.epoch /\ cursor'.end = m.seq /\ cursor' # None
    BY <2>1, <2>2, <2>4, Constants DEF Ranges
  <2>6. Goes(m) /\ Forward
    BY <1>2, <1>3, <1>4, <2>1, <2>3, <2>5 DEF Goes, Forward
  <2> QED
    BY <1>3, <1>4, <1>6, <1>7, <1>9, <2>1, <2>4, <2>5, <2>6
<1>10. CASE ~restart /\ how # "accept"
  <2>1. cursor' = cursor /\ shown' = shown
    BY <1>10
  <2>2. cursor # None /\ ~(cursor.epoch # m.epoch /\ m.seq = 1)
    BY <1>6, <1>10
  <2>3. Goes(m) /\ Forward
    BY <1>4, <2>1 DEF Goes, Stays, Forward
  <2>4. cursor.epoch = m.epoch /\ m.seq <= cursor.end + 1 => m.seq <= cursor.end /\ how # "gap"
    BY <1>3, <1>4, <1>6, <1>10, <2>2
  <2> QED
    BY <1>4, <1>5, <1>6, <1>7, <2>1, <2>2, <2>3, <2>4
<1> QED
  BY <1>8, <1>9, <1>10

(* ReceiveRow: where the view goes, and what is asked for at a gap.         *)
LEMMA RowIsTaken ==
  ASSUME Base, ReceiveRow, NEW m, m = Head(toClient)
  PROVE  /\ toClient # <<>> /\ toClient' = Tail(toClient) /\ m.type = "row"
         /\ UNCHANGED <<daemon, online, faults, authoritative, hasOlder, init, resumed, opened, missed>>
         /\ cursor' \in Ranges \cup {None} /\ shown' \in Seq(Lines) /\ Ascending'
         /\ Goes(m) /\ Forward
         /\ toDaemon' \in Seq(Fetches) /\ Queued \subseteq Queued'
         /\ \E p \in Positions \cup {None} :
              /\ p # None => cursor # None /\ p.epoch = cursor'.epoch /\ p.seq = cursor'.end
                             /\ Next1(p) \in Fetches /\ Fits(Next1(p))
              /\ inFlight' = inFlight \cup Keys(p)
              /\ \A r \in Queued' : r \in Queued \/ (p # None /\ r = Next1(p))
              /\ p # None => CatchUp(p) \in inFlight \/ Next1(p) \in Queued'
              /\ p = None /\ (m.seq = 1 \/ (cursor # None /\ cursor.epoch = m.epoch
                                              /\ m.seq <= cursor.end + 1)) =>
                   cursor' # None /\ cursor'.epoch = m.epoch /\ m.seq <= cursor'.end
              /\ p # None => ~(m.seq = 1 \/ (cursor # None /\ cursor.epoch = m.epoch
                                               /\ m.seq <= cursor.end + 1))
         /\ cursor # None /\ cursor'.epoch # cursor.epoch => cursor'.epoch = m.epoch
<1>1. TypeOK /\ Ascending /\ Chan
  BY DEF Base
<1>2. PICK how : how = Decision(cursor, m.epoch, m.seq)
  OBVIOUS
<1>3. PICK restart \in BOOLEAN : restart <=> (how = "init" \/ (how = "drop_epoch" /\ m.seq = 1))
  OBVIOUS
<1>4. PICK p : p = IF how = "gap" THEN End ELSE None
  OBVIOUS
<1>5. /\ toClient # <<>> /\ toClient' = Tail(toClient) /\ m.type = "row"
      /\ UNCHANGED <<daemon, online, faults, authoritative, hasOlder, init, resumed, opened, missed>>
      /\ cursor' = CASE restart -> Begin(m.epoch, m.seq)
                     [] how = "accept" -> [cursor EXCEPT !.end = m.seq]
                     [] OTHER -> cursor
      /\ shown' = CASE restart -> <<<<m.epoch, m.seq>>>>
                    [] how = "accept" -> Append(shown, <<m.epoch, m.seq>>)
                    [] OTHER -> shown
      /\ toDaemon' = toDaemon \o Sent(p)
      /\ inFlight' = inFlight \cup Keys(p)
  BY <1>2, <1>3, <1>4 DEF ReceiveRow
<1>6. /\ cursor' \in Ranges \cup {None} /\ shown' \in Seq(Lines) /\ Ascending'
      /\ Goes(m) /\ Forward
      /\ how = "gap" => cursor # None /\ UNCHANGED <<cursor, shown>>
      /\ cursor = None => cursor' # None /\ cursor'.epoch = m.epoch /\ cursor'.end = m.seq
      /\ cursor # None =>
           /\ cursor' # None
           /\ cursor'.epoch # cursor.epoch => cursor'.epoch = m.epoch
           /\ cursor.epoch # m.epoch /\ m.seq = 1 => cursor'.epoch = m.epoch /\ cursor'.end = m.seq
           /\ cursor.epoch = m.epoch /\ m.seq <= cursor.end + 1 =>
                cursor'.epoch = m.epoch /\ m.seq <= cursor'.end /\ how # "gap"
           /\ cursor.epoch # m.epoch => how # "gap"
  BY <1>2, <1>3, <1>5, RowMoves
<1>7. m \in Messages /\ m.seq \in Nat /\ m.seq > 0 /\ m.epoch \in Nat
  BY <1>1, <1>5, TakenIs, MessageTyped
<1>8. p \in Positions \cup {None} /\ (p # None => how = "gap" /\ cursor # None /\ p = End)
  BY <1>1, <1>4, <1>6, EndTyped
<1>9. p # None => p.epoch = cursor'.epoch /\ p.seq = cursor'.end /\ Next1(p) \in Fetches /\ Fits(Next1(p))
  <2> SUFFICES ASSUME p # None
               PROVE  p.epoch = cursor'.epoch /\ p.seq = cursor'.end /\ Next1(p) \in Fetches /\ Fits(Next1(p))
    OBVIOUS
  <2>1. cursor # None /\ cursor' = cursor /\ p = End
    BY <1>6, <1>8
  <2>2. p.epoch = cursor'.epoch /\ p.seq = cursor'.end
    BY <1>1, <2>1, EndTyped
  <2>3. /\ Next1(p) \in Fetches /\ AskShape(Next1(p)) /\ Next1(p).cursor = p
    BY <1>8, SentIs
  <2>4. cursor'.end <= cursor'.end
    BY <1>1, <2>1, StateTyped
  <2> QED
    BY <2>1, <2>2, <2>3, <2>4 DEF Fits
<1>10. /\ toDaemon' \in Seq(Fetches) /\ Queued \subseteq Queued'
       /\ \A r \in Queued' : r \in Queued \/ (p # None /\ r = Next1(p))
       /\ p # None => CatchUp(p) \in inFlight \/ Next1(p) \in Queued'
  <2>1. Sent(p) \in Seq(Fetches) /\ \A i \in 1..Len(Sent(p)) : p # None /\ Sent(p)[i] = Next1(p)
    BY <1>8, SentIs
  <2>2. /\ toDaemon' \in Seq(Fetches) /\ Queued \subseteq Queued'
        /\ \A r \in Queued' : r \in Queued \/ \E i \in 1..Len(Sent(p)) : r = Sent(p)[i]
        /\ \A i \in 1..Len(Sent(p)) : Sent(p)[i] \in Queued'
    BY <1>1, <1>5, <2>1, AskIs
  <2>3. p # None => \/ CatchUp(p) \in inFlight
                    \/ Len(Sent(p)) = 1 /\ Sent(p)[1] = Next1(p)
    BY <1>8, SentIs
  <2>4. p # None => CatchUp(p) \in inFlight \/ Next1(p) \in Queued'
    <3>1. 1 \in 1..1
      OBVIOUS
    <3> QED
      BY <2>2, <2>3, <3>1
  <2> QED
    BY <2>1, <2>2, <2>4
<1>11. m.seq = 1 \/ (cursor # None /\ cursor.epoch = m.epoch /\ m.seq <= cursor.end + 1) =>
         cursor' # None /\ cursor'.epoch = m.epoch /\ m.seq <= cursor'.end /\ how # "gap"
  <2>1. cursor # None => cursor.epoch \in Nat /\ cursor.end \in Nat /\ cursor.end > 0
    BY <1>1, StateTyped
  <2>2. CASE cursor = None
    BY <1>6, <1>7, <2>2
  <2>3. CASE cursor # None /\ cursor.epoch # m.epoch
    BY <1>6, <1>7, <2>3
  <2>4. CASE cursor # None /\ cursor.epoch = m.epoch
    <3>1. m.seq = 1 => m.seq <= cursor.end + 1
      BY <2>1, <2>4
    <3> QED
      BY <1>6, <2>4, <3>1
  <2> QED
    BY <2>2, <2>3, <2>4
<1> QED
  BY <1>5, <1>6, <1>8, <1>9, <1>10, <1>11

(* ReceiveRow keeps the base.                                               *)
LEMMA RowBase ==
  ASSUME Base, ReceiveRow
  PROVE  Base'
<1>1. TypeOK /\ Ascending /\ Chan
  BY DEF Base
<1>2. PICK m : m = Head(toClient)
  OBVIOUS
<1>3. /\ toClient # <<>> /\ toClient' = Tail(toClient)
      /\ UNCHANGED <<daemon, online, faults, authoritative, hasOlder, init, resumed, opened, missed>>
      /\ cursor' \in Ranges \cup {None} /\ shown' \in Seq(Lines) /\ Ascending'
      /\ Goes(Head(toClient)) /\ Forward
      /\ toDaemon' \in Seq(Fetches)
  BY <1>2, RowIsTaken
<1>4. PICK p \in Positions \cup {None} :
        /\ p # None => Fits(Next1(p))
        /\ inFlight' = inFlight \cup Keys(p)
        /\ \A r \in Queued' : r \in Queued \/ (p # None /\ r = Next1(p))
  BY <1>2, RowIsTaken
<1>5. inFlight' \subseteq [dir : {"after", "before"}, cursor : Positions]
  <2>1. Keys(p) \subseteq [dir : {"after", "before"}, cursor : Positions]
    BY <1>4, SentIs DEF Keys
  <2> QED
    BY <1>1, <1>4, <2>1 DEF TypeOK
<1>6. toClient' \in Seq(Messages)
  BY <1>1, <1>3, TakenIs
<1>7. TypeOK'
  <2>1. kept' \in Positions \cup {None}
    BY <1>1 DEF ReceiveRow, TypeOK
  <2> QED
    BY <1>1, <1>3, <1>5, <1>6, <2>1 DEF TypeOK, Messages, Lines, daemon
<1>8. UNCHANGED <<epoch, last>> /\ (cursor' # None => cursor'.epoch \in Nat /\ cursor'.end \in Nat)
  BY <1>3, RangeTyped DEF daemon
<1>9. Chan'
  BY <1>1, <1>3, <1>4, <1>8, TakeChan
<1> QED
  BY <1>3, <1>7, <1>9 DEF Base

(* ReceiveAnswer: where the view goes, and what is asked for next.          *)
LEMMA AnswerIsTaken ==
  ASSUME Base, ReceiveAnswer, NEW m, m = Head(toClient)
  PROVE  /\ toClient # <<>> /\ toClient' = Tail(toClient) /\ m.type = "answer"
         /\ UNCHANGED <<daemon, online, faults, resumed, opened>>
         /\ missed' = (missed \/ Ignored(m))
         /\ hasOlder' \in BOOLEAN /\ authoritative' \in BOOLEAN
         /\ init' = IF Resolves(m) THEN "none" ELSE init
         /\ cursor' \in Ranges \cup {None} /\ shown' \in Seq(Lines) /\ Ascending'
         /\ Goes(m) /\ Forward
         /\ toDaemon' \in Seq(Fetches) /\ Queued \subseteq Queued'
         /\ \E p, q \in Positions \cup {None} :
              /\ q = PageEnd(m)
              /\ inFlight' = (inFlight \cup Keys(p) \cup Keys(q)) \ Done(m)
              /\ \A r \in Queued' : \/ r \in Queued
                                    \/ p # None /\ r = Next1(p)
                                    \/ q # None /\ r = Next1(q)
              /\ p # None => /\ CatchUp(p) \in inFlight \/ Next1(p) \in Queued'
                             /\ m.request.dir = "tail" /\ Fits(Next1(p))
              /\ q # None => /\ CatchUp(q) \in inFlight \/ Next1(q) \in Queued'
                             /\ q.seq = Told(m) /\ Fits(Next1(q))
                             /\ m.request.dir = "after" => Told(m) > m.request.cursor.seq
              /\ p = None /\ m.request.dir # "before" /\ ~Ignored(m) /\ Whole(m) => Reaches(m)
         /\ m.reset => Reaches(m)
         /\ m.request.dir = "before" /\ ~m.reset => Stays
<1>1. TypeOK /\ Ascending /\ Chan
  BY DEF Base
<1>2. PICK a : a = Applied(m)
  OBVIOUS
<1>3. PICK p : p = BeforeGap(m)
  OBVIOUS
<1>4. PICK q : q = PageEnd(m)
  OBVIOUS
<1>5. /\ toClient # <<>> /\ toClient' = Tail(toClient) /\ m.type = "answer"
      /\ UNCHANGED <<daemon, online, faults, resumed, opened>>
      /\ cursor' = a.cursor /\ shown' = a.shown
      /\ hasOlder' = m.hasOlder
      /\ authoritative' = (authoritative \/ m.request.dir = "tail"
                             \/ (m.request.dir = "after" /\ ~m.hasNewer))
      /\ init' = IF Resolves(m) THEN "none" ELSE init
      /\ toDaemon' = toDaemon \o Sent(p) \o Sent(q)
      /\ inFlight' = (inFlight \cup Keys(p) \cup Keys(q)) \ Done(m)
      /\ missed' = (missed \/ Ignored(m))
  BY <1>2, <1>3, <1>4 DEF ReceiveAnswer
<1>6. /\ m \in Answers /\ m.epoch \in 1..Epochs /\ Told(m) \in Nat /\ m.epoch \in Nat
  BY <1>1, <1>5, HeadAnswer
<1>7. /\ a.cursor \in Ranges \cup {None} /\ a.shown \in Seq(Lines)
      /\ InOrder(a.cursor, a.shown)
      /\ Goes(m) /\ Forward
      /\ a.gap \in BOOLEAN
      /\ a.gap => m.request.dir = "tail" /\ cursor' # None
      /\ PageEnd(m) # None => /\ PageEnd(m) = Position(m.epoch, Told(m)) /\ Told(m) \in Seqs
                              /\ cursor' # None /\ cursor'.epoch = m.epoch
                              /\ Told(m) <= cursor'.end
                              /\ m.request.dir = "after" => Told(m) > m.request.cursor.seq
      /\ m.request.dir # "before" /\ ~a.gap /\ ~Ignored(m) /\ Whole(m) => Reaches(m)
      /\ m.reset => Goes(m) /\ Reaches(m)
      /\ m.request.dir = "before" /\ ~m.reset => Stays
  BY <1>1, <1>2, <1>5, AppliedIs
<1>8. Ascending'
  BY <1>5, <1>7 DEF Ascending, InOrder
<1>9. /\ p = IF a.gap THEN Position(cursor'.epoch, cursor'.end) ELSE None
      /\ a.gap => p \in Positions /\ p # None /\ p.epoch = cursor'.epoch /\ p.seq = cursor'.end
  <2>1. p = IF a.gap THEN Position(cursor'.epoch, cursor'.end) ELSE None
    BY <1>2, <1>3, <1>5 DEF BeforeGap
  <2>2. a.gap => p \in Positions /\ p.epoch = cursor'.epoch /\ p.seq = cursor'.end
    BY <1>5, <1>7, <2>1, RangeTyped DEF Position, Positions
  <2> QED
    BY <2>1, <2>2, PositionTyped
<1>10. q # None => q \in Positions /\ q.epoch = m.epoch /\ q.seq = Told(m)
  BY <1>4, <1>6, <1>7 DEF Position, Positions
<1>11. p \in Positions \cup {None} /\ q \in Positions \cup {None} /\ (p # None => a.gap)
  BY <1>7, <1>9, <1>10
<1>12. p # None => Fits(Next1(p))
  <2> SUFFICES ASSUME p # None PROVE Fits(Next1(p))
    OBVIOUS
  <2>1. Next1(p) \in Fetches /\ AskShape(Next1(p)) /\ Next1(p).cursor = p
    BY <1>11, SentIs
  <2>2. cursor' # None /\ p.epoch = cursor'.epoch /\ p.seq <= cursor'.end
    BY <1>5, <1>7, <1>9, <1>11, RangeTyped
  <2> QED
    BY <2>1, <2>2 DEF Fits
<1>13. q # None => Fits(Next1(q))
  <2> SUFFICES ASSUME q # None PROVE Fits(Next1(q))
    OBVIOUS
  <2>1. Next1(q) \in Fetches /\ AskShape(Next1(q)) /\ Next1(q).cursor = q
    BY <1>11, SentIs
  <2> QED
    BY <1>4, <1>7, <1>10, <2>1 DEF Fits
<1>14. /\ toDaemon' \in Seq(Fetches) /\ Queued \subseteq Queued'
       /\ \A r \in Queued' : \/ r \in Queued
                             \/ p # None /\ r = Next1(p)
                             \/ q # None /\ r = Next1(q)
       /\ p # None => CatchUp(p) \in inFlight \/ Next1(p) \in Queued'
       /\ q # None => CatchUp(q) \in inFlight \/ Next1(q) \in Queued'
  BY <1>1, <1>5, <1>11, CatchUpIs
<1>15. hasOlder' \in BOOLEAN /\ authoritative' \in BOOLEAN
  BY <1>1, <1>5, <1>6 DEF Answers, TypeOK
<1>16. p = None => ~a.gap
  BY <1>9
<1> QED
  BY <1>4, <1>5, <1>7, <1>8, <1>10, <1>11, <1>12, <1>13, <1>14, <1>15, <1>16

(* ReceiveAnswer keeps the base.                                            *)
LEMMA AnswerTakenBase ==
  ASSUME Base, ReceiveAnswer
  PROVE  Base'
<1>1. TypeOK /\ Ascending /\ Chan
  BY DEF Base
<1>2. PICK m : m = Head(toClient)
  OBVIOUS
<1>3. /\ toClient # <<>> /\ toClient' = Tail(toClient)
      /\ UNCHANGED <<daemon, online, faults, resumed, opened>>
      /\ missed' = (missed \/ Ignored(m))
      /\ hasOlder' \in BOOLEAN /\ authoritative' \in BOOLEAN
      /\ init' = IF Resolves(m) THEN "none" ELSE init
      /\ cursor' \in Ranges \cup {None} /\ shown' \in Seq(Lines) /\ Ascending'
      /\ Goes(Head(toClient)) /\ Forward
      /\ toDaemon' \in Seq(Fetches)
  BY <1>2, AnswerIsTaken
<1>4. PICK p, q \in Positions \cup {None} :
        /\ inFlight' = (inFlight \cup Keys(p) \cup Keys(q)) \ Done(m)
        /\ \A r \in Queued' : \/ r \in Queued
                              \/ p # None /\ r = Next1(p)
                              \/ q # None /\ r = Next1(q)
        /\ p # None => Fits(Next1(p))
        /\ q # None => Fits(Next1(q))
  BY <1>2, AnswerIsTaken
<1>5. inFlight' \subseteq [dir : {"after", "before"}, cursor : Positions]
  <2>1. Keys(p) \subseteq [dir : {"after", "before"}, cursor : Positions]
    BY <1>4, SentIs DEF Keys
  <2>2. Keys(q) \subseteq [dir : {"after", "before"}, cursor : Positions]
    BY <1>4, SentIs DEF Keys
  <2> QED
    BY <1>1, <1>4, <2>1, <2>2 DEF TypeOK
<1>6. toClient' \in Seq(Messages)
  BY <1>1, <1>3, TakenIs
<1>7. TypeOK'
  <2>1. missed' \in BOOLEAN /\ init' \in {"none", "tail", "after", "left"}
    BY <1>1, <1>3 DEF TypeOK
  <2>2. kept' \in Positions \cup {None}
    BY <1>1, EndTyped DEF ReceiveAnswer, Kept, TypeOK
  <2> QED
    BY <1>1, <1>3, <1>5, <1>6, <2>1, <2>2 DEF TypeOK, Messages, Lines, daemon
<1>8. UNCHANGED <<epoch, last>> /\ (cursor' # None => cursor'.epoch \in Nat /\ cursor'.end \in Nat)
  BY <1>3, RangeTyped DEF daemon
<1>9. Chan'
  BY <1>1, <1>3, <1>4, <1>8, TakeChan
<1> QED
  BY <1>3, <1>7, <1>9 DEF Base

(* Every step keeps the base.                                               *)
LEMMA BaseStep ==
  ASSUME Base, Offline, [Next]_vars
  PROVE  Base'
<1>1. CASE AppendRow
  BY <1>1, AppendRowBase
<1>2. CASE SeedRow
  BY <1>2, SeedRowBase
<1>3. CASE SeedEnds
  BY <1>3, SeedEndsBase
<1>4. CASE Unload
  BY <1>4, UnloadBase
<1>5. CASE Load
  <2>1. NewLog("background")
    BY <1>5 DEF Load
  <2> QED
    BY <2>1, NewLogBase
<1>6. CASE Reload
  <2>1. PICK for \in {"background", "reload"} : NewLog(for)
    BY <1>6 DEF Reload
  <2> QED
    BY <2>1, NewLogBase
<1>7. CASE Rewind
  BY <1>7, RewindBase
<1>8. CASE Answer
  BY <1>8, AnswerBase
<1>9. CASE Fail
  BY <1>9, FailBase
<1>10. CASE Open
  BY <1>10, OpenBase
<1>11. CASE LoadOlder
  BY <1>11, LoadOlderBase
<1>12. CASE InitTimesOut \/ RequestTimesOut \/ Reconnect \/ OpenJoins
  BY <1>12, TimeoutsBase
<1>13. CASE ReceiveAnswer
  BY <1>13, AnswerTakenBase
<1>14. CASE ReceiveError
  BY <1>14, ErrorBase
<1>15. CASE ReceiveRow
  BY <1>15, RowBase
<1>16. CASE ReceiveReloaded
  BY <1>16, ReloadedBase
<1>17. CASE Disconnect
  BY <1>17, DisconnectBase
<1>18. CASE UNCHANGED vars
  <2>1. TypeOK
    BY DEF Base
  <2>2. TypeOK'
    BY <1>18, <2>1 DEF TypeOK, vars, daemon, view, client
  <2> QED
    BY <1>18, <2>2, SameBase DEF vars, daemon, view, client
<1> QED
  BY <1>1, <1>2, <1>3, <1>4, <1>5, <1>6, <1>7, <1>8, <1>9, <1>10, <1>11, <1>12, <1>13, <1>14,
     <1>15, <1>16, <1>17, <1>18 DEF Next, DaemonNext, ClientNext, Receive

-----------------------------------------------------------------------------
(* What is kept behind the rows.                                            *)

(* What is kept is not told of by the messages that are left, or the        *)
(* cursor claims it.                                                        *)
LEMMA KeptTaken ==
  ASSUME Base, KeptBehind, toClient # <<>>, toClient' = Tail(toClient), epoch' = epoch,
         Goes(Head(toClient)), Forward, cursor' \in Ranges \cup {None},
         kept' = None \/ kept' = kept \/ kept' = Kept
  PROVE  KeptBehind'
<1> SUFFICES ASSUME kept' # None
             PROVE  IF cursor' = None
                    THEN /\ kept'.epoch < epoch
                         /\ \A i \in 1..Len(toClient') : Dated(toClient'[i]) => kept'.epoch < toClient'[i].epoch
                    ELSE Within(kept'.epoch, kept'.seq, cursor'.epoch, cursor'.end)
  BY DEF KeptBehind
<1> DEFINE m == Head(toClient)
           k == Len(toClient')
<1>1. TypeOK /\ Chan
  BY DEF Base
<1>2. /\ m = toClient[1] /\ 1 \in 1..Len(toClient) /\ k \in Nat
      /\ \A i \in 1..k : toClient'[i] = toClient[i + 1] /\ i + 1 \in 1..Len(toClient)
  BY <1>1, TakenIs
<1>3. /\ epoch \in Nat
      /\ cursor # None => cursor.epoch \in Nat /\ cursor.end \in Nat /\ cursor.end > 0
      /\ \A i \in 1..Len(toClient) : toClient[i] \in Messages
  BY <1>1, StateTyped
<1>4. \A i \in 1..Len(toClient) : Dated(toClient[i]) => toClient[i].epoch \in Nat /\ Told(toClient[i]) \in Nat
  BY <1>1, <1>3, ToldTyped DEF Chan, Shape
<1>5. kept' \in Positions
  BY <1>1, EndTyped DEF Kept, TypeOK
<1>6. kept'.epoch \in Nat /\ kept'.seq \in Nat
  BY <1>5, PositionTyped
<1>7. cursor' # None => cursor'.epoch \in Nat /\ cursor'.end \in Nat
  BY RangeTyped
<1> HIDE DEF m, k
<1>8. CASE cursor = None
  <2>1. kept' = kept
    BY <1>8 DEF Kept
  <2>2. /\ kept'.epoch < epoch
        /\ \A i \in 1..Len(toClient) : Dated(toClient[i]) => kept'.epoch < toClient[i].epoch
    BY <1>8, <2>1 DEF KeptBehind
  <2>3. CASE cursor' = None
    BY <1>2, <2>2, <2>3 DEF k
  <2>4. CASE cursor' # None
    <3>1. Dated(m) /\ cursor'.epoch = m.epoch
      BY <1>8, <2>4 DEF Goes, Stays, m
    <3>2. kept'.epoch < cursor'.epoch
      BY <1>2, <2>2, <3>1
    <3> QED
      BY <1>6, <1>7, <2>4, <3>2 DEF Within
  <2> QED
    BY <2>3, <2>4
<1>9. CASE cursor # None
  <2>1. Within(kept'.epoch, kept'.seq, cursor.epoch, cursor.end)
    <3>1. CASE kept' = kept
      BY <1>9, <3>1 DEF KeptBehind
    <3>2. CASE kept' = End
      BY <1>3, <1>9, <3>2 DEF End, Within
    <3> QED
      BY <1>9, <3>1, <3>2 DEF Kept
  <2>2. CASE cursor' # None
    <3>1. cursor.epoch <= cursor'.epoch /\ (cursor'.epoch = cursor.epoch => cursor.end <= cursor'.end)
      BY <1>9, <2>2 DEF Forward
    <3> QED
      BY <1>3, <1>6, <1>7, <1>9, <2>1, <2>2, <3>1 DEF Within
  <2>3. CASE cursor' = None
    <3>1. Dated(m) /\ News(m) /\ Whole(m) /\ Told(m) = 0
      BY <1>9, <2>3 DEF Goes, Stays, m
    <3>2. Beyond(cursor.epoch, cursor.end, m) /\ m.epoch <= epoch
      BY <1>1, <1>2, <1>9, <3>1 DEF Chan, Ordered, Past
    <3>3. cursor.epoch < m.epoch
      BY <1>2, <1>3, <1>4, <1>9, <3>1, <3>2 DEF Beyond
    <3>4. kept'.epoch < m.epoch
      BY <1>2, <1>3, <1>4, <1>6, <1>9, <2>1, <3>1, <3>3 DEF Within
    <3>5. ASSUME NEW i \in 1..k, Dated(toClient'[i]) PROVE kept'.epoch < toClient'[i].epoch
      <4>1. 1 < i + 1 /\ i + 1 \in 1..Len(toClient) /\ toClient'[i] = toClient[i + 1]
        BY <1>2
      <4>2. m.epoch <= toClient[i + 1].epoch
        BY <1>1, <1>2, <3>1, <3>5, <4>1 DEF Chan, Ordered
      <4> QED
        BY <1>2, <1>4, <1>6, <3>1, <3>4, <3>5, <4>1, <4>2
    <3> QED
      BY <1>2, <1>3, <1>4, <1>6, <2>3, <3>1, <3>2, <3>4, <3>5 DEF k
  <2> QED
    BY <2>2, <2>3
<1> QED
  BY <1>8, <1>9

(* What the daemon sends does not tell of what is kept but not shown.       *)
LEMMA KeptPushed ==
  ASSUME Base, KeptBehind, NEW ms \in Seq(Messages), toClient' = toClient \o ms,
         epoch' \in Nat, epoch <= epoch',
         \A i \in 1..Len(ms) : Dated(ms[i]) => ms[i].epoch = epoch',
         UNCHANGED <<cursor, kept>>
  PROVE  KeptBehind'
<1>1. TypeOK
  BY DEF Base
<1>2. CASE kept # None /\ cursor = None
  <2>1. kept.epoch < epoch /\ kept.epoch \in Nat /\ epoch \in Nat
    BY <1>1, <1>2, PositionTyped, StateTyped DEF KeptBehind, TypeOK
  <2>2. ASSUME NEW i \in 1..Len(toClient'), Dated(toClient'[i]) PROVE kept.epoch < toClient'[i].epoch
    <3>1. CASE i \in 1..Len(toClient)
      BY <1>1, <1>2, <2>2, <3>1, PushedIs DEF KeptBehind
    <3>2. CASE i \notin 1..Len(toClient)
      <4>1. i - Len(toClient) \in 1..Len(ms) /\ toClient'[i] = ms[i - Len(toClient)]
        BY <1>1, <3>2, PushedIs
      <4> QED
        BY <2>1, <2>2, <4>1
    <3> QED
      BY <3>1, <3>2
  <2> QED
    BY <1>2, <2>1, <2>2 DEF KeptBehind
<1> QED
  BY <1>2 DEF KeptBehind

(* Every step leaves what is kept behind the cursor, or in a log nothing    *)
(* tells of.                                                                *)
LEMMA KeptStep ==
  ASSUME Base, Offline, KeptBehind, [Next]_vars
  PROVE  KeptBehind'
<1>1. TypeOK /\ Chan
  BY DEF Base
<1>2. epoch \in Nat
  BY <1>1, StateTyped
<1>3. CASE AppendRow
  <2>1. Push(<<Row(epoch, last + 1)>>) /\ UNCHANGED <<epoch, client>>
    BY <1>3 DEF AppendRow
  <2>2. Row(epoch, last + 1) \in Messages /\ Row(epoch, last + 1).epoch = epoch
    BY <1>1, <1>3, StateTyped, Constants DEF AppendRow, TypeOK, Row, Messages, Events, Seqs
  <2>3. <<Row(epoch, last + 1)>> \in Seq(Messages)
    BY <2>2
  <2>4. PICK qs \in Seq(Messages) : /\ toClient' = toClient \o qs
                                    /\ qs = IF online THEN <<Row(epoch, last + 1)>> ELSE <<>>
    BY <1>1, <2>1, <2>3, PushIs
  <2>5. \A i \in 1..Len(qs) : Dated(qs[i]) => qs[i].epoch = epoch'
    BY <2>1, <2>2, <2>4
  <2>6. epoch' \in Nat /\ epoch <= epoch' /\ UNCHANGED <<cursor, kept>>
    BY <1>2, <2>1 DEF client, view
  <2> QED
    BY <2>4, <2>5, <2>6, KeptPushed
<1>4. CASE SeedEnds
  <2> DEFINE ms == IF seeding = "reload" THEN <<[type |-> "reloaded"]>> ELSE <<>>
  <2>1. Push(ms) /\ UNCHANGED <<epoch, client>>
    BY <1>4 DEF SeedEnds
  <2>2. ms \in Seq(Messages) /\ \A i \in 1..Len(ms) : ms[i] = [type |-> "reloaded"]
    <3>1. [type |-> "reloaded"] \in Messages
      BY DEF Messages
    <3>2. CASE seeding = "reload"
      BY <3>1, <3>2
    <3>3. CASE seeding # "reload"
      BY <3>3
    <3> QED
      BY <3>2, <3>3
  <2> HIDE DEF ms
  <2>3. PICK qs \in Seq(Messages) : toClient' = toClient \o qs /\ qs = IF online THEN ms ELSE <<>>
    BY <1>1, <2>1, <2>2, PushIs
  <2>4. \A i \in 1..Len(qs) : Dated(qs[i]) => qs[i].epoch = epoch'
    BY <2>2, <2>3 DEF Dated
  <2>5. epoch' \in Nat /\ epoch <= epoch' /\ UNCHANGED <<cursor, kept>>
    BY <1>2, <2>1 DEF client, view
  <2> QED
    BY <2>3, <2>4, <2>5, KeptPushed
<1>5. CASE Rewind
  <2>1. PICK ms \in Seq(Messages) :
          /\ toClient' = toClient \o ms
          /\ \A i \in 1..Len(ms) :
               IF i <= last' THEN ms[i] = Row(epoch', i) ELSE ms[i].type = "reloaded"
    BY <1>1, <1>5, RewindIs
  <2>2. epoch' = epoch + 1 /\ UNCHANGED client
    BY <1>1, <1>5, RewindIs
  <2>3. ASSUME NEW i \in 1..Len(ms), Dated(ms[i]) PROVE ms[i].epoch = epoch'
    <3>1. ms[i] = Row(epoch', i)
      BY <2>1, <2>3 DEF Dated
    <3> QED
      BY <3>1 DEF Row
  <2>4. epoch' \in Nat /\ epoch <= epoch' /\ UNCHANGED <<cursor, kept>>
    BY <1>2, <2>2 DEF client, view
  <2> QED
    BY <2>1, <2>3, <2>4, KeptPushed
<1>6. CASE Answer
  <2>1. UNCHANGED <<daemon, client>>
    BY <1>6, AnswerIs
  <2>2. PICK m \in Messages : toClient' = toClient \o <<m>> /\ m.epoch = epoch
    BY <1>6, AnswerIs
  <2>3. <<m>> \in Seq(Messages) /\ \A i \in 1..Len(<<m>>) : Dated(<<m>>[i]) => <<m>>[i].epoch = epoch'
    BY <2>1, <2>2 DEF daemon
  <2>4. epoch' \in Nat /\ epoch <= epoch' /\ UNCHANGED <<cursor, kept>>
    BY <1>2, <2>1 DEF daemon, client, view
  <2> QED
    BY <2>2, <2>3, <2>4, KeptPushed
<1>7. CASE Fail
  <2>1. UNCHANGED <<daemon, client>>
    BY <1>1, <1>7, FailIs
  <2>2. PICK m \in Messages : toClient' = toClient \o <<m>> /\ m.type = "error"
    BY <1>1, <1>7, FailIs
  <2>3. <<m>> \in Seq(Messages) /\ \A i \in 1..Len(<<m>>) : Dated(<<m>>[i]) => <<m>>[i].epoch = epoch'
    BY <2>2 DEF Dated
  <2>4. epoch' \in Nat /\ epoch <= epoch' /\ UNCHANGED <<cursor, kept>>
    BY <1>2, <2>1 DEF daemon, client, view
  <2> QED
    BY <2>2, <2>3, <2>4, KeptPushed
<1>8. CASE ReceiveAnswer
  <2>1. PICK m : m = Head(toClient)
    OBVIOUS
  <2>2. /\ toClient # <<>> /\ toClient' = Tail(toClient) /\ UNCHANGED daemon
        /\ cursor' \in Ranges \cup {None} /\ Goes(Head(toClient)) /\ Forward
    BY <1>8, <2>1, AnswerIsTaken
  <2>3. kept' = kept \/ kept' = Kept
    BY <1>8 DEF ReceiveAnswer
  <2> QED
    BY <2>2, <2>3, KeptTaken DEF daemon
<1>9. CASE ReceiveRow
  <2>1. PICK m : m = Head(toClient)
    OBVIOUS
  <2>2. /\ toClient # <<>> /\ toClient' = Tail(toClient) /\ UNCHANGED daemon
        /\ cursor' \in Ranges \cup {None} /\ Goes(Head(toClient)) /\ Forward
    BY <1>9, <2>1, RowIsTaken
  <2>3. kept' = kept \/ kept' = None
    BY <1>9 DEF ReceiveRow
  <2> QED
    BY <2>2, <2>3, KeptTaken DEF daemon
<1>10. CASE ReceiveError \/ ReceiveReloaded
  <2>1. toClient # <<>> /\ toClient' = Tail(toClient) /\ UNCHANGED <<epoch, cursor, kept>>
    BY <1>10 DEF ReceiveError, ReceiveReloaded, daemon, client, view
  <2>2. cursor \in Ranges \cup {None} /\ (cursor # None => cursor.epoch \in Nat /\ cursor.end \in Nat)
    BY <1>1, StateTyped DEF TypeOK
  <2>3. Stays /\ Forward
    BY <2>1, <2>2 DEF Stays, Forward
  <2> QED
    BY <2>1, <2>2, <2>3, KeptTaken DEF Goes
<1>11. CASE Load \/ Reload
  <2>1. epoch' = epoch + 1 /\ UNCHANGED <<toClient, client>>
    BY <1>11 DEF Load, Reload, NewLog
  <2>2. kept # None => kept.epoch \in Nat
    BY <1>1, PositionTyped DEF TypeOK
  <2> QED
    BY <1>2, <2>1, <2>2 DEF KeptBehind, client, view
<1>12. CASE Disconnect
  <2>1. toClient' = <<>> /\ UNCHANGED <<epoch, view>>
    BY <1>12 DEF Disconnect
  <2> QED
    BY <2>1 DEF KeptBehind, view
<1>13. CASE \/ SeedRow \/ Unload \/ Open \/ OpenJoins \/ LoadOlder \/ InitTimesOut \/ RequestTimesOut
            \/ Reconnect \/ UNCHANGED vars
  <2>1. UNCHANGED <<epoch, toClient, view>>
    BY <1>13 DEF SeedRow, Unload, Open, OpenJoins, LoadOlder, InitTimesOut, RequestTimesOut, Reconnect,
                 vars, daemon, client, view
  <2> QED
    BY <2>1 DEF KeptBehind, view
<1> QED
  BY <1>3, <1>4, <1>5, <1>6, <1>7, <1>8, <1>9, <1>10, <1>11, <1>12, <1>13
     DEF Next, DaemonNext, ClientNext, Receive

-----------------------------------------------------------------------------
(* The app never goes back; offline nothing is under way.                   *)

(* No step takes the view back.                                             *)
LEMMA ForwardStep ==
  ASSUME Base, [Next]_vars
  PROVE  cursor # None /\ cursor' # None =>
           \/ cursor'.epoch > cursor.epoch
           \/ cursor'.epoch = cursor.epoch /\ cursor'.end >= cursor.end
<1>1. TypeOK
  BY DEF Base
<1>2. cursor # None => cursor.epoch \in Nat /\ cursor.end \in Nat
  BY <1>1, StateTyped
<1>3. CASE ReceiveAnswer \/ ReceiveRow
  <2>1. Forward /\ cursor' \in Ranges \cup {None}
    BY <1>3, AnswerIsTaken, RowIsTaken
  <2>2. cursor' # None => cursor'.epoch \in Nat /\ cursor'.end \in Nat
    BY <2>1, RangeTyped
  <2> QED
    BY <1>2, <2>1, <2>2 DEF Forward
<1>4. CASE ~(ReceiveAnswer \/ ReceiveRow)
  <2>1. cursor' = cursor
    BY <1>4 DEF Next, DaemonNext, ClientNext, Receive, AppendRow, SeedRow, SeedEnds, Unload, Load,
                Reload, NewLog, Rewind, Answer, Fail, Open, OpenJoins, LoadOlder, InitTimesOut,
                RequestTimesOut, ReceiveError, ReceiveReloaded, Disconnect, Reconnect,
                vars, daemon, view, client
  <2> QED
    BY <1>2, <2>1
<1> QED
  BY <1>3, <1>4

(* Offline nothing is under way, after every step.                          *)
LEMMA OfflineStep ==
  ASSUME TypeOK, Offline, [Next]_vars
  PROVE  Offline'
<1>1. CASE online' # online
  <2>1. Disconnect \/ Reconnect
    BY <1>1 DEF Next, DaemonNext, ClientNext, Receive, AppendRow, SeedRow, SeedEnds, Unload, Load,
                Reload, NewLog, Rewind, Answer, Fail, Open, OpenJoins, LoadOlder, InitTimesOut,
                RequestTimesOut, ReceiveError, ReceiveReloaded, ReceiveAnswer, ReceiveRow,
                vars, daemon, view, client
  <2> QED
    BY <2>1 DEF Offline, Syncing, Disconnect, Reconnect
<1>2. CASE online' = online /\ online
  BY <1>2 DEF Offline
<1>3. CASE online' = online /\ ~online
  <2>1. toDaemon = <<>> /\ toClient = <<>> /\ ~opened /\ ~Syncing /\ inFlight = {}
    BY <1>3 DEF Offline
  <2> SUFFICES /\ toDaemon' = toDaemon /\ toClient' = toClient /\ opened' = opened
               /\ init' \in {init, "none"} /\ inFlight' = inFlight
    BY <2>1 DEF Offline, Syncing
  <2>2. CASE AppendRow \/ SeedEnds \/ Rewind
    BY <1>3, <2>1, <2>2 DEF AppendRow, SeedEnds, Rewind, Push, client
  <2>3. CASE SeedRow \/ Unload \/ Load \/ Reload
    BY <2>3 DEF SeedRow, Unload, Load, Reload, NewLog, client
  <2>4. CASE Answer \/ Fail
    BY <2>1, <2>4 DEF Answer, Fail
  <2>5. CASE Open \/ OpenJoins \/ LoadOlder \/ Disconnect \/ Reconnect
    BY <1>3, <2>5 DEF Open, OpenJoins, LoadOlder, Disconnect, Reconnect
  <2>6. CASE InitTimesOut \/ RequestTimesOut
    BY <2>1, <2>6 DEF InitTimesOut, RequestTimesOut
  <2>7. CASE Receive
    BY <2>1, <2>7 DEF Receive, ReceiveAnswer, ReceiveError, ReceiveRow, ReceiveReloaded
  <2>8. CASE UNCHANGED vars
    BY <2>8 DEF vars, client
  <2> QED
    BY <2>2, <2>3, <2>4, <2>5, <2>6, <2>7, <2>8 DEF Next, DaemonNext, ClientNext
<1> QED
  BY <1>1, <1>2, <1>3

-----------------------------------------------------------------------------
(* A request that counts as under way is; a first sync is answered.         *)

(* The two invariants over the requests that wait for the daemon or for     *)
(* the app.                                                                 *)
LEMMA RequestSets ==
  /\ InFlightReal <=> \A k \in inFlight : \E r \in Waiting : r.tracked /\ Key(r) = k
  /\ InFlightReal' <=> \A k \in inFlight' : \E r \in Waiting' : r.tracked /\ Key(r) = k
  /\ InitIsAnswered <=> (Syncing => \E r \in Waiting : r.dir = init)
  /\ InitIsAnswered' <=> (Syncing' => \E r \in Waiting' : r.dir = init')
<1>1. InFlightReal <=> \A k \in inFlight : \E r \in Waiting : r.tracked /\ Key(r) = k
  BY DEF InFlightReal, Tracked, Waiting
<1>2. InFlightReal' <=> \A k \in inFlight' : \E r \in Waiting' : r.tracked /\ Key(r) = k
  BY DEF InFlightReal, Tracked, Waiting, Key
<1>3. InitIsAnswered <=> (Syncing => \E r \in Waiting : r.dir = init)
  BY DEF InitIsAnswered, Waiting, Queued, Replied, Replies
<1>4. InitIsAnswered' <=> (Syncing' => \E r \in Waiting' : r.dir = init')
  BY DEF InitIsAnswered, Waiting, Queued, Replied, Replies
<1> QED
  BY <1>1, <1>2, <1>3, <1>4

Asks == InFlightReal /\ InitIsAnswered

(* What loses no request keeps them.                                        *)
LEMMA SameAsks ==
  ASSUME Asks, Waiting \subseteq Waiting', inFlight' \subseteq inFlight, init' \in {init, "none"}
  PROVE  Asks'
BY RequestSets DEF Asks, Syncing

(* Pushing, and answering or failing a request, lose none.                  *)
LEMMA PushWaiting ==
  ASSUME TypeOK, NEW ms \in Seq(Messages), toClient' = toClient \o ms, UNCHANGED toDaemon
  PROVE  Waiting \subseteq Waiting'
<1>1. Queued' = Queued
  BY DEF Queued
<1> QED
  BY <1>1, PushedReplies DEF Waiting

(* An answer or a failure takes the place of its request.                   *)
LEMMA ReplyWaiting ==
  ASSUME TypeOK, toDaemon # <<>>, toDaemon' = Tail(toDaemon),
         NEW m \in Messages, toClient' = toClient \o <<m>>, Replies(m), m.request = Head(toDaemon)
  PROVE  Waiting \subseteq Waiting'
<1>1. \A r \in Queued : r \in Queued' \/ r = Head(toDaemon)
  BY QueueTail
<1>2. PICK ms : ms = <<m>>
  OBVIOUS
<1>3. ms \in Seq(Messages) /\ Len(ms) = 1 /\ ms[1] = m /\ 1 \in 1..Len(ms)
  BY <1>2
<1>4. Replied \subseteq Replied' /\ m.request \in Replied'
  BY <1>2, <1>3, PushedReplies
<1> QED
  BY <1>1, <1>4 DEF Waiting

(* Every step keeps the requests in flight real and the first sync          *)
(* answered.                                                                *)
LEMMA AsksStep ==
  ASSUME Base, Offline, Asks, [Next]_vars
  PROVE  Asks'
<1>1. TypeOK /\ Chan
  BY DEF Base
<1>2. CASE AppendRow
  <2>1. PICK m : m = Row(epoch, last + 1)
    OBVIOUS
  <2>2. m \in Messages
    BY <1>1, <1>2, <2>1, StateTyped, Constants DEF AppendRow, Row, Events, Messages, Seqs
  <2>3. <<m>> \in Seq(Messages) /\ Push(<<m>>) /\ UNCHANGED <<toDaemon, init, inFlight>>
    BY <1>2, <2>1, <2>2 DEF AppendRow, client
  <2>4. PICK qs \in Seq(Messages) : toClient' = toClient \o qs
    BY <1>1, <2>3, PushIs
  <2> QED
    BY <1>1, <2>3, <2>4, PushWaiting, SameAsks
<1>3. CASE SeedEnds
  <2>1. PICK ms \in Seq(Messages) : Push(ms)
    <3>1. [type |-> "reloaded"] \in Messages
      BY DEF Messages
    <3>2. <<[type |-> "reloaded"]>> \in Seq(Messages) /\ <<>> \in Seq(Messages)
      BY <3>1
    <3> QED
      BY <1>3, <3>2 DEF SeedEnds
  <2>2. PICK qs \in Seq(Messages) : toClient' = toClient \o qs
    BY <1>1, <2>1, PushIs
  <2>3. UNCHANGED <<toDaemon, init, inFlight>>
    BY <1>3 DEF SeedEnds, client
  <2> QED
    BY <1>1, <2>2, <2>3, PushWaiting, SameAsks
<1>4. CASE Rewind
  <2>1. UNCHANGED <<toDaemon, client>>
    BY <1>1, <1>4, RewindIs
  <2>2. PICK ms \in Seq(Messages) : toClient' = toClient \o ms
    BY <1>1, <1>4, RewindIs
  <2> QED
    BY <1>1, <2>1, <2>2, PushWaiting, SameAsks DEF client
<1>5. CASE UNCHANGED <<toDaemon, toClient>> /\ inFlight' \subseteq inFlight /\ init' \in {init, "none"}
  <2>1. Waiting' = Waiting
    BY <1>5 DEF Waiting, Queued, Replied
  <2> QED
    BY <1>5, <2>1, SameAsks
<1>6. CASE SeedRow \/ Unload \/ Load \/ Reload \/ InitTimesOut \/ RequestTimesOut \/ Reconnect
           \/ OpenJoins \/ UNCHANGED vars
  BY <1>5, <1>6 DEF SeedRow, OpenJoins, Unload, Load, Reload, NewLog, InitTimesOut, RequestTimesOut, Reconnect,
                    vars, client
<1>7. CASE Answer
  <2>1. UNCHANGED <<init, inFlight>> /\ toDaemon # <<>> /\ toDaemon' = Tail(toDaemon)
    BY <1>7, AnswerIs DEF client
  <2>2. PICK m \in Messages :
          toClient' = toClient \o <<m>> /\ m.type = "answer" /\ m.request = Head(toDaemon)
    BY <1>7, AnswerIs
  <2>3. Waiting \subseteq Waiting'
    BY <1>1, <2>1, <2>2, ReplyWaiting DEF Replies
  <2> QED
    BY <2>1, <2>3, SameAsks
<1>8. CASE Fail
  <2>1. UNCHANGED <<init, inFlight>> /\ toDaemon # <<>> /\ toDaemon' = Tail(toDaemon)
    BY <1>1, <1>8, FailIs DEF client
  <2>2. PICK m \in Messages :
          toClient' = toClient \o <<m>> /\ m.type = "error" /\ m.request = Head(toDaemon)
    BY <1>1, <1>8, FailIs
  <2>3. Waiting \subseteq Waiting'
    BY <1>1, <2>1, <2>2, ReplyWaiting DEF Replies
  <2> QED
    BY <2>1, <2>3, SameAsks
<1>9. CASE Open
  <2>1. PICK r : /\ r \in Fetches /\ r.dir = init' /\ toDaemon' = Append(toDaemon, r)
    <3> DEFINE after == authoritative /\ cursor # None
               r == IF after THEN Request("after", End, Page, FALSE)
                    ELSE Request("tail", None, Page, FALSE)
    <3>1. toDaemon' = Append(toDaemon, r) /\ init' = IF after THEN "after" ELSE "tail"
      BY <1>9 DEF Open
    <3>2. r \in Fetches /\ r.dir = init'
      <4>1. after => End \in Positions
        BY <1>1, EndTyped
      <4> QED
        BY <3>1, <4>1 DEF Request, Fetches
    <3> QED
      BY <3>1, <3>2
  <2>2. Queued \subseteq Queued' /\ r \in Queued'
    BY <1>1, <2>1, AskOne
  <2>3. Replied' = Replied /\ inFlight' = inFlight
    BY <1>9 DEF Open, Replied
  <2> QED
    BY <2>1, <2>2, <2>3, RequestSets DEF Asks, Waiting
<1>10. CASE LoadOlder
  <2>1. PICK r \in Fetches : /\ toDaemon' = Append(toDaemon, r) /\ r.tracked
                             /\ inFlight' = inFlight \cup {Key(r)}
    BY <1>10, LoadOlderIs
  <2>2. UNCHANGED <<toClient, init>>
    BY <1>10, LoadOlderIs
  <2>3. Queued \subseteq Queued' /\ r \in Queued'
    BY <1>1, <2>1, AskOne
  <2>4. Replied' = Replied
    BY <2>2 DEF Replied
  <2> QED
    BY <2>1, <2>2, <2>3, <2>4, RequestSets DEF Asks, Waiting, Syncing
<1>11. CASE ReceiveReloaded
  <2>1. PICK r \in Fetches : toDaemon' = Append(toDaemon, r)
    BY <1>1, <1>11, ReloadedIs
  <2>2. /\ toClient # <<>> /\ Head(toClient).type = "reloaded" /\ toClient' = Tail(toClient)
        /\ UNCHANGED <<init, inFlight>>
    BY <1>1, <1>11, ReloadedIs DEF client
  <2>3. Queued \subseteq Queued'
    BY <1>1, <2>1, AskOne
  <2>4. Replied \subseteq Replied'
    BY <1>1, <2>2, TakenReplies DEF Replies
  <2> QED
    BY <2>2, <2>3, <2>4, SameAsks DEF Waiting
<1>12. CASE ReceiveRow
  <2>1. PICK m : m = Head(toClient)
    OBVIOUS
  <2>2. /\ toClient # <<>> /\ toClient' = Tail(toClient) /\ m.type = "row" /\ init' = init
        /\ Queued \subseteq Queued'
    BY <1>12, <2>1, RowIsTaken
  <2>3. PICK p \in Positions \cup {None} :
          /\ inFlight' = inFlight \cup Keys(p)
          /\ p # None => CatchUp(p) \in inFlight \/ Next1(p) \in Queued'
    BY <1>12, <2>1, RowIsTaken
  <2>4. Replied \subseteq Replied'
    BY <1>1, <2>1, <2>2, TakenReplies DEF Replies
  <2>5. Waiting \subseteq Waiting'
    BY <2>2, <2>4 DEF Waiting
  <2>6. \A k \in Keys(p) : k \in inFlight \/ \E r \in Waiting' : r.tracked /\ Key(r) = k
    BY <2>3, SentIs DEF Keys, Waiting
  <2> QED
    BY <2>2, <2>3, <2>5, <2>6, RequestSets DEF Asks, Syncing
<1>13. CASE ReceiveError
  <2>1. PICK m : m = Head(toClient)
    OBVIOUS
  <2>2. /\ toClient # <<>> /\ toClient' = Tail(toClient) /\ m.type = "error" /\ init' = "none"
        /\ inFlight' = inFlight \ Done(m) /\ UNCHANGED toDaemon
    BY <1>13, <2>1 DEF ReceiveError
  <2>3. Queued' = Queued
    BY <2>2 DEF Queued
  <2>4. \A r \in Replied : r \in Replied' \/ r = m.request
    BY <1>1, <2>1, <2>2, TakenReplies
  <2>5. \A k \in inFlight' : \E r \in Waiting' : r.tracked /\ Key(r) = k
    <3> SUFFICES ASSUME NEW k \in inFlight' PROVE \E r \in Waiting' : r.tracked /\ Key(r) = k
      OBVIOUS
    <3>1. k \in inFlight /\ k \notin Done(m)
      BY <2>2
    <3>2. PICK r \in Waiting : r.tracked /\ Key(r) = k
      BY <3>1, RequestSets DEF Asks
    <3>3. r # m.request
      BY <3>1, <3>2 DEF Done
    <3> QED
      BY <2>3, <2>4, <3>2, <3>3 DEF Waiting
  <2> QED
    BY <2>2, <2>5, RequestSets DEF Asks, Syncing
<1>14. CASE ReceiveAnswer
  <2>1. PICK m : m = Head(toClient)
    OBVIOUS
  <2>2. /\ toClient # <<>> /\ toClient' = Tail(toClient) /\ m.type = "answer"
        /\ init' = IF Resolves(m) THEN "none" ELSE init
        /\ Queued \subseteq Queued'
    BY <1>14, <2>1, AnswerIsTaken
  <2>3. PICK p, q \in Positions \cup {None} :
          /\ q = PageEnd(m)
          /\ inFlight' = (inFlight \cup Keys(p) \cup Keys(q)) \ Done(m)
          /\ p # None => CatchUp(p) \in inFlight \/ Next1(p) \in Queued'
          /\ q # None => /\ CatchUp(q) \in inFlight \/ Next1(q) \in Queued'
                         /\ q.seq = Told(m)
                         /\ m.request.dir = "after" => Told(m) > m.request.cursor.seq
    BY <1>14, <2>1, AnswerIsTaken
  <2>4. \A r \in Replied : r \in Replied' \/ r = m.request
    BY <1>1, <2>1, <2>2, TakenReplies
  <2>5. \A r \in Waiting : r \in Waiting' \/ r = m.request
    BY <2>2, <2>4 DEF Waiting
  <2>6. \A k \in Keys(p) \cup Keys(q) : k \in inFlight \/ \E r \in Waiting' : r.tracked /\ Key(r) = k
    BY <2>3, SentIs DEF Keys, Waiting
  <2>7. \A k \in inFlight : k \notin Done(m) => \E r \in Waiting' : r.tracked /\ Key(r) = k
    <3> SUFFICES ASSUME NEW k \in inFlight, k \notin Done(m)
                 PROVE \E r \in Waiting' : r.tracked /\ Key(r) = k
      OBVIOUS
    <3>1. PICK r \in Waiting : r.tracked /\ Key(r) = k
      BY RequestSets DEF Asks
    <3>2. r # m.request
      BY <3>1 DEF Done
    <3> QED
      BY <2>5, <3>1, <3>2
  <2>8. InFlightReal'
    BY <2>3, <2>6, <2>7, RequestSets
  <2>9. Syncing' => \E r \in Waiting' : r.dir = init'
    <3> SUFFICES ASSUME Syncing' PROVE \E r \in Waiting' : r.dir = init'
      OBVIOUS
    <3>1. init' = init /\ Syncing /\ ~Resolves(m)
      BY <2>2 DEF Syncing
    <3>2. PICK r \in Waiting : r.dir = init
      BY <3>1, RequestSets DEF Asks
    <3>3. CASE r # m.request
      BY <2>5, <3>1, <3>2, <3>3
    <3>4. CASE r = m.request
      <4>1. ~m.reset /\ Incomplete(m)
        BY <3>1, <3>2, <3>4 DEF Resolves
      <4>2. m.request.dir = "after" /\ m.hasNewer
        BY <4>1 DEF Incomplete
      <4>3. AnswerShape(m) /\ Told(m) \in Nat /\ m.request \in Fetches /\ m \in Answers
        BY <1>1, <2>1, <2>2, HeadAnswer
      <4>4. m.rows # <<>>
        BY <2>2, <4>2, <4>3 DEF AnswerShape, News, IsAnswer
      <4>5. q # None
        <5>1. q = Position(m.epoch, m.rows[Len(m.rows)])
          BY <2>3, <4>1, <4>4 DEF PageEnd
        <5>2. m.rows[Len(m.rows)] \in Seqs /\ m.epoch \in 1..Epochs
          BY <1>1, <2>1, <2>2, <4>4, HeadAnswer
        <5>3. q \in Positions
          BY <5>1, <5>2 DEF Position, Positions
        <5> QED
          BY <5>3, PositionTyped
      <4>6. CASE Next1(q) \in Queued'
        BY <3>1, <3>2, <3>4, <4>2, <4>5, <4>6, SentIs DEF Waiting
      <4>7. CASE CatchUp(q) \in inFlight
        <5>1. PICK s \in Waiting : s.tracked /\ Key(s) = CatchUp(q)
          BY <4>7, RequestSets DEF Asks
        <5>2. s.dir = "after" /\ s.cursor = q
          BY <5>1 DEF Key, CatchUp
        <5>3. q.seq > m.request.cursor.seq
          BY <2>3, <4>2, <4>5
        <5>4. s # m.request
          <6>1. m.request.cursor # None
            BY <4>2, <4>3 DEF AnswerShape, AskShape
          <6>2. m.request.cursor.seq \in Nat
            BY <4>3, <6>1, FetchTyped
          <6>3. q # m.request.cursor
            BY <5>3, <6>2
          <6> QED
            BY <5>2, <6>3
        <5> QED
          BY <2>5, <3>1, <3>2, <3>4, <4>2, <5>1, <5>2, <5>4
      <4> QED
        BY <2>3, <4>5, <4>6, <4>7
    <3> QED
      BY <3>3, <3>4
  <2> QED
    BY <2>8, <2>9, RequestSets DEF Asks
<1>15. CASE Disconnect
  BY <1>15, RequestSets DEF Disconnect, Asks, Syncing
<1> QED
  BY <1>2, <1>3, <1>4, <1>6, <1>7, <1>8, <1>9, <1>10, <1>11, <1>12, <1>13, <1>14, <1>15
     DEF Next, DaemonNext, ClientNext, Receive

-----------------------------------------------------------------------------
(* What is under way leads to the daemon's tail.                            *)

AtNow(i, e, s) == IF i = 0 THEN cursor' # None /\ cursor'.epoch = e /\ s <= cursor'.end
                  ELSE toClient'[i].epoch = e /\ s <= Told(toClient'[i])
(* What has to be shown for a message, or the view, to lead to the tail     *)
(* after a step.                                                            *)
LEMMA LeadNow ==
  ASSUME NEW i,
         \A j \in i + 1..Len(toClient') : toClient'[j].type = "row" /\ toClient'[j].seq > 1 =>
           \/ AtNow(i, toClient'[j].epoch, toClient'[j].seq - 1)
           \/ \E k \in i + 1..j - 1 : Tells(toClient'[k], toClient'[j].epoch, toClient'[j].seq - 1),
         last' > 0 => \/ AtNow(i, epoch', last')
                      \/ \E k \in i + 1..Len(toClient') : Tells(toClient'[k], epoch', last'),
         last' = 0 =>
           /\ IF i = 0 THEN cursor' = None ELSE toClient'[i].epoch = epoch' /\ Told(toClient'[i]) = 0
           /\ \A j \in i + 1..Len(toClient') :
                              toClient'[j].type # "row" /\ (IsAnswer(toClient'[j]) => toClient'[j].rows = <<>>)
  PROVE  Lead(i)'
BY DEF Lead, At, AtNow

(* The last answer that synchronises is still the last after a push         *)
(* without one.                                                             *)
LEMMA PushedSync ==
  ASSUME TypeOK, NEW ms \in Seq(Messages), toClient' = toClient \o ms,
         \A i \in 1..Len(ms) : ~Syncs(ms[i]), NEW i, LastSync(i)'
  PROVE  /\ LastSync(i) /\ i \in 0..Len(toClient) /\ i \in 0..Len(toClient')
         /\ i # 0 => i \in 1..Len(toClient) /\ toClient'[i] = toClient[i]
<1>1. /\ Len(toClient') = Len(toClient) + Len(ms) /\ Len(ms) \in Nat /\ Len(toClient) \in Nat
      /\ \A k \in 1..Len(toClient) : toClient'[k] = toClient[k]
      /\ \A k \in 1..Len(toClient') : k \notin 1..Len(toClient) =>
           k - Len(toClient) \in 1..Len(ms) /\ toClient'[k] = ms[k - Len(toClient)]
  BY PushedIs, StateTyped
<1>2. /\ i \in 0..Len(toClient') /\ (i # 0 => Syncs(toClient'[i]))
      /\ \A j \in i + 1..Len(toClient') : ~Syncs(toClient'[j])
  BY DEF LastSync
<1>3. i # 0 => i \in 1..Len(toClient) /\ toClient'[i] = toClient[i]
  <2> SUFFICES ASSUME i # 0 PROVE i \in 1..Len(toClient)
    BY <1>1
  <2>1. i \in 1..Len(toClient')
    BY <1>1, <1>2
  <2> QED
    BY <1>1, <1>2, <2>1
<1>4. ASSUME NEW j \in i + 1..Len(toClient) PROVE ~Syncs(toClient[j])
  <2>1. j \in i + 1..Len(toClient') /\ j \in 1..Len(toClient)
    BY <1>1, <1>2
  <2> QED
    BY <1>1, <1>2, <2>1
<1>5. i \in 0..Len(toClient)
  BY <1>1, <1>2, <1>3
<1> QED
  BY <1>2, <1>3, <1>4, <1>5 DEF LastSync

(* What leads to the tail still does when nothing is added to the log, and   *)
(* no row is pushed.                                                        *)
LEMMA KeptLead ==
  ASSUME TypeOK, NEW ms \in Seq(Messages), toClient' = toClient \o ms,
         UNCHANGED <<epoch, last, cursor>>,
         \A k \in 1..Len(ms) :
           ~Syncs(ms[k]) /\ ms[k].type # "row" /\ (last = 0 /\ IsAnswer(ms[k]) => ms[k].rows = <<>>),
         NEW i, LastSync(i)', Lead(i)
  PROVE  Lead(i)'
<1>1. /\ Len(toClient') = Len(toClient) + Len(ms) /\ Len(ms) \in Nat /\ Len(toClient) \in Nat
      /\ \A k \in 1..Len(toClient) : toClient'[k] = toClient[k]
      /\ \A k \in 1..Len(toClient') : k \notin 1..Len(toClient) =>
           k - Len(toClient) \in 1..Len(ms) /\ toClient'[k] = ms[k - Len(toClient)]
  BY PushedIs, StateTyped
<1>2. /\ i \in 0..Len(toClient) /\ (i # 0 => i \in 1..Len(toClient) /\ toClient'[i] = toClient[i])
  BY PushedSync
<1>3. \A e, s : At(i, e, s) => AtNow(i, e, s)
  BY <1>2 DEF At, AtNow
<1>4. ASSUME NEW j \in i + 1..Len(toClient'), toClient'[j].type = "row"
      PROVE  j \in i + 1..Len(toClient) /\ toClient'[j] = toClient[j]
  <2>1. j \in 1..Len(toClient')
    BY <1>1, <1>2
  <2> QED
    BY <1>1, <1>2, <1>4, <2>1
<1>5. ASSUME NEW j \in i + 1..Len(toClient), NEW e, NEW s,
             \E k \in i + 1..j : Tells(toClient[k], e, s)
      PROVE  \E k \in i + 1..j : Tells(toClient'[k], e, s)
  <2>1. \A k \in i + 1..j : toClient'[k] = toClient[k]
    BY <1>1, <1>2
  <2> QED
    BY <1>5, <2>1
<1>6. ASSUME NEW j \in i + 1..Len(toClient'), toClient'[j].type = "row", toClient'[j].seq > 1
      PROVE  \/ AtNow(i, toClient'[j].epoch, toClient'[j].seq - 1)
             \/ \E k \in i + 1..j - 1 : Tells(toClient'[k], toClient'[j].epoch, toClient'[j].seq - 1)
  <2>1. j \in i + 1..Len(toClient) /\ toClient'[j] = toClient[j]
    BY <1>4, <1>6
  <2>2. \/ At(i, toClient[j].epoch, toClient[j].seq - 1)
        \/ \E k \in i + 1..j - 1 : Tells(toClient[k], toClient[j].epoch, toClient[j].seq - 1)
    BY <1>6, <2>1 DEF Lead
  <2>3. \A k \in i + 1..j - 1 : toClient'[k] = toClient[k]
    BY <1>1, <1>2, <2>1
  <2> QED
    BY <1>3, <2>1, <2>2, <2>3
<1>7. last > 0 => \/ AtNow(i, epoch, last)
                  \/ \E k \in i + 1..Len(toClient') : Tells(toClient'[k], epoch, last)
  <2>1. \A k \in i + 1..Len(toClient) : toClient'[k] = toClient[k] /\ k \in i + 1..Len(toClient')
    BY <1>1, <1>2
  <2> QED
    BY <1>3, <2>1 DEF Lead
<1>8. last = 0 =>
        /\ IF i = 0 THEN cursor' = None ELSE toClient'[i].epoch = epoch /\ Told(toClient'[i]) = 0
        /\ \A j \in i + 1..Len(toClient') :
                              toClient'[j].type # "row" /\ (IsAnswer(toClient'[j]) => toClient'[j].rows = <<>>)
  <2> SUFFICES ASSUME last = 0
               PROVE  /\ IF i = 0 THEN cursor' = None
                         ELSE toClient'[i].epoch = epoch /\ Told(toClient'[i]) = 0
                      /\ \A j \in i + 1..Len(toClient') :
                              toClient'[j].type # "row" /\ (IsAnswer(toClient'[j]) => toClient'[j].rows = <<>>)
    OBVIOUS
  <2>1. IF i = 0 THEN cursor' = None ELSE toClient'[i].epoch = epoch /\ Told(toClient'[i]) = 0
    BY <1>2 DEF Lead
  <2>2. ASSUME NEW j \in i + 1..Len(toClient')
        PROVE  toClient'[j].type # "row" /\ (IsAnswer(toClient'[j]) => toClient'[j].rows = <<>>)
    <3>1. CASE j \in 1..Len(toClient)
      <4>1. j \in i + 1..Len(toClient) /\ toClient'[j] = toClient[j]
        BY <1>1, <1>2, <3>1
      <4>2. toClient[j].type # "row" /\ (IsAnswer(toClient[j]) => toClient[j].rows = <<>>)
        BY <4>1 DEF Lead
      <4> QED
        BY <4>1, <4>2 DEF IsAnswer
    <3>2. CASE j \notin 1..Len(toClient)
      <4>1. j \in 1..Len(toClient')
        BY <1>1, <1>2
      <4> QED
        BY <1>1, <3>2, <4>1
    <3> QED
      BY <3>1, <3>2
  <2> QED
    BY <2>1, <2>2
<1> QED
  BY <1>6, <1>7, <1>8, LeadNow

(* A row pushed when it is appended leads on.                               *)
LEMMA AppendedLead ==
  ASSUME TypeOK, last' = last + 1, UNCHANGED <<epoch, cursor>>,
         NEW m, m = Row(epoch, last + 1), m \in Messages, toClient' = toClient \o <<m>>,
         NEW i, LastSync(i)', Lead(i)
  PROVE  Lead(i)'
<1>0. <<m>> \in Seq(Messages) /\ Len(<<m>>) = 1 /\ <<m>>[1] = m /\ last \in Nat
  BY StateTyped
<1>00. m.type = "row" /\ m.epoch = epoch /\ m.seq = last + 1 /\ ~Syncs(m)
  BY RowIs DEF Syncs
<1>1. /\ Len(toClient') = Len(toClient) + 1 /\ Len(toClient) \in Nat
      /\ \A k \in 1..Len(toClient) : toClient'[k] = toClient[k]
      /\ toClient'[Len(toClient) + 1] = m
  <2>1. 1 \in 1..Len(<<m>>)
    BY <1>0
  <2> QED
    BY <1>0, <2>1, PushedIs, StateTyped
<1>2. /\ i \in 0..Len(toClient) /\ (i # 0 => i \in 1..Len(toClient) /\ toClient'[i] = toClient[i])
  <2>1. \A k \in 1..Len(<<m>>) : ~Syncs(<<m>>[k])
    BY <1>0, <1>00
  <2> QED
    BY <1>0, <2>1, PushedSync
<1>3. \A e, s : At(i, e, s) => AtNow(i, e, s)
  BY <1>2 DEF At, AtNow
<1>4. ASSUME NEW j \in i + 1..Len(toClient'), toClient'[j].type = "row", toClient'[j].seq > 1
      PROVE  \/ AtNow(i, toClient'[j].epoch, toClient'[j].seq - 1)
             \/ \E k \in i + 1..j - 1 : Tells(toClient'[k], toClient'[j].epoch, toClient'[j].seq - 1)
  <2>1. CASE j \in 1..Len(toClient)
    <3>1. toClient'[j] = toClient[j] /\ j \in i + 1..Len(toClient)
      BY <1>1, <1>2, <2>1
    <3>2. \/ At(i, toClient[j].epoch, toClient[j].seq - 1)
          \/ \E k \in i + 1..j - 1 : Tells(toClient[k], toClient[j].epoch, toClient[j].seq - 1)
      BY <1>4, <3>1 DEF Lead
    <3>3. \A k \in i + 1..j - 1 : toClient'[k] = toClient[k]
      BY <1>1, <1>2, <3>1
    <3> QED
      BY <1>3, <3>1, <3>2, <3>3
  <2>2. CASE j \notin 1..Len(toClient)
    <3>1. j = Len(toClient) + 1 /\ toClient'[j] = m
      BY <1>1, <1>2, <2>2
    <3>2. last > 0 /\ toClient'[j].epoch = epoch /\ toClient'[j].seq - 1 = last
      BY <1>0, <1>00, <1>4, <3>1
    <3>3. \/ At(i, epoch, last)
          \/ \E k \in i + 1..Len(toClient) : Tells(toClient[k], epoch, last)
      BY <3>2 DEF Lead
    <3>4. \A k \in i + 1..Len(toClient) : toClient'[k] = toClient[k] /\ k \in i + 1..j - 1
      BY <1>1, <1>2, <3>1
    <3> QED
      BY <1>3, <3>2, <3>3, <3>4
  <2> QED
    BY <2>1, <2>2
<1>5. \E k \in i + 1..Len(toClient') : Tells(toClient'[k], epoch, last')
  <2>1. Len(toClient') \in i + 1..Len(toClient') /\ toClient'[Len(toClient')] = m
    BY <1>1, <1>2
  <2>2. Tells(m, epoch, last')
    BY <1>00 DEF Tells
  <2> QED
    BY <2>1, <2>2
<1>6. last' # 0
  BY <1>0
<1> QED
  BY <1>4, <1>5, <1>6, LeadNow

(* The rows of a rewound log lead from the first to its last.               *)
LEMMA RewoundLead ==
  ASSUME TypeOK, NEW ms \in Seq(Messages), toClient' = toClient \o ms,
         UNCHANGED cursor, last' \in Nat, last' > 0, last' <= Len(ms),
         \A k \in 1..Len(ms) :
           IF k <= last' THEN ms[k] = Row(epoch', k) ELSE ms[k].type = "reloaded",
         NEW i, LastSync(i)', Lead(i)
  PROVE  Lead(i)'
<1>1. /\ Len(toClient') = Len(toClient) + Len(ms) /\ Len(ms) \in Nat /\ Len(toClient) \in Nat
      /\ \A k \in 1..Len(toClient) : toClient'[k] = toClient[k]
      /\ \A k \in 1..Len(toClient') : k \notin 1..Len(toClient) =>
           k - Len(toClient) \in 1..Len(ms) /\ toClient'[k] = ms[k - Len(toClient)]
      /\ \A k \in 1..Len(ms) : toClient'[Len(toClient) + k] = ms[k]
  BY PushedIs, StateTyped
<1>2. \A k \in 1..last' : k \in 1..Len(ms) /\ ms[k].type = "row" /\ ms[k].epoch = epoch' /\ ms[k].seq = k
  <2> SUFFICES ASSUME NEW k \in 1..last'
               PROVE  k \in 1..Len(ms) /\ ms[k] = Row(epoch', k)
    BY RowIs
  <2>1. k \in 1..Len(ms) /\ k <= last'
    BY <1>1
  <2> QED
    BY <2>1
<1>3. \A k \in 1..Len(ms) : ~Syncs(ms[k])
  BY <1>1, <1>2 DEF Syncs, IsAnswer
<1>4. /\ i \in 0..Len(toClient) /\ (i # 0 => i \in 1..Len(toClient) /\ toClient'[i] = toClient[i])
  BY <1>3, PushedSync
<1>5. \A e, s : At(i, e, s) => AtNow(i, e, s)
  BY <1>4 DEF At, AtNow
<1>6. ASSUME NEW j \in i + 1..Len(toClient'), toClient'[j].type = "row", toClient'[j].seq > 1
      PROVE  \/ AtNow(i, toClient'[j].epoch, toClient'[j].seq - 1)
             \/ \E k \in i + 1..j - 1 : Tells(toClient'[k], toClient'[j].epoch, toClient'[j].seq - 1)
  <2>1. CASE j \in 1..Len(toClient)
    <3>1. toClient'[j] = toClient[j] /\ j \in i + 1..Len(toClient)
      BY <1>1, <1>4, <2>1
    <3>2. \/ At(i, toClient[j].epoch, toClient[j].seq - 1)
          \/ \E k \in i + 1..j - 1 : Tells(toClient[k], toClient[j].epoch, toClient[j].seq - 1)
      BY <1>6, <3>1 DEF Lead
    <3>3. \A k \in i + 1..j - 1 : toClient'[k] = toClient[k]
      BY <1>1, <1>4, <3>1
    <3> QED
      BY <1>5, <3>1, <3>2, <3>3
  <2>2. CASE j \notin 1..Len(toClient)
    <3>1. PICK b \in 1..Len(ms) : b = j - Len(toClient) /\ toClient'[j] = ms[b]
      <4>1. j \in 1..Len(toClient')
        BY <1>1, <1>4
      <4> QED
        BY <1>1, <2>2, <4>1
    <3>2. b <= last'
      BY <1>6, <3>1
    <3>3. b \in 1..last' /\ b \in Nat
      BY <1>1, <3>1, <3>2
    <3>4. toClient'[j].epoch = epoch' /\ toClient'[j].seq = b /\ b > 1
      BY <1>2, <1>6, <3>1, <3>3
    <3>5. b - 1 \in 1..last'
      BY <3>3, <3>4
    <3>6. toClient'[j - 1] = ms[b - 1] /\ j - 1 \in i + 1..j - 1
      <4>1. j - 1 = Len(toClient) + (b - 1) /\ b - 1 \in 1..Len(ms)
        BY <1>1, <1>4, <3>1, <3>3, <3>4
      <4>2. toClient'[Len(toClient) + (b - 1)] = ms[b - 1]
        BY <1>1, <4>1
      <4>3. j - 1 \in i + 1..j - 1
        BY <1>1, <1>4, <3>3, <3>4, <4>1
      <4> QED
        BY <4>1, <4>2, <4>3
    <3>7. Tells(toClient'[j - 1], toClient'[j].epoch, toClient'[j].seq - 1)
      BY <1>2, <3>4, <3>5, <3>6 DEF Tells
    <3> QED
      BY <3>6, <3>7
  <2> QED
    BY <2>1, <2>2
<1>7. \E k \in i + 1..Len(toClient') : Tells(toClient'[k], epoch', last')
  <2>1. last' \in 1..last' /\ last' \in 1..Len(ms)
    BY <1>1
  <2>2. toClient'[Len(toClient) + last'] = ms[last'] /\ Len(toClient) + last' \in i + 1..Len(toClient')
    <3>1. toClient'[Len(toClient) + last'] = ms[last']
      BY <1>1, <2>1
    <3>2. Len(toClient) + last' \in i + 1..Len(toClient')
      BY <1>1, <1>4, <2>1
    <3> QED
      BY <3>1, <3>2
  <2>3. Tells(ms[last'], epoch', last')
    BY <1>2, <2>1 DEF Tells
  <2> QED
    BY <2>2, <2>3
<1>8. last' # 0
  OBVIOUS
<1> QED
  BY <1>6, <1>7, <1>8, LeadNow

-----------------------------------------------------------------------------
(* Taking a message keeps what leads to the tail.                           *)

(* Behind the message that is taken nothing changes but the places.         *)
LEMMA ShiftedLead ==
  ASSUME TypeOK, toClient # <<>>, toClient' = Tail(toClient), UNCHANGED <<epoch, last>>,
         NEW i \in 1..Len(toClient'), LastSync(i)'
  PROVE  /\ LastSync(i + 1) /\ toClient'[i] = toClient[i + 1] /\ i + 1 \in 0..Len(toClient)
         /\ Lead(i + 1) => Lead(i)'
<1> DEFINE n == Len(toClient')
<1>1. /\ n \in Nat /\ Len(toClient) = n + 1 /\ i \in Nat /\ i > 0
      /\ \A j \in 1..n : toClient'[j] = toClient[j + 1]
      /\ \A j \in 1..Len(toClient) : j # 1 => j - 1 \in 1..n /\ toClient'[j - 1] = toClient[j]
  BY TakenIs
<1>2. Syncs(toClient'[i]) /\ \A j \in i + 1..n : ~Syncs(toClient'[j])
  BY <1>1 DEF LastSync
<1>3. toClient'[i] = toClient[i + 1] /\ i + 1 \in 0..Len(toClient) /\ i + 1 # 0
  BY <1>1
<1> HIDE DEF n
<1>4. ASSUME NEW j \in (i + 1) + 1..Len(toClient) PROVE ~Syncs(toClient[j])
  <2>1. j - 1 \in i + 1..n /\ toClient'[j - 1] = toClient[j]
    <3>1. j \in 1..Len(toClient) /\ j # 1
      BY <1>1
    <3>2. j - 1 \in i + 1..n
      BY <1>1
    <3> QED
      BY <1>1, <3>1, <3>2
  <2> QED
    BY <1>2, <2>1
<1>5. LastSync(i + 1)
  BY <1>2, <1>3, <1>4 DEF LastSync
<1>6. ASSUME Lead(i + 1) PROVE Lead(i)'
  <2>1. \A e, s : At(i + 1, e, s) => AtNow(i, e, s)
    BY <1>1, <1>3 DEF At, AtNow
  <2>2. \A j \in i + 1..n : /\ j + 1 \in (i + 1) + 1..Len(toClient) /\ j \in Nat
                            /\ toClient'[j] = toClient[j + 1]
    <3> SUFFICES ASSUME NEW j \in i + 1..n
                 PROVE  /\ j + 1 \in (i + 1) + 1..Len(toClient) /\ j \in Nat /\ j \in 1..n
      BY <1>1
    <3> QED
      BY <1>1
  <2>3. ASSUME NEW k \in (i + 1) + 1..Len(toClient)
        PROVE  k - 1 \in i + 1..n /\ toClient'[k - 1] = toClient[k] /\ k \in Nat
    <3>1. k \in 1..Len(toClient) /\ k # 1 /\ k - 1 \in i + 1..n /\ k \in Nat
      BY <1>1
    <3> QED
      BY <1>1, <3>1
  <2>4. ASSUME NEW j \in i + 1..n, toClient'[j].type = "row", toClient'[j].seq > 1
        PROVE  \/ AtNow(i, toClient'[j].epoch, toClient'[j].seq - 1)
               \/ \E k \in i + 1..j - 1 :
                    Tells(toClient'[k], toClient'[j].epoch, toClient'[j].seq - 1)
    <3>1. toClient'[j] = toClient[j + 1] /\ j + 1 \in (i + 1) + 1..Len(toClient) /\ j \in Nat
      BY <2>2
    <3>2. \/ At(i + 1, toClient'[j].epoch, toClient'[j].seq - 1)
          \/ \E k \in (i + 1) + 1..(j + 1) - 1 :
               Tells(toClient[k], toClient'[j].epoch, toClient'[j].seq - 1)
      BY <1>6, <2>4, <3>1 DEF Lead
    <3>3. ASSUME NEW k \in (i + 1) + 1..(j + 1) - 1
          PROVE  k - 1 \in i + 1..j - 1 /\ toClient'[k - 1] = toClient[k]
      <4>1. k \in (i + 1) + 1..Len(toClient)
        BY <1>1, <3>1
      <4>2. k - 1 \in i + 1..j - 1
        BY <1>1, <3>1
      <4> QED
        BY <2>3, <4>1, <4>2
    <3> QED
      BY <2>1, <3>2, <3>3
  <2>5. last > 0 => \/ AtNow(i, epoch, last)
                    \/ \E k \in i + 1..n : Tells(toClient'[k], epoch, last)
    <3>1. last > 0 => \/ At(i + 1, epoch, last)
                      \/ \E k \in (i + 1) + 1..Len(toClient) : Tells(toClient[k], epoch, last)
      BY <1>6 DEF Lead
    <3> QED
      BY <2>1, <2>3, <3>1
  <2>6. ASSUME last = 0
        PROVE  /\ toClient'[i].epoch = epoch /\ Told(toClient'[i]) = 0
               /\ \A j \in i + 1..n :
                    toClient'[j].type # "row" /\ (IsAnswer(toClient'[j]) => toClient'[j].rows = <<>>)
    <3>1. toClient[i + 1].epoch = epoch /\ Told(toClient[i + 1]) = 0
      BY <1>3, <1>6, <2>6 DEF Lead
    <3>2. \A j \in (i + 1) + 1..Len(toClient) :
            toClient[j].type # "row" /\ (IsAnswer(toClient[j]) => toClient[j].rows = <<>>)
      BY <1>6, <2>6 DEF Lead
    <3> QED
      BY <1>3, <2>2, <3>1, <3>2
  <2>7. epoch' = epoch /\ last' = last /\ i # 0
    BY <1>1
  <2> QED
    BY <1>1, <2>4, <2>5, <2>6, <2>7, LeadNow DEF n
<1> QED
  BY <1>3, <1>5, <1>6

(* If no answer that synchronises is left, the message taken was the        *)
(* last, or none was there.                                                 *)
LEMMA ShiftedSync ==
  ASSUME TypeOK, toClient # <<>>, toClient' = Tail(toClient), LastSync(0)'
  PROVE  /\ Syncs(Head(toClient)) => LastSync(1) /\ 1 \in 0..Len(toClient)
         /\ ~Syncs(Head(toClient)) => LastSync(0) /\ 0 \in 0..Len(toClient)
<1>1. /\ Head(toClient) = toClient[1] /\ Len(toClient) \in Nat /\ Len(toClient) >= 1
      /\ Len(toClient') = Len(toClient) - 1
      /\ \A j \in 1..Len(toClient) : j # 1 => j - 1 \in 1..Len(toClient') /\ toClient'[j - 1] = toClient[j]
  BY TakenIs
<1>2. \A j \in 1..Len(toClient') : ~Syncs(toClient'[j])
  BY <1>1 DEF LastSync
<1>3. \A j \in 1..Len(toClient) : j # 1 => ~Syncs(toClient[j])
  BY <1>1, <1>2
<1>4. \A j \in 2..Len(toClient) : j \in 1..Len(toClient) /\ j # 1
  BY <1>1
<1> QED
  BY <1>1, <1>3, <1>4 DEF LastSync

(* What has to be shown for the view to lead to the tail after a step.      *)
LEMMA LeadNowShown ==
  ASSUME UNCHANGED <<epoch, last>>, NEW n, n = Len(toClient'),
         \A j \in 1..n : toClient'[j].type = "row" /\ toClient'[j].seq > 1 =>
           \/ AtNow(0, toClient'[j].epoch, toClient'[j].seq - 1)
           \/ \E k \in 1..j - 1 : Tells(toClient'[k], toClient'[j].epoch, toClient'[j].seq - 1),
         last > 0 => AtNow(0, epoch, last) \/ \E k \in 1..n : Tells(toClient'[k], epoch, last),
         last = 0 =>
           /\ cursor' = None
           /\ \A j \in 1..n :
                  toClient'[j].type # "row" /\ (IsAnswer(toClient'[j]) => toClient'[j].rows = <<>>)
  PROVE  Lead(0)'
<1>1. 0 + 1 = 1 /\ epoch' = epoch /\ last' = last
  OBVIOUS
<1> QED
  BY <1>1 DEF Lead, At, AtNow

(* One less than a number above one.                                        *)
LEMMA Less == \A s \in Nat : s > 1 => s - 1 \in Nat /\ s - 1 > 0
OBVIOUS

(* When the message that synchronises is taken, the view takes its place.   *)
LEMMA SyncedLead ==
  ASSUME TypeOK, toClient # <<>>, toClient' = Tail(toClient), UNCHANGED <<epoch, last>>,
         NEW m, m = Head(toClient), Told(m) \in Nat, Reaches(m),
         cursor' # None => cursor'.end \in Nat, Lead(1)
  PROVE  Lead(0)'
<1> DEFINE n == Len(toClient')
<1>1. /\ n \in Nat /\ Len(toClient) = n + 1 /\ m = toClient[1] /\ m \in Messages
      /\ \A j \in 1..n : toClient'[j] = toClient[j + 1] /\ j + 1 \in 1..Len(toClient)
      /\ \A j \in 1..Len(toClient) : j # 1 => j - 1 \in 1..n /\ toClient'[j - 1] = toClient[j]
      /\ \A j \in 1..Len(toClient) : toClient[j] \in Messages
      /\ last \in Nat
  BY TakenIs, StateTyped
<1> HIDE DEF n
<1>2. ASSUME NEW e, NEW s \in Nat, s > 0, At(1, e, s) PROVE AtNow(0, e, s)
  <2>1. m.epoch = e /\ s <= Told(m)
    BY <1>1, <1>2 DEF At
  <2>2. Told(m) > 0
    BY <1>2, <2>1
  <2>3. cursor' # None /\ cursor'.epoch = m.epoch /\ Told(m) <= cursor'.end
    BY <2>2 DEF Reaches
  <2> QED
    BY <2>1, <2>3 DEF AtNow
<1>3. ASSUME NEW j \in 1..n, toClient'[j].type = "row", toClient'[j].seq > 1
      PROVE  \/ AtNow(0, toClient'[j].epoch, toClient'[j].seq - 1)
             \/ \E k \in 1..j - 1 : Tells(toClient'[k], toClient'[j].epoch, toClient'[j].seq - 1)
  <2>1. toClient'[j] = toClient[j + 1] /\ j + 1 \in 2..Len(toClient) /\ toClient[j + 1] \in Messages
    BY <1>1
  <2>2. toClient'[j].seq \in Nat
    BY <1>3, <2>1, MessageTyped
  <2>3. \/ At(1, toClient'[j].epoch, toClient'[j].seq - 1)
        \/ \E k \in 2..(j + 1) - 1 : Tells(toClient[k], toClient'[j].epoch, toClient'[j].seq - 1)
    BY <1>3, <2>1 DEF Lead
  <2>4. ASSUME NEW k \in 2..(j + 1) - 1 PROVE k - 1 \in 1..j - 1 /\ toClient'[k - 1] = toClient[k]
    <3>1. k \in 1..Len(toClient) /\ k # 1 /\ k - 1 \in 1..j - 1
      BY <1>1
    <3> QED
      BY <1>1, <3>1
  <2>5. PICK s \in Nat : s = toClient'[j].seq /\ s > 1
    BY <1>3, <2>2
  <2>6. s - 1 \in Nat /\ s - 1 > 0
    BY <2>5, Less, Zenon
  <2> QED
    BY <1>2, <2>3, <2>4, <2>5, <2>6
<1>4. ASSUME last > 0
      PROVE  AtNow(0, epoch, last) \/ \E k \in 1..n : Tells(toClient'[k], epoch, last)
  <2>1. At(1, epoch, last) \/ \E k \in 2..Len(toClient) : Tells(toClient[k], epoch, last)
    BY <1>4 DEF Lead
  <2>2. ASSUME NEW k \in 2..Len(toClient) PROVE k - 1 \in 1..n /\ toClient'[k - 1] = toClient[k]
    <3>1. k \in 1..Len(toClient) /\ k # 1
      BY <1>1
    <3> QED
      BY <1>1, <3>1
  <2> QED
    BY <1>1, <1>2, <1>4, <2>1, <2>2
<1>5. ASSUME last = 0
      PROVE  /\ cursor' = None
             /\ \A j \in 1..n :
                  toClient'[j].type # "row" /\ (IsAnswer(toClient'[j]) => toClient'[j].rows = <<>>)
  <2>1. /\ Told(toClient[1]) = 0
        /\ \A j \in 2..Len(toClient) :
             toClient[j].type # "row" /\ (IsAnswer(toClient[j]) => toClient[j].rows = <<>>)
    BY <1>5 DEF Lead
  <2>2. cursor' = None
    BY <1>1, <2>1 DEF Reaches
  <2>3. \A j \in 1..n : j + 1 \in 2..Len(toClient) /\ toClient'[j] = toClient[j + 1]
    BY <1>1
  <2> QED
    BY <2>1, <2>2, <2>3
<1> QED
  BY <1>3, <1>4, <1>5, LeadNowShown DEF n

(* A message that does not synchronise carries the view along.              *)
Carries(m) ==
  /\ m.type = "row" /\ (m.seq = 1 \/ (cursor # None /\ cursor.epoch = m.epoch
                                        /\ m.seq <= cursor.end + 1)) =>
       cursor' # None /\ cursor'.epoch = m.epoch /\ m.seq <= cursor'.end
  /\ m.type # "row" /\ ~Syncs(m) /\ cursor = None /\ (IsAnswer(m) => m.rows = <<>>) => cursor' = None

(* It still leads to the tail after such a message.                         *)
LEMMA CarriedLead ==
  ASSUME TypeOK, Chan, toClient # <<>>, toClient' = Tail(toClient), UNCHANGED <<epoch, last>>,
         NEW m, m = Head(toClient), ~Syncs(m), Goes(m), Forward, Carries(m),
         cursor' # None => cursor'.end \in Nat, Lead(0)
  PROVE  Lead(0)'
<1> DEFINE n == Len(toClient')
<1>1. /\ n \in Nat /\ Len(toClient) = n + 1 /\ m = toClient[1] /\ m \in Messages
      /\ 1 \in 1..Len(toClient)
      /\ \A j \in 1..n : toClient'[j] = toClient[j + 1] /\ j + 1 \in 1..Len(toClient)
      /\ \A j \in 1..Len(toClient) : j # 1 => j - 1 \in 1..n /\ toClient'[j - 1] = toClient[j]
      /\ \A j \in 1..Len(toClient) : toClient[j] \in Messages
      /\ last \in Nat
      /\ cursor # None => cursor.epoch \in Nat /\ cursor.end \in Nat /\ cursor.end > 0
  BY TakenIs, StateTyped
<1>2. Dated(m) => m.epoch \in Nat /\ Told(m) \in Nat
  BY <1>1, ToldTyped DEF Chan, Shape
<1>3. Dated(m) /\ cursor # None => Beyond(cursor.epoch, cursor.end, m)
  BY <1>1 DEF Chan, Ordered
<1> HIDE DEF n
<1>4. ASSUME NEW e \in Nat, NEW s \in Nat, s > 0, At(0, e, s), Dated(m) => m.epoch <= e
      PROVE  AtNow(0, e, s)
  <2>1. cursor # None /\ cursor.epoch = e /\ s <= cursor.end
    BY <1>4 DEF At
  <2>2. CASE Stays
    BY <2>1, <2>2 DEF Stays, AtNow
  <2>3. CASE ~Stays
    <3>1. Dated(m) /\ m.epoch \in Nat /\ Told(m) \in Nat
      BY <1>2, <2>3 DEF Goes
    <3>2. Beyond(cursor.epoch, cursor.end, m)
      BY <1>3, <2>1, <3>1
    <3>3. m.epoch = e
      BY <1>1, <1>4, <2>1, <3>1, <3>2 DEF Beyond
    <3>4. cursor' # None
      <4>1. cursor' = None => Whole(m) /\ Told(m) = 0
        BY <2>3 DEF Goes
      <4> QED
        BY <1>1, <2>1, <3>2, <3>3, <4>1 DEF Beyond
    <3>5. cursor'.epoch = m.epoch
      BY <2>3, <3>4 DEF Goes
    <3>6. cursor.end <= cursor'.end
      BY <2>1, <3>3, <3>4, <3>5 DEF Forward
    <3> QED
      BY <1>1, <2>1, <3>3, <3>4, <3>5, <3>6 DEF AtNow
  <2> QED
    BY <2>2, <2>3
<1>5. ASSUME NEW e, NEW s, Tells(m, e, s) PROVE AtNow(0, e, s)
  <2>1. m.type = "row" /\ m.epoch = e /\ m.seq = s
    BY <1>5 DEF Tells
  <2>2. m.seq \in Nat /\ m.seq > 0
    BY <1>1, <2>1, MessageTyped
  <2>3. m.seq > 1 => At(0, m.epoch, m.seq - 1) \/ \E k \in 1..1 - 1 : Tells(toClient[k], m.epoch, m.seq - 1)
    BY <1>1, <2>1 DEF Lead
  <2>4. m.seq > 1 => cursor # None /\ cursor.epoch = m.epoch /\ m.seq - 1 <= cursor.end
    BY <2>3 DEF At
  <2>5. m.seq = 1 \/ (cursor # None /\ cursor.epoch = m.epoch /\ m.seq <= cursor.end + 1)
    BY <1>1, <2>2, <2>4
  <2> QED
    BY <2>1, <2>5 DEF Carries, AtNow
<1>6. ASSUME NEW j \in 1..n, toClient'[j].type = "row", toClient'[j].seq > 1
      PROVE  \/ AtNow(0, toClient'[j].epoch, toClient'[j].seq - 1)
             \/ \E k \in 1..j - 1 : Tells(toClient'[k], toClient'[j].epoch, toClient'[j].seq - 1)
  <2>1. PICK r : r = toClient'[j]
    OBVIOUS
  <2>2. /\ r = toClient[j + 1] /\ j + 1 \in 1..Len(toClient) /\ j + 1 \in 2..Len(toClient)
        /\ r \in Messages /\ r.type = "row" /\ r.seq > 1 /\ 1 < j + 1
    BY <1>1, <1>6, <2>1
  <2>3. r.seq \in Nat /\ r.epoch \in Nat /\ Dated(r)
    BY <2>2, MessageTyped DEF Dated
  <2>4. Dated(m) => m.epoch <= r.epoch
    BY <1>1, <2>2, <2>3 DEF Chan, Ordered
  <2>5. r.seq - 1 \in Nat /\ r.seq - 1 > 0
    BY <2>2, <2>3
  <2>6. \/ At(0, r.epoch, r.seq - 1)
        \/ \E k \in 1..(j + 1) - 1 : Tells(toClient[k], r.epoch, r.seq - 1)
    BY <2>2 DEF Lead
  <2>7. ASSUME NEW k \in 1..(j + 1) - 1, Tells(toClient[k], r.epoch, r.seq - 1)
        PROVE  \/ AtNow(0, r.epoch, r.seq - 1)
               \/ \E b \in 1..j - 1 : Tells(toClient'[b], r.epoch, r.seq - 1)
    <3>1. CASE k = 1
      BY <1>1, <1>5, <2>7, <3>1
    <3>2. CASE k # 1
      <4>1. k \in 1..Len(toClient) /\ k - 1 \in 1..j - 1
        BY <1>1, <3>2
      <4> QED
        BY <1>1, <2>7, <3>2, <4>1
    <3> QED
      BY <3>1, <3>2
  <2>8. At(0, r.epoch, r.seq - 1) => AtNow(0, r.epoch, r.seq - 1)
    BY <1>4, <2>3, <2>4, <2>5
  <2> QED
    BY <2>1, <2>6, <2>7, <2>8
<1>7. ASSUME last > 0
      PROVE  AtNow(0, epoch, last) \/ \E k \in 1..n : Tells(toClient'[k], epoch, last)
  <2>1. At(0, epoch, last) \/ \E k \in 1..Len(toClient) : Tells(toClient[k], epoch, last)
    BY <1>7 DEF Lead
  <2>2. ASSUME NEW k \in 1..Len(toClient), Tells(toClient[k], epoch, last)
        PROVE  AtNow(0, epoch, last) \/ \E b \in 1..n : Tells(toClient'[b], epoch, last)
    <3>1. CASE k = 1
      BY <1>1, <1>5, <2>2, <3>1
    <3>2. CASE k # 1
      BY <1>1, <2>2, <3>2
    <3> QED
      BY <3>1, <3>2
  <2>3. Dated(m) => m.epoch <= epoch
    BY <1>1 DEF Chan, Past
  <2>4. epoch \in Nat
    BY StateTyped
  <2>5. At(0, epoch, last) => AtNow(0, epoch, last)
    BY <1>1, <1>4, <1>7, <2>3, <2>4
  <2> QED
    BY <2>1, <2>2, <2>5
<1>8. ASSUME last = 0
      PROVE  /\ cursor' = None
             /\ \A j \in 1..n :
                  toClient'[j].type # "row" /\ (IsAnswer(toClient'[j]) => toClient'[j].rows = <<>>)
  <2>1. /\ cursor = None
        /\ \A j \in 1..Len(toClient) :
             toClient[j].type # "row" /\ (IsAnswer(toClient[j]) => toClient[j].rows = <<>>)
    BY <1>8 DEF Lead
  <2>2. m.type # "row" /\ (IsAnswer(m) => m.rows = <<>>)
    BY <1>1, <2>1
  <2>3. cursor' = None
    BY <2>1, <2>2 DEF Carries
  <2> QED
    BY <1>1, <2>1, <2>3
<1> QED
  BY <1>6, <1>7, <1>8, LeadNowShown DEF n

-----------------------------------------------------------------------------
(* Every step keeps the failures excused and the way to the tail.           *)

Follows == Excused /\ Leads

(* Taking a message leaves the answer that makes a failure good.            *)
LEMMA TakenExcused ==
  ASSUME TypeOK, Excused, toClient # <<>>, toClient' = Tail(toClient), ~missed' => ~missed
  PROVE  Excused'
<1> SUFFICES ASSUME ~missed', NEW i \in 1..Len(toClient'), toClient'[i].type = "error"
             PROVE  \E j \in i + 1..Len(toClient') : Syncs(toClient'[j])
  BY DEF Excused
<1>1. /\ Len(toClient') \in Nat /\ Len(toClient) = Len(toClient') + 1
      /\ toClient'[i] = toClient[i + 1] /\ i + 1 \in 1..Len(toClient)
      /\ \A j \in 1..Len(toClient) : j # 1 => j - 1 \in 1..Len(toClient') /\ toClient'[j - 1] = toClient[j]
  BY TakenIs
<1>2. PICK j \in (i + 1) + 1..Len(toClient) : Syncs(toClient[j])
  BY <1>1 DEF Excused
<1>3. j \in 1..Len(toClient) /\ j # 1 /\ j - 1 \in i + 1..Len(toClient')
  BY <1>1, <1>2
<1> QED
  BY <1>1, <1>2, <1>3

(* A push without failures leaves the failures made good.                   *)
LEMMA PushedExcused ==
  ASSUME TypeOK, Excused, NEW ms \in Seq(Messages), toClient' = toClient \o ms,
         \A k \in 1..Len(ms) : ms[k].type # "error", ~missed' => ~missed
  PROVE  Excused'
<1> SUFFICES ASSUME ~missed', NEW i \in 1..Len(toClient'), toClient'[i].type = "error"
             PROVE  \E j \in i + 1..Len(toClient') : Syncs(toClient'[j])
  BY DEF Excused
<1>1. /\ Len(toClient') = Len(toClient) + Len(ms) /\ Len(ms) \in Nat /\ Len(toClient) \in Nat
      /\ \A k \in 1..Len(toClient) : toClient'[k] = toClient[k]
      /\ \A k \in 1..Len(toClient') : k \notin 1..Len(toClient) =>
           k - Len(toClient) \in 1..Len(ms) /\ toClient'[k] = ms[k - Len(toClient)]
  BY PushedIs, StateTyped
<1>2. i \in 1..Len(toClient) /\ toClient[i].type = "error"
  BY <1>1
<1>3. PICK j \in i + 1..Len(toClient) : Syncs(toClient[j])
  BY <1>2 DEF Excused
<1>4. j \in 1..Len(toClient) /\ j \in i + 1..Len(toClient')
  BY <1>1, <1>2
<1> QED
  BY <1>1, <1>3, <1>4

(* A request that is not sent because another is under way will be answered *)
(* by a page that is under way.                                            *)
LEMMA Suppressed ==
  ASSUME TypeOK, Asks, Excused, ~missed, toClient # <<>>, toClient' = Tail(toClient),
         NEW m, m = Head(toClient), m.type # "error", Queued \subseteq Queued', ~Asked',
         NEW at \in Positions, CatchUp(at) \in inFlight,
         IsAnswer(m) => Key(m.request) # CatchUp(at)
  PROVE  ~LastSync(0)'
<1>1. /\ Len(toClient') \in Nat /\ Len(toClient) = Len(toClient') + 1 /\ m = toClient[1]
      /\ \A j \in 1..Len(toClient) : j # 1 => j - 1 \in 1..Len(toClient') /\ toClient'[j - 1] = toClient[j]
  BY TakenIs
<1>2. PICK r \in Waiting : r.tracked /\ Key(r) = CatchUp(at)
  BY RequestSets DEF Asks
<1>3. r.dir = "after"
  BY <1>2 DEF Key, CatchUp
<1>4. r \notin Queued
  BY <1>3 DEF Asked
<1>5. r \in Replied
  BY <1>2, <1>4 DEF Waiting
<1>6. PICK i \in 1..Len(toClient) : Replies(toClient[i]) /\ toClient[i].request = r
  BY <1>5 DEF Replied
<1>7. i # 1
  BY <1>1, <1>2, <1>6 DEF Replies, IsAnswer
<1>8. \E j \in 1..Len(toClient) : j # 1 /\ Syncs(toClient[j])
  <2>1. CASE toClient[i].type = "answer"
    BY <1>3, <1>6, <1>7, <2>1 DEF Syncs, IsAnswer
  <2>2. CASE toClient[i].type = "error"
    <3>1. PICK j \in i + 1..Len(toClient) : Syncs(toClient[j])
      BY <2>2 DEF Excused
    <3>2. j \in 1..Len(toClient) /\ j # 1
      BY <1>1, <1>6
    <3> QED
      BY <3>1, <3>2
  <2> QED
    BY <1>6, <2>1, <2>2 DEF Replies
<1>9. PICK j \in 1..Len(toClient') : Syncs(toClient'[j])
  BY <1>1, <1>8
<1>10. j \in 0 + 1..Len(toClient')
  BY <1>1
<1> QED
  BY <1>9, <1>10 DEF LastSync

(* Taking a message that arrives or carries keeps the way to the tail.      *)
LEMMA TakenLeads ==
  ASSUME Base, Leads, toClient # <<>>, toClient' = Tail(toClient),
         UNCHANGED <<epoch, last, online, opened>>, ~missed' => ~missed, Asked => Asked',
         NEW m, m = Head(toClient), Goes(m), Forward, Carries(m),
         cursor' # None => cursor'.end \in Nat,
         Syncs(m) /\ ~missed' /\ ~Asked' /\ LastSync(0)' => Reaches(m) /\ ~m.hasNewer
  PROVE  Leads'
<1>1. TypeOK /\ Chan
  BY DEF Base
<1>2. SUFFICES ASSUME online', opened', ~missed', ~Asked', NEW i \in 0..Len(toClient'), LastSync(i)'
               PROVE  (i # 0 /\ toClient'[i].hasNewer) \/ Lead(i)'
  BY DEF Leads
<1>3. online /\ opened /\ ~missed /\ ~Asked
  BY <1>2
<1>4. \A j \in 0..Len(toClient) : LastSync(j) => (j # 0 /\ toClient[j].hasNewer) \/ Lead(j)
  BY <1>3 DEF Leads
<1>5. CASE i # 0
  <2>1. i \in 1..Len(toClient')
    BY <1>1, <1>5, TakenIs
  <2>2. /\ LastSync(i + 1) /\ toClient'[i] = toClient[i + 1] /\ i + 1 \in 0..Len(toClient)
        /\ Lead(i + 1) => Lead(i)'
    BY <1>1, <1>2, <2>1, ShiftedLead
  <2> QED
    BY <1>4, <1>5, <2>2
<1>6. CASE i = 0
  <2>1. LastSync(0)'
    BY <1>2, <1>6
  <2>2. CASE Syncs(m)
    <3>1. LastSync(1) /\ 1 \in 0..Len(toClient)
      BY <1>1, <2>1, <2>2, ShiftedSync
    <3>2. Reaches(m) /\ ~m.hasNewer
      BY <1>2, <2>1, <2>2
    <3>3. m = toClient[1] /\ m \in Messages
      BY <1>1, TakenIs
    <3>4. Lead(1)
      BY <1>4, <3>1, <3>2, <3>3
    <3>5. Told(m) \in Nat
      <4>1. Dated(m) /\ 1 \in 1..Len(toClient)
        BY <1>1, <2>2, StateTyped, TakenIs DEF Syncs, IsAnswer, Dated
      <4> QED
        BY <1>1, <3>3, <4>1, ToldTyped DEF Chan, Shape
    <3>6. Lead(0)'
      BY <1>1, <3>2, <3>4, <3>5, SyncedLead
    <3> QED
      BY <1>6, <3>6
  <2>3. CASE ~Syncs(m)
    <3>1. LastSync(0) /\ 0 \in 0..Len(toClient)
      BY <1>1, <2>1, <2>3, ShiftedSync
    <3>2. Lead(0)
      BY <1>4, <3>1
    <3>3. Lead(0)'
      BY <1>1, <2>3, <3>2, CarriedLead
    <3> QED
      BY <1>6, <3>3
  <2> QED
    BY <2>2, <2>3
<1> QED
  BY <1>5, <1>6

(* What leaves log, messages and view alone keeps the way to the tail.      *)
LEMMA SameFollows ==
  ASSUME Follows, UNCHANGED <<toClient, cursor, epoch, last, missed, opened, online>>, Asked => Asked'
  PROVE  Follows'
<1>1. Excused'
  BY DEF Follows, Excused
<1>2. \A i : /\ LastSync(i)' => LastSync(i)
             /\ Lead(i) => Lead(i)'
  BY DEF LastSync, Lead, At
<1>3. Leads'
  BY <1>2 DEF Follows, Leads
<1> QED
  BY <1>1, <1>3 DEF Follows

(* While something is missed nothing is promised.                           *)
LEMMA MissedFollows == missed' => Follows'
BY DEF Follows, Excused, Leads

(* A push that leads on keeps the way to the tail.                          *)
LEMMA PushedLeads ==
  ASSUME Base, Leads, NEW ms \in Seq(Messages), toClient' = toClient \o ms,
         UNCHANGED <<online, opened, toDaemon>>, ~missed' => ~missed,
         \A k \in 1..Len(ms) : ~Syncs(ms[k]),
         \A i : LastSync(i)' /\ Lead(i) /\ online /\ ~missed' => Lead(i)'
  PROVE  Leads'
<1>1. TypeOK
  BY DEF Base
<1>2. Asked' = Asked
  BY DEF Asked, Queued
<1>3. SUFFICES ASSUME online, opened, ~missed', ~Asked, NEW i \in 0..Len(toClient'), LastSync(i)'
               PROVE  (i # 0 /\ toClient'[i].hasNewer) \/ Lead(i)'
  BY <1>2 DEF Leads
<1>4. /\ LastSync(i) /\ i \in 0..Len(toClient)
      /\ i # 0 => toClient'[i] = toClient[i]
  BY <1>1, <1>3, PushedSync
<1>5. (i # 0 /\ toClient[i].hasNewer) \/ Lead(i)
  BY <1>3, <1>4 DEF Leads
<1> QED
  BY <1>3, <1>4, <1>5

(* AppendRow keeps the way to the tail.                                     *)
LEMMA AppendRowFollows ==
  ASSUME Base, Offline, Follows, AppendRow
  PROVE  Follows'
<1>1. TypeOK /\ Excused /\ Leads
  BY DEF Base, Follows
<1>2. /\ last' = last + 1 /\ UNCHANGED <<epoch, cursor, online, opened, toDaemon, missed>>
      /\ last < Rows
  BY DEF AppendRow, client, view
<1>3. PICK m : m = Row(epoch, last + 1)
  OBVIOUS
<1>4. m \in Messages
  BY <1>1, <1>2, <1>3, StateTyped, Constants DEF Row, Events, Messages, Seqs
<1>5. PICK ms : ms = <<m>>
  OBVIOUS
<1>6. ms \in Seq(Messages) /\ Push(ms) /\ \A k \in 1..Len(ms) : ms[k] = m
  BY <1>3, <1>4, <1>5 DEF AppendRow
<1>7. m.type = "row" /\ ~Syncs(m)
  BY <1>3, RowIs DEF Syncs
<1>8. CASE online
  <2>1. toClient' = toClient \o ms
    BY <1>6, <1>8 DEF Push
  <2>2. Excused'
    BY <1>1, <1>2, <1>6, <1>7, <2>1, PushedExcused
  <2>3. ASSUME NEW i, LastSync(i)', Lead(i) PROVE Lead(i)'
    BY <1>1, <1>2, <1>3, <1>4, <1>5, <2>1, <2>3, AppendedLead
  <2>4. Leads'
    BY <1>1, <1>2, <1>6, <1>7, <2>1, <2>3, PushedLeads
  <2> QED
    BY <2>2, <2>4 DEF Follows
<1>9. CASE ~online
  <2>1. ~online' /\ toClient' = <<>>
    BY <1>2, <1>6, <1>9 DEF Push, Offline
  <2> QED
    BY <2>1 DEF Follows, Excused, Leads
<1> QED
  BY <1>8, <1>9

(* SeedEnds keeps the way to the tail.                                      *)
LEMMA SeedEndsFollows ==
  ASSUME Base, Offline, Follows, SeedEnds
  PROVE  Follows'
<1>1. TypeOK /\ Excused /\ Leads
  BY DEF Base, Follows
<1>2. UNCHANGED <<epoch, last, cursor, online, opened, toDaemon, missed>>
  BY DEF SeedEnds, client, view
<1>3. PICK ms \in Seq(Messages) : Push(ms) /\ \A k \in 1..Len(ms) : ms[k].type = "reloaded"
  <2>1. [type |-> "reloaded"] \in Messages
    BY DEF Messages
  <2>2. PICK a, b : a = <<[type |-> "reloaded"]>> /\ b = <<>>
    OBVIOUS
  <2>3. /\ a \in Seq(Messages) /\ b \in Seq(Messages)
        /\ \A k \in 1..Len(a) : a[k].type = "reloaded"
        /\ \A k \in 1..Len(b) : b[k].type = "reloaded"
    BY <2>1, <2>2
  <2>4. Push(a) \/ Push(b)
    BY <2>2 DEF SeedEnds
  <2> QED
    BY <2>3, <2>4
<1>4. CASE online
  <2>1. toClient' = toClient \o ms
    BY <1>3, <1>4 DEF Push
  <2>2. \A k \in 1..Len(ms) : ~Syncs(ms[k]) /\ ms[k].type # "row" /\ ms[k].type # "error" /\ ~IsAnswer(ms[k])
    BY <1>3 DEF Syncs, IsAnswer
  <2>3. Excused'
    BY <1>1, <1>2, <2>1, <2>2, PushedExcused
  <2>4. ASSUME NEW i, LastSync(i)', Lead(i) PROVE Lead(i)'
    BY <1>1, <1>2, <2>1, <2>2, <2>4, KeptLead
  <2>5. Leads'
    BY <1>1, <1>2, <2>1, <2>2, <2>4, PushedLeads
  <2> QED
    BY <2>3, <2>5 DEF Follows
<1>5. CASE ~online
  <2>1. ~online' /\ toClient' = <<>>
    BY <1>2, <1>3, <1>5 DEF Push, Offline
  <2> QED
    BY <2>1 DEF Follows, Excused, Leads
<1> QED
  BY <1>4, <1>5

(* Rewind keeps the way to the tail, or the log is empty and that is        *)
(* missed.                                                                  *)
LEMMA RewindFollows ==
  ASSUME Base, Offline, Follows, Rewind
  PROVE  Follows'
<1>1. TypeOK /\ Excused /\ Leads
  BY DEF Base, Follows
<1>2. /\ last' \in Nat /\ missed' = (missed \/ last' = 0)
      /\ UNCHANGED <<cursor, online, opened, toDaemon>>
  <2>1. last' \in 0..Rows /\ Rows \in Nat
    BY <1>1, RewindIs, Constants
  <2> QED
    BY <1>1, <2>1, RewindIs DEF client, view
<1>3. PICK ms \in Seq(Messages) :
        /\ toClient' = toClient \o ms
        /\ ~online => ms = <<>>
        /\ online => last' <= Len(ms)
        /\ \A i \in 1..Len(ms) :
             IF i <= last' THEN ms[i] = Row(epoch', i) ELSE ms[i].type = "reloaded"
  BY <1>1, RewindIs
<1>4. \A k \in 1..Len(ms) : ~Syncs(ms[k]) /\ ms[k].type # "error"
  <2> SUFFICES ASSUME NEW k \in 1..Len(ms) PROVE ms[k].type \in {"row", "reloaded"}
    BY DEF Syncs, IsAnswer
  <2>1. ms[k] = Row(epoch', k) \/ ms[k].type = "reloaded"
    BY <1>3
  <2> QED
    BY <2>1, RowIs
<1>5. Excused'
  <2>1. \A k \in 1..Len(ms) : ms[k].type # "error"
    BY <1>4
  <2> QED
    BY <1>1, <1>2, <1>3, <2>1, PushedExcused
<1>6. ASSUME NEW i, LastSync(i)', Lead(i), online, ~missed' PROVE Lead(i)'
  <2>1. last' > 0 /\ last' <= Len(ms)
    <3>1. last' # 0
      BY <1>2, <1>6
    <3> QED
      BY <1>2, <1>3, <1>6, <3>1
  <2> QED
    BY <1>1, <1>2, <1>3, <1>6, <2>1, RewoundLead
<1>7. Leads'
  <2>1. \A k \in 1..Len(ms) : ~Syncs(ms[k])
    BY <1>4
  <2> QED
    BY <1>1, <1>2, <1>3, <1>6, <2>1, PushedLeads
<1> QED
  BY <1>5, <1>7 DEF Follows

(* Answer: from then on the answer leads, unless it is a page of older      *)
(* rows.                                                                    *)
LEMMA AnswerFollows ==
  ASSUME Base, Offline, Follows, Answer
  PROVE  Follows'
<1>1. TypeOK /\ Excused /\ Leads
  BY DEF Base, Follows
<1>2. /\ toDaemon # <<>> /\ Head(toDaemon) \in Queued /\ toDaemon' = Tail(toDaemon)
      /\ missed' = (missed /\ Head(toDaemon).dir = "before")
      /\ UNCHANGED <<epoch, last, cursor, online, opened>>
  BY AnswerIs DEF daemon, client, view
<1>3. PICK m \in Messages :
        /\ toClient' = toClient \o <<m>> /\ m.type = "answer" /\ m.request = Head(toDaemon)
        /\ m.epoch = epoch /\ (Whole(m) => Told(m) = last) /\ (last = 0 => m.rows = <<>>)
  BY AnswerIs
<1>4. PICK ms : ms = <<m>>
  OBVIOUS
<1>5. /\ ms \in Seq(Messages) /\ toClient' = toClient \o ms /\ \A k \in 1..Len(ms) : ms[k] = m
      /\ Len(ms) = 1 /\ 1 \in 1..Len(ms)
  BY <1>3, <1>4
<1>6. CASE m.request.dir = "before"
  <2>1. missed' = missed /\ ~Syncs(m)
    <3>1. missed \in BOOLEAN
      BY <1>1 DEF TypeOK
    <3> QED
      BY <1>2, <1>3, <1>6, <3>1 DEF Syncs
  <2>2. Excused'
    BY <1>1, <1>3, <1>5, <2>1, PushedExcused
  <2>3. \A k \in 1..Len(ms) :
          ~Syncs(ms[k]) /\ ms[k].type # "row" /\ (last = 0 /\ IsAnswer(ms[k]) => ms[k].rows = <<>>)
    BY <1>3, <1>5, <2>1
  <2>4. Asked => Asked'
    <3>1. \A r \in Queued : r \in Queued' \/ r = Head(toDaemon)
      BY <1>1, <1>2, QueueTail
    <3> QED
      BY <1>3, <1>6, <3>1 DEF Asked
  <2>5. SUFFICES ASSUME online', opened', ~missed', ~Asked', NEW i \in 0..Len(toClient'), LastSync(i)'
                 PROVE  (i # 0 /\ toClient'[i].hasNewer) \/ Lead(i)'
    BY <2>2 DEF Follows, Leads
  <2>6. /\ LastSync(i) /\ i \in 0..Len(toClient)
        /\ i # 0 => toClient'[i] = toClient[i]
    BY <1>1, <1>5, <2>3, <2>5, PushedSync
  <2>7. (i # 0 /\ toClient[i].hasNewer) \/ Lead(i)
    BY <1>1, <1>2, <2>1, <2>4, <2>5, <2>6 DEF Leads
  <2>8. Lead(i) => Lead(i)'
    BY <1>1, <1>2, <1>5, <2>3, <2>5, KeptLead
  <2> QED
    BY <2>6, <2>7, <2>8
<1>7. CASE m.request.dir # "before"
  <2>2. Syncs(m)
    BY <1>3, <1>7 DEF Syncs, IsAnswer
  <2>3. PICK n \in Nat : n = Len(toClient)
    BY <1>1, StateTyped
  <2>4. /\ Len(toClient') = n + 1 /\ toClient'[n + 1] = m
        /\ \A k \in 1..n : toClient'[k] = toClient[k]
    BY <1>1, <1>5, <2>3, PushedIs
  <2>5. Excused'
    <3> SUFFICES ASSUME NEW i \in 1..Len(toClient'), toClient'[i].type = "error"
                 PROVE  \E j \in i + 1..Len(toClient') : Syncs(toClient'[j])
      BY DEF Excused
    <3>1. i # n + 1
      BY <1>3, <2>4
    <3>2. n + 1 \in i + 1..Len(toClient')
      BY <2>4, <3>1
    <3> QED
      BY <2>2, <2>4, <3>2
  <2>6. SUFFICES ASSUME NEW i \in 0..Len(toClient'), LastSync(i)'
                 PROVE  (i # 0 /\ toClient'[i].hasNewer) \/ Lead(i)'
    BY <2>5 DEF Follows, Leads
  <2>7. i = n + 1
    <3>1. ~(n + 1 \in i + 1..Len(toClient'))
      BY <2>2, <2>4, <2>6 DEF LastSync
    <3> QED
      BY <2>4, <3>1
  <2>8. ~m.hasNewer => Told(m) = last
    BY <1>3, <1>7 DEF Whole, News, IsAnswer
  <2>9. /\ ~m.hasNewer => AtNow(n + 1, epoch, last)
        /\ n + 1 # 0 /\ \A j : j \notin (n + 1) + 1..Len(toClient')
    <3>1. last <= last
      BY <1>1, StateTyped
    <3>2. n + 1 # 0 /\ \A j : j \notin (n + 1) + 1..Len(toClient')
      BY <2>4
    <3> QED
      BY <1>3, <2>4, <2>8, <3>1, <3>2 DEF AtNow
  <2>10. ~m.hasNewer => Lead(n + 1)'
    <3>1. epoch' = epoch /\ last' = last
      BY <1>2
    <3> QED
      BY <1>3, <2>4, <2>8, <2>9, <3>1, LeadNow
  <2> QED
    BY <2>4, <2>7, <2>9, <2>10
<1> QED
  BY <1>6, <1>7

(* ReceiveRow keeps the way to the tail.                                    *)
LEMMA ReceiveRowFollows ==
  ASSUME Base, Follows, ReceiveRow
  PROVE  Follows'
<1>1. PICK m : m = Head(toClient)
  OBVIOUS
<1>2. TypeOK /\ Excused /\ Leads
  BY DEF Base, Follows
<1>3. /\ toClient # <<>> /\ toClient' = Tail(toClient) /\ m.type = "row"
      /\ UNCHANGED <<epoch, last, online, opened, missed>>
      /\ cursor' \in Ranges \cup {None} /\ Goes(m) /\ Forward /\ Queued \subseteq Queued'
  BY <1>1, RowIsTaken DEF daemon
<1>4. Carries(m)
  BY <1>1, <1>3, RowIsTaken DEF Carries
<1>5. Asked => Asked'
  BY <1>3 DEF Asked
<1>6. cursor' # None => cursor'.end \in Nat
  BY <1>3, RangeTyped
<1>7. ~Syncs(m)
  BY <1>3 DEF Syncs, IsAnswer
<1>8. Leads'
  BY <1>1, <1>2, <1>3, <1>4, <1>5, <1>6, <1>7, TakenLeads
<1>9. Excused'
  BY <1>2, <1>3, TakenExcused
<1> QED
  BY <1>8, <1>9 DEF Follows

(* ReceiveError keeps the way to the tail.                                  *)
LEMMA ReceiveErrorFollows ==
  ASSUME Base, Follows, ReceiveError
  PROVE  Follows'
<1>1. PICK m : m = Head(toClient)
  OBVIOUS
<1>2. TypeOK /\ Excused /\ Leads
  BY DEF Base, Follows
<1>3. /\ toClient # <<>> /\ toClient' = Tail(toClient) /\ m.type = "error"
      /\ UNCHANGED <<epoch, last, online, opened, missed, cursor, toDaemon>>
  BY <1>1 DEF ReceiveError, daemon
<1>4. cursor # None => cursor.end \in Nat /\ cursor.epoch \in Nat
  BY <1>2, StateTyped
<1>5. Goes(m) /\ Forward
  BY <1>3, <1>4 DEF Goes, Stays, Forward
<1>6. Carries(m) /\ ~Syncs(m)
  BY <1>3 DEF Carries, Syncs, IsAnswer
<1>7. Asked' = Asked
  BY <1>3 DEF Asked, Queued
<1>8. cursor' # None => cursor'.end \in Nat
  BY <1>3, <1>4
<1>9. Leads'
  BY <1>1, <1>2, <1>3, <1>5, <1>6, <1>7, <1>8, TakenLeads
<1>10. Excused'
  BY <1>2, <1>3, TakenExcused
<1> QED
  BY <1>9, <1>10 DEF Follows

(* ReceiveReloaded asks for the tail.                                       *)
LEMMA ReceiveReloadedFollows ==
  ASSUME Base, Follows, ReceiveReloaded
  PROVE  Follows'
<1>1. TypeOK /\ Excused
  BY DEF Base, Follows
<1>2. /\ toClient # <<>> /\ toClient' = Tail(toClient) /\ missed' = missed
  BY <1>1, ReloadedIs
<1>3. PICK r \in Fetches : toDaemon' = Append(toDaemon, r) /\ r.dir = "tail"
  BY <1>1, ReloadedIs
<1>4. Asked'
  BY <1>1, <1>3, AskOne DEF Asked
<1>5. Excused'
  BY <1>1, <1>2, TakenExcused
<1> QED
  BY <1>4, <1>5 DEF Follows, Leads

(* ReceiveAnswer: the page is followed by the next, or the view arrives     *)
(* where the answer tells.                                                  *)
LEMMA ReceiveAnswerFollows ==
  ASSUME Base, Asks, Follows, ReceiveAnswer
  PROVE  Follows'
<1>1. PICK m : m = Head(toClient)
  OBVIOUS
<1>2. TypeOK /\ Chan /\ Excused /\ Leads
  BY DEF Base, Follows
<1>3. /\ toClient # <<>> /\ toClient' = Tail(toClient) /\ m.type = "answer"
      /\ UNCHANGED <<epoch, last, online, opened>> /\ missed' = (missed \/ Ignored(m))
      /\ cursor' \in Ranges \cup {None} /\ Goes(m) /\ Forward /\ Queued \subseteq Queued'
      /\ (m.reset => Reaches(m)) /\ (m.request.dir = "before" /\ ~m.reset => Stays)
  BY <1>1, AnswerIsTaken DEF daemon
<1>4. /\ m \in Answers /\ AnswerShape(m) /\ Told(m) \in Nat
      /\ m.rows # <<>> => Told(m) \in Seqs /\ Told(m) = m.rows[Len(m.rows)]
      /\ m.epoch \in 1..Epochs
  BY <1>1, <1>2, <1>3, HeadAnswer
<1>5. Carries(m)
  <2>1. ASSUME cursor = None, m.request.dir = "before", m.rows = <<>> PROVE cursor' = None
    <3>1. CASE m.reset
      BY <1>3, <2>1, <3>1 DEF Reaches, Told
    <3>2. CASE ~m.reset
      BY <1>3, <2>1, <3>2 DEF Stays
    <3> QED
      BY <3>1, <3>2
  <2> QED
    BY <1>3, <2>1 DEF Carries, Syncs, IsAnswer
<1>6. ASSUME Syncs(m), ~missed', ~Asked', LastSync(0)' PROVE Reaches(m) /\ ~m.hasNewer
  <2>1. PICK p, q \in Positions \cup {None} :
          /\ q = PageEnd(m)
          /\ p # None => /\ CatchUp(p) \in inFlight \/ Next1(p) \in Queued'
                         /\ m.request.dir = "tail"
          /\ q # None => /\ CatchUp(q) \in inFlight \/ Next1(q) \in Queued'
                         /\ q.seq = Told(m)
                         /\ m.request.dir = "after" => Told(m) > m.request.cursor.seq
          /\ p = None /\ m.request.dir # "before" /\ ~Ignored(m) /\ Whole(m) => Reaches(m)
    BY <1>1, AnswerIsTaken
  <2>2. ASSUME NEW at \in Positions \cup {None}, at # None,
               CatchUp(at) \in inFlight \/ Next1(at) \in Queued'
        PROVE  Key(m.request) = CatchUp(at)
    <3>1. at \in Positions
      BY <2>2
    <3>2. Next1(at).dir = "after"
      BY <2>2, SentIs
    <3>3. CatchUp(at) \in inFlight
      BY <1>6, <2>2, <3>2 DEF Asked
    <3> QED
      BY <1>1, <1>2, <1>3, <1>6, <3>1, <3>3, Suppressed
  <2>3. \A at : Key(m.request) = CatchUp(at) => m.request.dir = "after" /\ m.request.cursor = at
    BY DEF Key, CatchUp
  <2>4. p = None
    BY <2>1, <2>2, <2>3
  <2>5. q = None
    <3> SUFFICES ASSUME q # None PROVE FALSE
      OBVIOUS
    <3>1. m.request.dir = "after" /\ m.request.cursor = q
      BY <2>1, <2>2, <2>3
    <3>2. Told(m) > Told(m)
      BY <2>1, <3>1
    <3> QED
      BY <1>4, <3>2
  <2>6. ~m.hasNewer
    <3> SUFFICES ASSUME m.hasNewer PROVE FALSE
      OBVIOUS
    <3>1. m.request.dir = "after" /\ m.rows # <<>>
      BY <1>4, <1>6 DEF AnswerShape, News, Syncs
    <3>2. PageEnd(m) = Position(m.epoch, Told(m))
      BY <1>4, <3>1 DEF PageEnd, Incomplete
    <3>3. Position(m.epoch, Told(m)) \in Positions
      BY <1>4, <3>1 DEF Position, Positions
    <3>4. Position(m.epoch, Told(m)) # None
      BY <3>3, PositionTyped
    <3> QED
      BY <2>1, <2>5, <3>2, <3>4
  <2>7. Whole(m) /\ m.request.dir # "before" /\ ~Ignored(m)
    BY <1>3, <1>6, <2>6 DEF Whole, News, Syncs
  <2> QED
    BY <2>1, <2>4, <2>6, <2>7
<1>7. Asked => Asked'
  BY <1>3 DEF Asked
<1>8. cursor' # None => cursor'.end \in Nat
  BY <1>3, RangeTyped
<1>9. ~missed' => ~missed
  BY <1>3
<1>10. Leads'
  BY <1>1, <1>2, <1>3, <1>5, <1>6, <1>7, <1>8, <1>9, TakenLeads
<1>11. Excused'
  BY <1>2, <1>3, <1>9, TakenExcused
<1> QED
  BY <1>10, <1>11 DEF Follows

(* Every step keeps the failures excused and the way to the tail.           *)
LEMMA FollowsStep ==
  ASSUME Base, Offline, Asks, Follows, [Next]_vars
  PROVE  Follows'
<1>1. TypeOK
  BY DEF Base
<1>2. CASE SeedRow \/ Load \/ Reload \/ Fail \/ OpenJoins
  <2>1. missed'
    BY <1>2 DEF SeedRow, Load, Reload, NewLog, Fail, OpenJoins
  <2> QED
    BY <2>1, MissedFollows
<1>3. CASE Unload \/ InitTimesOut \/ RequestTimesOut \/ UNCHANGED vars
  <2>1. UNCHANGED <<toDaemon, toClient, cursor, epoch, last, missed, opened, online>>
    BY <1>3 DEF Unload, InitTimesOut, RequestTimesOut, vars, daemon, client, view
  <2>2. Asked' = Asked
    BY <2>1 DEF Asked, Queued
  <2> QED
    BY <2>1, <2>2, SameFollows
<1>4. CASE Open
  <2>1. PICK r \in Fetches : toDaemon' = Append(toDaemon, r) /\ r.dir # "before"
    <3> DEFINE after == authoritative /\ cursor # None
               r == IF after THEN Request("after", End, Page, FALSE)
                    ELSE Request("tail", None, Page, FALSE)
    <3>1. toDaemon' = Append(toDaemon, r)
      BY <1>4 DEF Open
    <3>2. r \in Fetches /\ r.dir # "before"
      <4>1. after => End \in Positions
        BY <1>1, EndTyped
      <4> QED
        BY <1>1, <4>1, Constants DEF Request, Fetches
    <3> QED
      BY <3>1, <3>2
  <2>2. Asked'
    BY <1>1, <2>1, AskOne DEF Asked
  <2>3. Excused'
    BY <1>4 DEF Open, Follows, Excused
  <2> QED
    BY <2>2, <2>3 DEF Follows, Leads
<1>5. CASE LoadOlder
  <2>1. UNCHANGED <<toClient, cursor, epoch, last, missed, opened, online>>
    BY <1>5, LoadOlderIs DEF daemon, view
  <2>2. PICK r \in Fetches : toDaemon' = Append(toDaemon, r)
    BY <1>5, LoadOlderIs
  <2>3. Asked => Asked'
    BY <1>1, <2>2, AskOne DEF Asked
  <2> QED
    BY <2>1, <2>3, SameFollows
<1>6. CASE Disconnect
  <2>1. ~online' /\ toClient' = <<>>
    BY <1>6 DEF Disconnect
  <2> QED
    BY <2>1 DEF Follows, Excused, Leads
<1>7. CASE Reconnect
  <2>1. ~opened' /\ toClient' = <<>>
    BY <1>7 DEF Reconnect, Offline
  <2> QED
    BY <2>1 DEF Follows, Excused, Leads
<1> QED
  BY <1>2, <1>3, <1>4, <1>5, <1>6, <1>7, AppendRowFollows, SeedEndsFollows, RewindFollows, AnswerFollows,
     ReceiveRowFollows, ReceiveErrorFollows, ReceiveReloadedFollows, ReceiveAnswerFollows
     DEF Next, DaemonNext, ClientNext, Receive

-----------------------------------------------------------------------------
(* The theorems.                                                            *)

(* The parts of the inductive invariant.                                    *)
LEMMA Parts ==
  /\ IInv <=> Base /\ Offline /\ KeptBehind /\ Asks /\ Follows
  /\ IInv' <=> Base' /\ Offline' /\ KeptBehind' /\ Asks' /\ Follows'
BY DEF IInv, Base, Chan, Asks, Follows

(* The inductive invariant holds at the start.                              *)
LEMMA InitIInv == Init => IInv
<1> SUFFICES ASSUME Init PROVE IInv
  OBVIOUS
<1> USE DEF Init
<1>1. TypeOK
  <2>1. Epochs \in Nat \ {0} /\ Rows \in Nat /\ Faults \in Nat
    BY Constants
  <2>2. 1 \in 1..Epochs /\ 0 \in 0..Rows /\ 0 \in 0..Faults
    BY <2>1
  <2>3. /\ toDaemon \in Seq(Fetches)
        /\ toClient \in Seq(Events \cup Answers \cup Rejected \cup {[type |-> "reloaded"]})
        /\ shown \in Seq((1..Epochs) \X Seqs)
    OBVIOUS
  <2>4. /\ {loaded, online, authoritative, hasOlder, resumed, opened, missed} \subseteq BOOLEAN
        /\ cursor \in Ranges \cup {None} /\ kept \in Positions \cup {None} /\ init \in {"none", "tail", "after", "left"}
        /\ seeding \in {"no", "background", "reload"}
        /\ inFlight \subseteq [dir : {"after", "before"}, cursor : Positions]
    OBVIOUS
  <2>5. epoch \in 1..Epochs /\ last \in 0..Rows /\ faults \in 0..Faults
    BY <2>2
  <2> HIDE DEF Init
  <2> QED
    BY <2>3, <2>4, <2>5 DEF TypeOK
<1>2. Queued = {} /\ Replied = {} /\ Answered = {}
  BY EmptyQueues
<1>3. Ascending /\ KeptBehind /\ InitIsAnswered /\ Offline /\ Leads /\ InFlightReal
  BY DEF Ascending, KeptBehind, InitIsAnswered, Syncing, Offline, Leads, InFlightReal
<1>4. Len(toClient) = 0 /\ 1..0 = {}
  OBVIOUS
<1>5. \A i : i \notin 1..Len(toClient)
  BY <1>4
<1>6. Shape /\ Past /\ Known
  BY <1>2, <1>5 DEF Shape, Past, Known
<1>7. Ordered /\ Excused
  BY <1>5 DEF Ordered, Excused
<1> QED
  BY <1>1, <1>3, <1>6, <1>7 DEF IInv

(* Every state that can be reached has the inductive invariant.             *)
THEOREM Inductive == Spec => []IInv
<1>1. IInv /\ [Next]_vars => IInv'
  BY Parts, BaseStep, OfflineStep, KeptStep, AsksStep, FollowsStep DEF Base
<1> QED
  BY <1>1, InitIInv, PTL DEF Spec

(* Every variable keeps its type, for any bounds on logs, rows, faults      *)
(* and messages.                                                            *)
THEOREM TypeCorrect == Spec => []TypeOK
<1>1. IInv => TypeOK
  BY DEF IInv
<1> QED
  BY <1>1, Inductive, PTL

(* The rows applied since the list was begun anew are of one log, each      *)
(* once and in order, the cursor names their ends, and a live message       *)
(* kept behind them is never ahead of it (session-stream-reducers.ts).      *)
THEOREM RowsInOrder == Spec => []ShownInOrder
<1>1. IInv => ShownInOrder
  <2> SUFFICES ASSUME IInv PROVE NothingAhead
    BY DEF IInv, ShownInOrder
  <2>1. TypeOK /\ KeptBehind
    BY DEF IInv
  <2> SUFFICES ASSUME kept # None, cursor # None
               PROVE  \/ kept.epoch < cursor.epoch
                      \/ kept.epoch = cursor.epoch /\ kept.seq <= cursor.end
    BY DEF NothingAhead
  <2>2. Within(kept.epoch, kept.seq, cursor.epoch, cursor.end)
    BY <2>1 DEF KeptBehind
  <2>3. kept.epoch \in Nat /\ cursor.epoch \in Nat
    BY <2>1, StateTyped, PositionTyped DEF TypeOK
  <2> QED
    BY <2>2, <2>3 DEF Within
<1> QED
  BY <1>1, Inductive, PTL

(* While the app shows that it waits for its first sync, a request or a     *)
(* reply to it is under way; a deferred that a lost connection left         *)
(* without its flag is not meant (session-context.tsx).                     *)
THEOREM FirstSyncAnswered == Spec => []InitIsAnswered
<1>1. IInv => InitIsAnswered
  BY DEF IInv
<1> QED
  BY <1>1, Inductive, PTL

(* A request the app counts as in flight, so that it asks for those rows    *)
(* no second time, or for no other older page, has its request, an answer   *)
(* or an error under way (session-context.tsx).                             *)
THEOREM RequestsAreReal == Spec => []InFlightReal
<1>1. IInv => InFlightReal
  BY DEF IInv
<1> QED
  BY <1>1, Inductive, PTL

(* No step takes the app back to an older log or to an earlier end of the   *)
(* same log.                                                                *)
THEOREM NeverGoesBack == Spec => NeverBack
<1>1. IInv /\ [Next]_vars =>
        [cursor # None /\ cursor' # None =>
           \/ cursor'.epoch > cursor.epoch
           \/ cursor'.epoch = cursor.epoch /\ cursor'.end >= cursor.end]_vars
  BY Parts, ForwardStep
<1> QED
  BY <1>1, Inductive, PTL DEF Spec, NeverBack

(* Once everything has arrived and nothing was missed, the app shows the    *)
(* daemon's tail, whatever was lost, late, paged or timed out before.       *)
THEOREM CatchesUp == Spec => []CaughtUp
<1>1. IInv => CaughtUp
  <2> SUFFICES ASSUME IInv, Settled PROVE ShowsTail
    BY DEF CaughtUp
  <2>1. TypeOK /\ Past /\ Leads /\ toClient = <<>> /\ toDaemon = <<>> /\ online /\ opened /\ ~missed
    BY DEF IInv, Settled
  <2>2. Len(toClient) = 0 /\ Queued = {}
    BY <2>1, EmptyQueues
  <2>3. LastSync(0) /\ ~Asked /\ 0 \in 0..Len(toClient)
    BY <2>2 DEF LastSync, Asked
  <2>4. Lead(0)
    BY <2>1, <2>3 DEF Leads
  <2>5. /\ last = 0 => cursor = None
        /\ last > 0 => At(0, epoch, last) \/ \E k \in 0 + 1..Len(toClient) : Tells(toClient[k], epoch, last)
    BY <2>4 DEF Lead
  <2>6. last > 0 => cursor # None /\ cursor.epoch = epoch /\ last <= cursor.end
    BY <2>2, <2>5 DEF At
  <2>7. /\ last \in Nat /\ epoch \in Nat
        /\ cursor # None => /\ cursor.end \in Nat
                            /\ cursor.epoch = epoch => cursor.end <= last
    BY <2>1, StateTyped DEF Past, Within
  <2>8. last = 0 \/ last > 0
    BY <2>7
  <2>9. CASE last = 0
    BY <2>5, <2>9 DEF ShowsTail
  <2>10. CASE last > 0
    <3>1. cursor # None /\ cursor.epoch = epoch /\ cursor.end = last
      BY <2>6, <2>7, <2>10
    <3> QED
      BY <2>10, <3>1 DEF ShowsTail
  <2> QED
    BY <2>8, <2>9, <2>10
<1> QED
  BY <1>1, Inductive, PTL
=============================================================================
