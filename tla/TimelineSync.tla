---------------------------- MODULE TimelineSync -----------------------------
(***************************************************************************)
(* One agent's timeline in the daemon and in one app that shows it.  Live  *)
(* rows are pushed as events; what events cannot carry is fetched: the     *)
(* tail when the app has no history, pages after its cursor to catch up,   *)
(* pages before it to scroll up.  Connections drop, requests fail or time  *)
(* out, and the daemon replaces the log under a new epoch when the agent   *)
(* is loaded, reloaded or rewound (server/agent/agent-timeline-store.ts,   *)
(* app/src/timeline/session-stream-reducers.ts, session-context.tsx).      *)
(***************************************************************************)
EXTENDS Naturals, Sequences

CONSTANTS None,
          Page,            \* rows the app asks for (TIMELINE_FETCH_PAGE_SIZE)
          DefaultLimit,    \* rows of a request without a limit
          Epochs, Rows,    \* bounds: logs of the agent, rows of a log
          Faults,          \* bound: lost connections, failed and timed out requests
          Flight           \* bound: messages under way when a row or a request is added

ASSUME TimelineAssumption ==
  /\ {Page, DefaultLimit, Epochs, Flight} \subseteq Nat \ {0}
  /\ {Rows, Faults} \subseteq Nat
  /\ Page < DefaultLimit
  /\ None \notin [epoch : Nat, seq : Nat] \cup [epoch : Nat, start : Nat, end : Nat]

VARIABLES
  \* The daemon: rows 1..last of the log `epoch`; who waits for its history.
  loaded, epoch, last, seeding,
  \* The connection.
  online, faults, toDaemon, toClient,
  \* The app: the range it claims, the rows applied since its list was last begun
  \* anew, the last row that a message kept behind them can be of, the first sync.
  cursor, shown, kept, init, authoritative, hasOlder, inFlight, resumed,
  \* History: the app has opened this agent over this connection; the log changed,
  \* or nothing was asked, and no event or answer that the app heeds has come since.
  opened, missed

daemon == <<loaded, epoch, last, seeding>>
view == <<cursor, shown, kept, authoritative, hasOlder>>
client == <<view, init, inFlight, resumed, opened>>
vars == <<daemon, online, faults, toDaemon, toClient, client, missed>>

Seqs == 1..Rows
Positions == [epoch : 1..Epochs, seq : Seqs]
Ranges == [epoch : 1..Epochs, start : Seqs, end : Seqs]
Fetches == [dir : {"tail", "after", "before"}, cursor : Positions \cup {None},
            limit : {Page, DefaultLimit}, tracked : BOOLEAN]
Rejected == [type : {"error"}, request : Fetches]
Answers == [type : {"answer"}, request : Fetches, epoch : 1..Epochs, reset : BOOLEAN,
            rows : Seq(Seqs), hasOlder : BOOLEAN, hasNewer : BOOLEAN]
Events == [type : {"row"}, epoch : 1..Epochs, seq : Seqs]

TypeOK ==
  /\ {loaded, online, authoritative, hasOlder, resumed, opened, missed} \subseteq BOOLEAN
  /\ epoch \in 1..Epochs /\ last \in 0..Rows /\ faults \in 0..Faults
  /\ seeding \in {"no", "background", "reload"}
  /\ toDaemon \in Seq(Fetches)
  /\ toClient \in Seq(Events \cup Answers \cup Rejected \cup {[type |-> "reloaded"]})
  /\ cursor \in Ranges \cup {None}
  /\ shown \in Seq((1..Epochs) \X Seqs)
  /\ kept \in Positions \cup {None}
  /\ init \in {"none", "tail", "after", "left"}
  /\ inFlight \subseteq [dir : {"after", "before"}, cursor : Positions]

Init ==
  /\ loaded = TRUE /\ epoch = 1 /\ last = 0 /\ seeding = "no"
  /\ online = TRUE /\ faults = 0 /\ toDaemon = <<>> /\ toClient = <<>>
  /\ cursor = None /\ shown = <<>> /\ kept = None /\ init = "none" /\ authoritative = FALSE
  /\ hasOlder = FALSE /\ inFlight = {} /\ resumed = TRUE
  /\ opened = FALSE /\ missed = FALSE

Quiet == Len(toDaemon) + Len(toClient) < Flight
Fault == faults < Faults /\ faults' = faults + 1
Interval(from, to) == [i \in 1..(IF to < from THEN 0 ELSE to - from + 1) |-> from + i - 1]
Push(messages) == toClient' = IF online THEN toClient \o messages ELSE toClient
Row(e, s) == [type |-> "row", epoch |-> e, seq |-> s]

-----------------------------------------------------------------------------
(* The daemon.                                                             *)

\* A live row is recorded and dispatched in one turn of the event loop.
AppendRow ==
  /\ loaded /\ last < Rows /\ Quiet
  /\ last' = last + 1
  /\ Push(<<Row(epoch, last + 1)>>)
  /\ UNCHANGED <<loaded, epoch, seeding, online, faults, toDaemon, client, missed>>

\* Provider history is appended without events.
SeedRow ==
  /\ loaded /\ seeding # "no" /\ last < Rows
  /\ last' = last + 1
  /\ missed' = TRUE
  /\ UNCHANGED <<loaded, epoch, seeding, online, faults, toDaemon, toClient, client>>

\* Only the app that asked for a reload is told of its end.
SeedEnds ==
  /\ seeding # "no"
  /\ seeding' = "no"
  /\ Push(IF seeding = "reload" THEN <<[type |-> "reloaded"]>> ELSE <<>>)
  /\ UNCHANGED <<loaded, epoch, last, online, faults, toDaemon, client, missed>>

\* The idle reaper, an archive or a close deletes the log in memory; within the
\* bound on logs, so that the agent can be loaded again.
Unload ==
  /\ loaded /\ loaded' = FALSE /\ epoch < Epochs
  /\ UNCHANGED <<epoch, last, seeding, online, faults, toDaemon, toClient, client, missed>>

NewLog(for) ==
  /\ epoch < Epochs
  /\ loaded' = TRUE /\ epoch' = epoch + 1 /\ last' = 0
  /\ seeding' = for
  /\ missed' = TRUE
  /\ UNCHANGED <<online, faults, toDaemon, toClient, client>>

\* ensureAgentLoaded, for whatever client or message; its history follows.
Load == ~loaded /\ NewLog("background")
\* refresh_agent_request of this app or of another client.
Reload == \E for \in {"background", "reload"} : (for = "reload" => online) /\ NewLog(for)

\* rewind: the provider's history becomes a new log whose rows are all pushed.
Rewind ==
  /\ loaded /\ epoch < Epochs
  /\ epoch' = epoch + 1
  /\ last' \in 0..Rows
  /\ missed' = (missed \/ last' = 0)
  /\ \E asked \in BOOLEAN :
       Push([s \in 1..last' |-> Row(epoch', s)]
            \o (IF asked THEN <<[type |-> "reloaded"]>> ELSE <<>>))
  /\ UNCHANGED <<loaded, seeding, online, faults, toDaemon, client>>

\* fetch of InMemoryAgentTimelineStore: <<first row, last row, reset, older, newer>>.
Lowest(to, limit) == IF to > limit THEN to - limit + 1 ELSE 1
Result(request, reset, from, to, older, newer) ==
  [type |-> "answer", request |-> request, epoch |-> epoch, reset |-> reset,
   rows |-> Interval(from, to), hasOlder |-> older, hasNewer |-> newer]

FetchTail(request, reset) ==
  LET from == Lowest(last, request.limit)
  IN Result(request, reset, from, last, from > 1, FALSE)
FetchAfter_Uncapped(request) ==
  LET seq == request.cursor.seq
      to == seq + request.limit
  IN Result(request, FALSE, seq + 1, to, seq >= 1, to < last)
FetchAfter(request) ==
  LET seq == request.cursor.seq
      to == IF seq + request.limit < last THEN seq + request.limit ELSE last
  IN Result(request, FALSE, seq + 1, to, seq >= 1, to > seq /\ to < last)
FetchBefore(request) ==
  LET to == IF request.cursor.seq <= last THEN request.cursor.seq - 1 ELSE last
      from == Lowest(to, request.limit)
  IN Result(request, FALSE, from, to, to >= 1 /\ from > 1, request.cursor.seq <= last)

Stale(request) == IF request.cursor = None THEN FALSE ELSE request.cursor.epoch # epoch

Fetch(request) ==
  CASE Stale(request)           -> FetchTail(request, TRUE)
    [] ~Stale(request) /\ last = 0 -> Result(request, FALSE, 1, 0, FALSE, FALSE)
    [] OTHER -> CASE request.dir = "tail"   -> FetchTail(request, FALSE)
                  [] request.dir = "after"  -> FetchAfter(request)
                  [] request.dir = "before" -> FetchBefore(request)

\* The daemon waits at most 800 ms for the history, then answers with what is there.
Answer ==
  /\ toDaemon # <<>> /\ loaded
  /\ Push(<<Fetch(Head(toDaemon))>>)
  /\ toDaemon' = Tail(toDaemon)
  /\ missed' = (missed /\ Head(toDaemon).dir = "before")
  /\ UNCHANGED <<daemon, online, faults, client>>

\* The agent cannot be loaded, or was closed while the request waited.
Fail ==
  /\ toDaemon # <<>> /\ Fault
  /\ Push(<<[type |-> "error", request |-> Head(toDaemon)]>>)
  /\ toDaemon' = Tail(toDaemon)
  /\ missed' = TRUE
  /\ UNCHANGED <<daemon, online, client>>

-----------------------------------------------------------------------------
(* The app: requests.                                                      *)

Request(dir, at, limit, tracked) ==
  [dir |-> dir, cursor |-> at, limit |-> limit, tracked |-> tracked]
End == [epoch |-> cursor.epoch, seq |-> cursor.end]
Key(request) == [dir |-> request.dir, cursor |-> request.cursor]

\* requestCanonicalCatchUp: one request per position in flight.
CatchUp(at) == [dir |-> "after", cursor |-> at]
Sent(at) == IF at = None \/ CatchUp(at) \in inFlight THEN <<>>
            ELSE <<Request("after", at, Page, TRUE)>>
Keys(at) == IF at = None THEN {} ELSE {CatchUp(at)}

\* ensureAgentIsInitialized: the pane is focused, or the connection came back.
Open ==
  /\ online /\ init = "none" /\ (resumed \/ Quiet)
  /\ LET after == authoritative /\ cursor # None
     IN /\ init' = IF after THEN "after" ELSE "tail"
        /\ toDaemon' = Append(toDaemon,
                         IF after THEN Request("after", End, Page, FALSE)
                                  ELSE Request("tail", None, Page, FALSE))
  /\ resumed' = FALSE /\ opened' = TRUE
  /\ UNCHANGED <<daemon, online, faults, toClient, view, inFlight, missed>>

\* A first sync that a lost connection left behind is still in its map: the
\* opening joins it and sends nothing.
OpenJoins ==
  /\ online /\ resumed /\ init = "left"
  /\ resumed' = FALSE /\ opened' = TRUE /\ missed' = TRUE
  /\ UNCHANGED <<daemon, online, faults, toDaemon, toClient, view, init, inFlight>>

LoadOlder ==
  /\ online /\ Quiet
  /\ cursor # None /\ hasOlder /\ \A k \in inFlight : k.dir # "before"
  /\ LET at == [epoch |-> cursor.epoch, seq |-> cursor.start]
     IN /\ toDaemon' = Append(toDaemon, Request("before", at, Page, TRUE))
        /\ inFlight' = inFlight \cup {[dir |-> "before", cursor |-> at]}
  /\ UNCHANGED <<daemon, online, faults, toClient, view, init, resumed, opened, missed>>

\* After 30 s the first sync is given up, after 60 s any other request; an
\* answer that comes later is applied all the same.
InitTimesOut ==
  /\ init # "none" /\ init' = "none"
  /\ IF init = "left" THEN UNCHANGED faults ELSE Fault
  /\ UNCHANGED <<daemon, online, toDaemon, toClient, view, inFlight, resumed, opened, missed>>

RequestTimesOut ==
  /\ \E k \in inFlight : inFlight' = inFlight \ {k}
  /\ Fault
  /\ UNCHANGED <<daemon, online, toDaemon, toClient, view, init, resumed, opened, missed>>

-----------------------------------------------------------------------------
(* The app: rows.                                                          *)

\* classifySessionTimelineSeq
Decision_NoStale(c, e, s) ==
  IF c = None THEN "init"
  ELSE CASE c.epoch # e                      -> "drop_epoch"
         [] c.epoch = e /\ s <= c.end + 1    -> "accept"
         [] c.epoch = e /\ s > c.end + 1     -> "gap"
Decision(c, e, s) ==
  IF c = None THEN "init"
  ELSE CASE c.epoch # e                      -> "drop_epoch"
         [] c.epoch = e /\ s <= c.end        -> "drop_stale"
         [] c.epoch = e /\ s = c.end + 1     -> "accept"
         [] c.epoch = e /\ s > c.end + 1     -> "gap"

Begin(e, s) == [epoch |-> e, start |-> s, end |-> s]

\* acceptIncrementalTimelineUnits: rows are taken in order up to a gap.
Accept(e, state, s) ==
  LET how == Decision(state.cursor, e, s)
  IN CASE state.gap -> state
       [] ~state.gap /\ how = "gap" -> [state EXCEPT !.gap = TRUE]
       [] ~state.gap /\ how = "init" ->
            [state EXCEPT !.cursor = Begin(e, s), !.shown = Append(@, <<e, s>>)]
       [] ~state.gap /\ how = "accept" ->
            [state EXCEPT !.cursor = [@ EXCEPT !.end = s], !.shown = Append(@, <<e, s>>)]
       [] OTHER -> state
Shown == [cursor |-> cursor, shown |-> shown, gap |-> FALSE]
AcceptNewer(answer) ==
  LET state[n \in 0..Len(answer.rows)] ==
        IF n = 0 THEN Shown ELSE Accept(answer.epoch, state[n - 1], answer.rows[n])
  IN state[Len(answer.rows)]

\* acceptOlderTimelineUnits: rows of a page ascend, so that a filter keeps the first.
Older(answer) ==
  [i \in {i \in 1..Len(answer.rows) : /\ cursor # None /\ cursor.epoch = answer.epoch
                                     /\ answer.rows[i] < cursor.start} |-> answer.rows[i]]
AcceptOlder(answer) ==
  LET rows == Older(answer)
  IN [cursor |-> IF rows = <<>> THEN cursor ELSE [cursor EXCEPT !.start = Head(answer.rows)],
      shown  |-> [i \in 1..Len(rows) |-> <<answer.epoch, rows[i]>>] \o shown,
      gap    |-> FALSE]

\* applyTimelineReplacePath. preserveReplacePathAssistantHead may keep a live message,
\* with what came with it, behind the replaced rows; whether it does depends on
\* their kinds and texts, but what it keeps was applied before.
Kept == IF cursor = None THEN kept ELSE End
Replaced(answer) ==
  LET n == Len(answer.rows)
  IN [cursor |-> IF n = 0 THEN None
                 ELSE [epoch |-> answer.epoch, start |-> answer.rows[1], end |-> answer.rows[n]],
      shown  |-> [i \in 1..n |-> <<answer.epoch, answer.rows[i]>>],
      gap    |-> FALSE]

\* The flag and the deferred are there: one that was left has lost its flag.
Syncing == init \in {"tail", "after"}
Bootstraps(answer) == answer.request.dir = "tail" /\ Syncing
Replaces(answer) == answer.reset \/ Bootstraps(answer)
Incomplete(answer) == answer.request.dir = "after" /\ answer.hasNewer

Applied(answer) ==
  IF Replaces(answer) THEN Replaced(answer)
  ELSE IF answer.request.dir = "before" THEN AcceptOlder(answer) ELSE AcceptNewer(answer)

\* Where to catch up from: before a gap; after the tail of a first sync or a page
\* that is not the last.
Position(e, s) == [epoch |-> e, seq |-> s]
BeforeGap(answer) ==
  LET c == Applied(answer).cursor
  IN IF Applied(answer).gap THEN Position(c.epoch, c.end) ELSE None
PageEnd_Never(answer) == None
PageEnd(answer) ==
  LET rows == answer.rows
      partial == Incomplete(answer) \/ (Replaces(answer) /\ ~answer.reset)
  IN IF partial /\ rows # <<>> THEN Position(answer.epoch, rows[Len(rows)]) ELSE None

\* Rows of a log that is not the one shown are dropped (drop_epoch), and nothing
\* is asked for in their place.
Ignored(answer) ==
  /\ ~Replaces(answer) /\ answer.request.dir # "before"
  /\ cursor # None /\ cursor.epoch # answer.epoch

\* shouldResolveTimelineInit
Resolves(answer) ==
  Syncing /\ (answer.reset \/ (~Incomplete(answer) /\ answer.request.dir = init))

Done(m) == IF m.request.tracked THEN {Key(m.request)} ELSE {}

ReceiveAnswer ==
  /\ toClient # <<>> /\ Head(toClient).type = "answer"
  /\ LET m == Head(toClient)
     IN /\ cursor' = Applied(m).cursor /\ shown' = Applied(m).shown
        /\ kept' = IF Replaces(m) THEN Kept ELSE kept
        /\ hasOlder' = m.hasOlder
        /\ authoritative' = (authoritative \/ m.request.dir = "tail"
                               \/ (m.request.dir = "after" /\ ~m.hasNewer))
        /\ init' = IF Resolves(m) THEN "none" ELSE init
        /\ toDaemon' = toDaemon \o Sent(BeforeGap(m)) \o Sent(PageEnd(m))
        /\ inFlight' = (inFlight \cup Keys(BeforeGap(m)) \cup Keys(PageEnd(m))) \ Done(m)
        /\ missed' = (missed \/ Ignored(m))
  /\ toClient' = Tail(toClient)
  /\ UNCHANGED <<daemon, online, faults, resumed, opened>>

\* Any failed fetch gives up the pending first sync.
ReceiveError ==
  /\ toClient # <<>> /\ Head(toClient).type = "error"
  /\ hasOlder' = FALSE
  /\ init' = "none"
  /\ inFlight' = inFlight \ Done(Head(toClient))
  /\ toClient' = Tail(toClient)
  /\ UNCHANGED <<daemon, online, faults, toDaemon, cursor, shown, kept, authoritative, resumed,
                 opened, missed>>

\* processTimelineSequencingGate
ReceiveRow ==
  /\ toClient # <<>> /\ Head(toClient).type = "row"
  /\ LET m == Head(toClient)
         how == Decision(cursor, m.epoch, m.seq)
         restart == how = "init" \/ (how = "drop_epoch" /\ m.seq = 1)
         from == IF how = "gap" THEN End ELSE None
     IN /\ cursor' = CASE restart -> Begin(m.epoch, m.seq)
                       [] how = "accept" -> [cursor EXCEPT !.end = m.seq]
                       [] OTHER -> cursor
        /\ shown' = CASE restart -> <<<<m.epoch, m.seq>>>>
                      [] how = "accept" -> Append(shown, <<m.epoch, m.seq>>)
                      [] OTHER -> shown
        /\ kept' = IF how = "drop_epoch" /\ m.seq = 1 THEN None ELSE kept
        /\ toDaemon' = toDaemon \o Sent(from)
        /\ inFlight' = inFlight \cup Keys(from)
  /\ toClient' = Tail(toClient)
  /\ UNCHANGED <<daemon, online, faults, authoritative, hasOlder, init, resumed, opened, missed>>

\* After its reload or rewind the app fetches the tail with its old cursor, so
\* that a new epoch answers with a reset.
ReceiveReloaded ==
  /\ toClient # <<>> /\ Head(toClient).type = "reloaded"
  /\ toDaemon' = Append(toDaemon, Request("tail", IF cursor = None THEN None ELSE End,
                                          DefaultLimit, FALSE))
  /\ toClient' = Tail(toClient)
  /\ UNCHANGED <<daemon, online, faults, client, missed>>

-----------------------------------------------------------------------------
(* The connection.                                                         *)

\* A first request still pending gives the first sync up. One whose first page
\* was answered, and is not the last, stays behind without its flag: the loss of
\* the catch-up that would complete it is only logged.
Opens(request) == ~request.tracked /\ request.limit = Page
OpeningPends == \/ \E i \in 1..Len(toDaemon) : Opens(toDaemon[i])
                \/ \E i \in 1..Len(toClient) : /\ toClient[i].type \in {"answer", "error"}
                                               /\ Opens(toClient[i].request)

Disconnect ==
  /\ online /\ Fault
  /\ online' = FALSE
  /\ toDaemon' = <<>> /\ toClient' = <<>>
  /\ init' = IF init = "none" \/ OpeningPends THEN "none" ELSE "left"
  /\ inFlight' = {} /\ opened' = FALSE
  /\ seeding' = IF seeding = "reload" THEN "background" ELSE seeding
  /\ UNCHANGED <<loaded, epoch, last, view, resumed, missed>>

\* The focused pane synchronises again (bumpHistorySyncGeneration).
Reconnect ==
  /\ ~online /\ online' = TRUE /\ resumed' = TRUE
  /\ UNCHANGED <<daemon, faults, toDaemon, toClient, view, init, inFlight, opened, missed>>

DaemonNext == AppendRow \/ SeedRow \/ SeedEnds \/ Unload \/ Load \/ Reload \/ Rewind
              \/ Answer \/ Fail
Receive == ReceiveAnswer \/ ReceiveError \/ ReceiveRow \/ ReceiveReloaded
ClientNext == Open \/ OpenJoins \/ LoadOlder \/ InitTimesOut \/ RequestTimesOut \/ Receive
Next == DaemonNext \/ ClientNext \/ Disconnect \/ Reconnect

Spec == Init /\ [][Next]_vars

\* Messages arrive, requests are answered once the agent is loaded, and the
\* pane opens the agent when the connection is there.
FairSpec == Spec /\ WF_vars(Answer) /\ WF_vars(toDaemon # <<>> /\ Load)
                 /\ WF_vars(Receive) /\ WF_vars(resumed /\ (Open \/ OpenJoins))

-----------------------------------------------------------------------------
(* Properties.                                                             *)

\* The rows applied since the list was last begun anew belong to one log, each once
\* and in order, and the cursor that the next request starts from names the first
\* and the last of them.
Ascending ==
  IF cursor = None THEN shown = <<>>
  ELSE /\ shown # <<>>
       /\ Head(shown) = <<cursor.epoch, cursor.start>>
       /\ shown[Len(shown)] = <<cursor.epoch, cursor.end>>
       /\ \A i \in 2..Len(shown) : /\ shown[i][1] = cursor.epoch
                                  /\ shown[i - 1][2] < shown[i][2]

\* A live message that a replacement kept behind its rows may repeat some of them
\* or be of an older log, but it is never ahead of the cursor: nothing is shown
\* that a catch-up would fetch and show again.
NothingAhead ==
  kept # None /\ cursor # None =>
    \/ kept.epoch < cursor.epoch
    \/ kept.epoch = cursor.epoch /\ kept.seq <= cursor.end

ShownInOrder == Ascending /\ NothingAhead

\* A late answer or event never takes the app back: not to an older log, and
\* in one log not to an earlier end.
NeverBack ==
  [][cursor # None /\ cursor' # None =>
       \/ cursor'.epoch > cursor.epoch
       \/ cursor'.epoch = cursor.epoch /\ cursor'.end >= cursor.end]_vars

\* Everything sent has arrived, and the log changed only where it said so.
Settled == online /\ opened /\ ~missed /\ toDaemon = <<>> /\ toClient = <<>>

ShowsTail == IF last = 0 THEN cursor = None
             ELSE cursor # None /\ cursor.epoch = epoch /\ cursor.end = last

\* Then the app shows the daemon's tail, whatever was lost, late, paged or timed out.
CaughtUp == Settled => ShowsTail

\* While the history spinner runs, which takes the flag and the deferred, a request
\* or an answer is under way: it never runs until its timeout because nobody will
\* answer. A deferred that a lost connection left behind has no spinner, and
\* nothing under way (see OpenJoins).
InitIsAnswered ==
  Syncing =>
    \/ \E i \in 1..Len(toDaemon) : toDaemon[i].dir = init
    \/ \E i \in 1..Len(toClient) : toClient[i].type \in {"answer", "error"}
                                     /\ toClient[i].request.dir = init

\* timeline-sync.md:10: "any connected client that opens or resumes that agent
\* eventually displays every row through the daemon's current tail".
EventuallyShowsTail == <>[](online /\ opened) => []<>ShowsTail

\* Liveness: while the agent stays open and the connection is there, the app
\* gets to the daemon's tail again and again, whatever the pages, the late
\* answers and the time-outs were, unless the log was seeded or cleared unseen, or
\* the opening joined a first sync that a lost connection left (see missed).
EventuallyShown == <>[](online /\ opened) => []<>(ShowsTail \/ missed)
=============================================================================
