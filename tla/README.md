# Formal models of ChisaCode

ChisaCode runs coding agents in a local daemon and shows them in apps, a command
line client and a desktop shell. This directory holds TLA+ models of the parts of
the daemon and the app where the order of events decides what is correct, TLC
configurations that check them on small instances, and TLAPS proofs that hold for
instances of any size. Paths below are relative to the repository; `server/` means
`packages/server/src/server/`, `app/` means `packages/app/src/`.

## How to run

    tlc -workers 4 -config AgentRun_safety.cfg MCAgentRun.tla     # any row of the table of runs
    tlapm AgentRunProofs.tla              # and WorkspaceMutationProofs, AgentStorageProofs, ConnectionProofs,
                                          # RelayControlProofs, EncryptedChannelProofs, ScheduleProofs,
                                          # TimelineSyncProofs

The module of a run is the one named in its row; the longest run takes over three minutes
with two workers, the longest proof (`TimelineSyncProofs`) between three and four.

`PROJECT.json` lists components, runs, mutants (a plausible bug of one definition
for every property of a passing run, and TLC finds the property violated), the
source lines behind each definition, findings, hazards and theorems.

## The system

One Node process, the daemon, owns all state. Clients (app, CLI, desktop) talk to
it over a WebSocket, directly or through an encrypted relay. Everything in the
daemon runs on one thread: a step is the code between two awaits, promise
continuations run before the next timer or I/O callback, and the interleavings
are those of asynchronous calls, timers, provider subprocesses, the file system and
clients. Work crosses three kinds of boundary: provider sessions that answer late,
never, or twice; files that survive a crash; and connections that lose messages.

| Component | State | Operations | Interacts through | Hard behaviour | Correct when |
|---|---|---|---|---|---|
| Foreground runs (`server/agent/agent-foreground-execution-controller.ts`, `agent-run-control-controller.ts`, `agent-session-event-pipeline-controller.ts`, `foreground-run-state.ts`) | per agent: lifecycle, active turn, pending-run entry, turn waiters, finalized turn ids, pendingReplacement | stream, replace, cancel, watchdog, handle an event, close | provider session (calls, event callback), clients (`agent_state` broadcasts) | awaits of a provider that may be silent; late and duplicate terminal events; replacement of a replacement; time-outs | one run per agent; every turn ends once and somebody sees it end; cancel works and returns; clients see the true lifecycle |
| Agent storage (`server/agent/agent-storage.ts`) | record files, cache, paths, queued writes, delete fence | snapshot, title, archive, unarchive, remove, load | file system; every component that persists an agent | lost updates between a read and a queued write; crash between rename and unlink; delete against queued writes | a restart loads what readers saw; what was deleted stays deleted; edits survive |
| Timeline log and app synchronisation (`server/agent/agent-timeline-store.ts`, `agent-history-controller.ts`, `session-handlers/agent-directory-handler.ts`; `app/timeline/*`, `app/contexts/session-context.tsx`) | log with epoch and rows; in the app a cursor range, rows shown, pending first sync, requests in flight | append, seed, fetch tail/after/before, reload, rewind; open, catch up, scroll up | WebSocket: events and request/answer | lost events, late answers, a replaced log, paging that races live rows | rows in order and never back; everything that arrived is shown; no endless spinner |
| Workspace mutation coordinator and its callers (`server/workspace-mutation-coordinator.ts`, `chisacode-worktree-archive-service.ts`, `auto-archive-on-merge/archive-if-safe.ts`, `utils/worktree.ts`) | slots with state, chain, holders, waiters; write leases; drain waiters | runExclusive, runWithWriteLease, waitForWritesToDrain; archive, automatic archive, clean-up of a failed set-up | agent manager and terminals (registrations), git, workspace registry | slots dropped and remade under queued calls; registrations racing a removal; failures at any step | one mutation at a time; nothing alive in a directory being removed; no path blocked for ever |
| Registration, loading, reload, rewind, reaper, archive cascade (`server/agent/agent-session-registration-controller.ts`, `agent-loading.ts`, `agent-session-lifecycle-controller.ts`, `agent-session-reaper.ts`, `agent-archive.ts`) | the map of agents, pending hydrations | create, resume, reload, sweep, archive tree | all of the above | the agent is visible before it is stored and subscribed; a sweep over old copies | one live object per agent; nothing closed while it works |
| Permissions and waits (`agent-permission-controller.ts`, `agent-wait-controller.ts`) | pending, in-flight and buffered permission responses | respond, wait for start or event | provider, clients, MCP tools | answer and resolution event cross; wake-up between check and subscription | each request is resolved once; no wait is lost |
| Schedules (`server/schedule/service.ts`, `store.ts`) | a record file per schedule, `runningScheduleIds` | tick, run, finish, pause, resume, edit, run by hand, delete, recover | files read and written whole, runs of agents that take hours | overlapping ticks over copies; edits during a run; crash during a run | a due time fires once; runs never overlap; a long run does not stop the others |
| Client sessions and message lanes (`server/websocket-server.ts`, `websocket-message-lanes.ts`) | sockets, sessions with a grace period, counts of requests, lanes per key | connect, hello, resume, detach, dispatch, end, clean up | clients, every handler of the daemon | several sockets of a client; the grace timer against a new hello; a session that ends with requests queued | a session is resumed or ended, not both; order per key; exact counts |
| Client library (`packages/client/src/daemon-client-connection-controller.ts`, `daemon-client-request-coordinator.ts`) | connection status, transport, four timers, connect promise, queued sends, waiters | connect, close, retry, probe, request, answer | transports, the application | error, close and time-outs end one attempt in any order; requests across reconnects | nobody waits in vain; `close()` is final; the client gets back |
| Relay transport and relay worker (`server/relay-transport.ts`, `packages/relay/src/cloudflare-adapter.ts`) | control socket, data sockets, nudge timers, the worker's list of sockets | connect control, announce, nudge, reset, connect data, close | network, clients | half-open sockets, announcements lost with them, late acceptances, two ends that close at different times | one data socket per client; every client is served; the control socket heals |
| Encrypted channel (`packages/relay/src/encrypted-channel.ts`, `packages/client/src/daemon-client-relay-e2ee-transport.ts`) | handshake, salt and sequence number, buffered frames | hello, ready, send, receive, replace a data socket | relay worker | repeated hello, replaced data sockets under one key, a buffer that drops | what is delivered is a gapless prefix of one conversation |
| Loops, chat (`loop-service.ts`, `chat/chat-service.ts`) | record files, running sets, waiters | iterate; post, wait | agent manager, files | crash during an iteration; failed writes | waits end; records survive |
| Git services (`server/workspace-git-*.ts`, `services/github-*.ts`) | snapshot caches, refresh state, poll targets | refresh, observe, poll | git, gh | joined and queued refreshes | a forced refresh sees what it was forced for |
| Pid lock, worktree bootstrap, terminals, voice, model gateway, push, proxy, explorer, configuration, protocol schemas, UI, CLI, desktop | | | | see `components` in `PROJECT.json` for what each is and why it is left for later or left out | |

Every component is in `PROJECT.json` with its status and the reason; the behaviours
that a test would hardly reach are there under `hazards`, each at its line, with the
properties that cover it or a note; the last section lists further ones.

## Plan

Order: the behaviour most of the system rests on first.

1. `RunSlot`, `AgentRun`, `AgentRunProofs`: foreground runs. Done.
2. `AgentStorage`, `AgentStorageProofs`: the record of an agent. Done.
3. `TimelineSync`, `TimelineSyncProofs`: log, fetches and the app's view. Done; its liveness
   is model-checked.
4. `WorkspaceMutation`, `WorkspaceMutationProofs`: worktree mutations. Done.
5. `Schedule`, `ScheduleProofs`: overlapping ticks, edits, crash and recovery. Done.
6. `KeyedQueue`, `ClientSession`, `ConnectionProofs`: sessions, and lanes that implement
   a FIFO per key, which is what `TimelineSync` assumes of them. Done.
7. `ClientConnection`, `ConnectionProofs`: the client's end. Done.
8. `RelayControl`, `RelayControlProofs`, `EncryptedChannel`, `EncryptedChannelProofs`: the
   relay. Done.
9. Left: `PidLock` (two starters, crash, release; abstract specification: a lock with one
   owner) and `GitRefresh` (joined and queued refreshes).
10. Left: `AgentRegistration` (register, resume, reload, rewind, reaper, archive cascade),
    composed with `AgentRun` and `AgentStorage`; `Permissions`, `AgentWait`, `TurnWatchdog`.
11. Left: `LoopService`, `ChatRooms`, terminals, task graph, dictation.

The runs are kept to what their question needs: each component has one run for its safety
and, where it could not be one instance, another for its liveness.

## Modules

| Module | Models |
|---|---|
| `RunSlot` | Abstract: an agent is one slot. A run is admitted only into a free slot, refused only when it is taken (or the agent is gone), and releases what it holds |
| `AgentRun` | The run protocol of one agent (detailed), with `Slot == INSTANCE RunSlot WITH ...` as refinement mapping |
| `AgentStorage` | The record of one agent, memory and files, with crashes |
| `TimelineSync` | One agent's log in the daemon and one app that shows it |
| `WorkspaceMutation` | The coordination of one worktree root and its callers |
| `Schedule` | The schedule service: ticks, runs, client calls, files, crash and recovery |
| `KeyedQueue` | Abstract: lines that are served one at a time, in order, and may be shut |
| `ClientSession` | The daemon's sockets, sessions and lanes, with `Queue == INSTANCE KeyedQueue WITH ...` |
| `ClientConnection` | One client's connection and its requests |
| `RelayControl` | Control and data sockets between a daemon, the relay worker and a network that fails |
| `EncryptedChannel` | The frames of one client over the data sockets the daemon opens for it |
| `MCAgentRun`, `MCAgentStorage`, `MCClientSession`, `MCSchedule` | Symmetry sets for TLC |
| `...Proofs` | Theorems about the module before the suffix, and their proofs; `ConnectionProofs` is about the two ends `ClientSession` and `ClientConnection` |

### AgentRun

State of the code and its variables: `ManagedAgent.lifecycle`, `activeForegroundTurnId`,
`pendingReplacement`, `lastError`, `finalizedForegroundTurnIds` are `lifecycle`,
`activeTurn`, `pendingReplacement`, `lastError`, `finalized`; the map `pendingRuns` of
`ForegroundRunState` is `pendingRun`; `pc`, `turnOf`, `waiter`, `watchdog` are the locals
of one `forwardTurn` generator per run; `cpc`, `cturn`, `ctarget` those of one `cancel`
call per caller (a user, a replacement, a watchdog); `eventQ` is the session event tail;
`published` is the last `agent_state` broadcast. A turn is named after the run that
began it.

Actions: `StreamCall`, `ReplaceCall`, `ReplaceProceeds`, the answers of `startTurn`
(accepted, rejected, or the provider's live turn), `ProcessEvent` (dispatch, finalize,
waiters), `RunEnds`, `WatchdogFires`, the three stages of a cancel with their time-outs,
`Close`, and the steps of the external provider.

Assumptions, each from the code: a timer or I/O callback runs only when no promise
continuation is left (the `Quiescent` guards); callers iterate the generators at once;
no production bootstrap passes a durable timeline store, so `handle()` has no await that
leaves the microtasks and a dispatch is one step; a provider begins a turn with nothing
of an earlier turn undelivered; a closed agent's object is still mutated by streams that
hold it (the model does the same); `startTurn` has no time-out, so no fairness is
assumed of the provider.

### AgentStorage

One agent, because records share only the maps. `disk` has the file of a record in the
root directory (an older layout) and in the project's directory; `cache`, `pathById`,
`indexed` are the maps; `writes` is the promise chain of `queueRecordWrite`, `first` how far
its first write has come: it waits for its turn, it has read the fence and awaits
`writeFileAtomic` (a delete may begin now, and the write still lands), or it has replaced the
file and cleans up; `deleting` is the fence;
`pc`, `kind`, `base`, `ahead` the calls: what they do, the record they read, how many
queued writes they await. Continuations of several calls, and the start of the next write,
interleave; requests and I/O completions wait for them (`Draining`). `pathById` does not
change between a write's start and its end (only `remove()` would change it, and it awaits
the write), so `CleansUp` reads it at the end. `Crash` may come between any two steps and
keeps only `disk`; `Restart` scans root before project directories as `scanDisk` does.
A write may fail, an unlink may be refused.

### TimelineSync

Daemon: `epoch`, `last` (rows 1..last), `seeding` (nobody, in the background, or under a
reload). Connection: two FIFO queues that are emptied, with the pending requests rejected,
when it is lost. App: `cursor` and `shown` (the range it claims and the rows it has applied
since its list was last begun anew, by a replacement or a new log), `kept` (the last row
that a live message left behind a replacement can be of), `init` (the pending first sync and
the way it is answered), `inFlight` (deduplicated requests), `hasOlder`.

A replacement shows
the rows of its answer; `preserveReplacePathAssistantHead` may keep the live assistant
message, or the whole head, behind them. Whether it does depends on kinds and texts, which
the model does not have; so `kept` is what it may keep at most, and `ShownInOrder` says of
it that it is never ahead of the cursor: a later page or catch-up begins behind it and
cannot show it again. That a kept head repeats rows of the replacement is possible in the
code and not excluded.

A first sync is a flag (`initializingAgents`) and a deferred. A lost
connection clears the flag; it ends the deferred only if the opening's own request is still
pending. After a first page that was not the last the deferred stays (`init = "left"`) up to
its 30 s timer, and the opening after the reconnect joins it and sends nothing
(`OpenJoins`). `Syncing` means flag and deferred. `opened` says that the app has opened the
agent over this connection; the history variable `missed` that the log changed, a request
failed, or the opening joined a sync that was left, and nothing that the app heeds has come
since: an answer that synchronises ends it, one that the app drops as a whole (`Ignored`)
begins it.

Positions are a log and a row of it, as in the code's cursors. The loop over the
rows of a page is a recursive function, up to a gap. One entry of the timeline is one row;
requests about one agent are answered in order (the message lanes); a fetch and its answer
are one step; the event buffer (48 ms) is equivalent to delivery in order. What a row
becomes on the screen is left out.

### WorkspaceMutation

One root. `slot` is the entry of the map `slots`, `obj` the slot objects (an object outlives
its entry), whose counters `holders` and `waiters` are modelled by the sets of the calls
they count and whose promise `chain` by the set of its gates; `after[m]` is the part of the
chain call `m` awaits. `leases` are the write leases per path, `drains` the drain waiters,
`wpc`, `at` the calls of `runWithWriteLease`, `live` the agents and terminals that exist.
The terminals (`Terminals`) are in a worker process: an archive lists its agents at once,
and asks for the terminals directory by directory (`asking`, `ListTerminals`) while its
agents are closed already; a request that fails or times out counts as none
(`killTerminalsUnderPath`). The request for a new terminal may time out, which releases its
lease, and the worker's `terminalCreated` registers it later all the same (`LateTerminal`).
The history variable `unseen` has the terminals of both kinds. Calls are archives, automatic
archives and clean-ups of a failed set-up; teardown, git, the finalization and the outcome
event may fail. `CreateTree` makes a worktree again at the path of a removed one; `Discard`
is a person's `rm`.

### Schedule

`disk` are the record files, `garbled` those that hold a part of a record (a write is a
truncation and a later rewrite; two that overlap, or one that a crash or an error cuts
off, leave garbage), `running` is `runningScheduleIds`. A call is a tick of the timer or a
client's request: `pc` says where it stands, `todo` the set of schedules a tick still has to
visit, of which the one created first is next (`At`), `copy` the records it read before its
first await, `fd` the file it has open.
Actions: a tick lists, skips, completes or runs a schedule; a run opens its record, is
recorded, ends, is finished by a read and a write; pause, resume, update, runOnce,
delete; failed writes; crash, start with recovery; the clock. The cadence is a fixed
interval: `NextAfter` is the loop of `computeNextRunAt` in closed form.

Abstractions: `runOnce` reads the record and, after that await, tests `runningScheduleIds`;
the model does both in one step, and a write that falls between the two makes the copy an
older one, as a write before the run's own first write does. Edits of `maxRuns` and
`expiresAt` are left out: both keep the value the schedule was created with.

What the code loses when two calls write whole records over one another is in the model:
the history variable `damaged` marks a schedule whose record was written from an older
copy, whose write failed or that shares a file handle, and the properties about the
contents of records hold outside it. They say that nothing else goes wrong.

### ClientSession and KeyedQueue

`socket`, `owner`, `sessions`, `byClient`, `state`, `client`, `sockets`, `grace` are the
server's maps and the session objects; `inflight`, `lanes`, `message`, `place` the requests.
A hello resumes the session of its client or makes one; the last socket that goes arms
the 90 s timer, which ends the session; a request is refused at the session's limit or at
its lane's depth, waits in its lane, or is handled. `None` as the key of a request is one
that preempts the lanes. `KeyedQueue` is what lanes promise; the refinement mapping puts
the request that is handled in front of the queue. `TimelineSync` relies on it: the
requests about one agent are answered in order. In the code the key of a request about files is
its own id, so that such requests do not wait for one another, and cancels and answers to
permissions preempt the lanes; the keys of the model are any.

### ClientConnection

One client. `conn` is the status, `link` the current transport and what has happened to
it (the listeners of an older one are removed), `timers` the four timers, `promise` the
shared promise of `connect()`, `enabled` the option that `setReconnectEnabled` changes,
`queue`, `waiters`, `request`, `onWire` the requests. Errors with and without a reason,
the debounce of a generic error, close events, the connect time-out, liveness probes and
`close()` come in any order. `torn` remembers the requests that were under way when an
armed retry fired over a live connection (run `client_stale`); `NobodyStranded` is what
holds besides. Delays and the order of queued sends are left out.

### RelayControl

A socket has two ends, `d` at the daemon and `w` at the worker, which differ while the
network is between them. `box` are the worker's messages on a control socket (`sync`,
`connected`, `disconnected`, a close), `nudge` the two timers of
`nudgeOrResetControlForConnection`, `cur`, `timer`, `held` are `controlWs`,
`reconnectTimeout`, `dataSockets`. A link may fall silent (half open), be slow, break or
be accepted after the daemon gave it up. Reductions: an open socket and its ready message
are one step, the close event of a terminated control socket is merged with `terminate`,
and the nudge of a client that is gone, which does nothing, is left out. The history variable
`skipped` has the clients whose last announcement found all places taken: the daemon keeps
no note of them, a later `sync` that still finds them may serve them, and `Served` excepts them.

### EncryptedChannel

One client, its socket at the worker and the data sockets the daemon dials one after
another. A frame of the client is hello (0) or its k-th message; a frame of a data
socket is ready (0) or its k-th message, with the socket as its salt, which is all that
tells two data sockets apart, since the shared key is the same. `buf` is the worker's
`pendingFrames`, whose oldest frame is dropped when it is full. Cryptography is the
assumption that a frame decrypts only under the keys it was made with. `pendingSends` is
empty in the product (clients send after the channel's open event), and left out. So is
the `catch` of `flushFrames` (`cloudflare-adapter.ts:428`), which keeps the frame whose
`send` threw and drops the rest: the socket was accepted in the same turn. Frames
delivered between a fatal error and the close event are ignored, as the code does.

## Runs

| Run | Instance | Shows |
|---|---|---|
| `safety` (`AgentRun_safety`, `MCAgentRun`) | 3 runs, 1 provider event besides turn ends, queue of 2, 2 remembered turns; 1.7 M states | Clients see the true lifecycle and "running" always has an owner; replacements never flash idle; cancels are effective; ended turns stay ended; the whole implements `RunSlot`. Three runs are the least in which a replacement replaces a replacement |
| `liveness` (`AgentRun_liveness`, `MCAgentRun`) | 2 runs, 1 user cancel, a provider that answers a prompt with its live turn, fair event loop | Every active turn is listened to, cancels return, replacements are decided, a stalled turn with an armed watchdog ends |
| `storage_safety` (`AgentStorage_safety`, `MCAgentStorage`) | 3 calls of any of 8 kinds, 1 crash; 1.6 M states | Files, cache and index agree at every await and crash, deletes are final, nobody waits for a write that is gone. Three calls: a write under way, one queued behind it, one between its read and its write |
| `timeline_safety` (`TimelineSync_safety`) | pages of 1, tail of 2, 3 rows, 3 logs, 1 fault, a row or request is added when nothing is under way (what answers, pages and rewinds add comes on top); 2.9 M states, fair | Rows in order, never back, no first sync that shows as running waits for nobody, and the app gets to the daemon's tail. The tail is larger than a page and smaller than a log, so that paging, gaps and replacement all happen; with three logs an answer can be of neither the log shown nor the one before; a fault loses the connection, or makes an answer fail or come late |
| `mutation_safety` (`WorkspaceMutation_safety`) | 3 mutations, 2 writers of which one asks for a terminal, 2 paths; 6.3 M states | One mutation at a time, under a removal nothing alive but a terminal that was not listed or came late, wake-ups are not missed, turns come, no block is left behind. Three mutations: one leaves, one waits on the old slot object, one arrives; two writers, so that a release is not the last |
| `schedule_safety` (`Schedule_safety`, `MCSchedule`) | 1 schedule, 2 ticks, 1 client with a call, 2 runs at most, clock 0..2, 1 crash or failed write | Runs never overlap, a due time fires once, maxRuns holds, no run stays marked running, a pause is kept, nothing is caught up after a crash. Two ticks are enough for a stale copy, and a third could only repeat it |
| `schedule_liveness` (`Schedule_liveness`) | 2 schedules, one of whose runs may never end, 2 ticks, 1 client, fair timer | The other schedule is run all the same |
| `sessions` (`ClientSession_safety`, `MCClientSession`) | 2 clients, 3 sockets, 2 sessions, 4 requests, limit 3, depth 2; 54 745 states up to symmetry | One session per client, the grace timer is armed exactly while it must be, counts are exact, lanes implement `KeyedQueue`. Three sockets: two of one client and a reconnect; four requests pass both limits |
| `client` (`ClientConnection_safety`) | 3 requests, one without time-out, 4 faults, probe threshold 2, 2 changes of `setReconnectEnabled`; 159 463 states, fair | `close()` is final, nobody is stranded, what failed is not sent later, the client heals. Four faults: an error, its close, a failed retry and a missed probe |
| `client_stale` (`ClientConnection_stale`) | 1 request, 1 fault | **Violated**: a retry that was armed before `connect()` made the connection fires over it, and the requests in flight are not told |
| `relay` (`RelayControl_live`) | 2 clients, 2 control sockets, 2 data sockets of a client at a time, capacity 1, 1 fault; 317 989 states, fair | One data socket per client, clients that stay and find a place are served and those that left release theirs, the control socket heals. With one place the limit binds as soon as both clients are there; with two (456 864 states) nobody is skipped and the properties hold as well |
| `channel` (`EncryptedChannel_stream`) | 2 data sockets, 2 messages each way, buffer 2, 1 break; 595 028 states, fair | A data socket delivers the client's messages from the first on, a client those of one data socket, and no client is left with a channel nobody answers. What a lost data socket leaves in the buffer reaches the next one from the middle of the conversation, and a buffer of 2 also drops from it; two messages tell a gap from an end |

Deadlock checking is off: every model has a finite number of calls and then stops.
The larger counters are bounds of the model only: 50 remembered turns become
`FinalizedCap = 2`, 64 requests `Inflight = 3` and `Depth = 2`, 256 connection ids
`Capacity = 1`, 200 buffered frames `Buffer = 2`, the page size and tail length 1 and 2 (the
code only compares them); calls, rows, logs, crashes and faults are capped by constants.
The theorems hold for every value.

Fairness. `AgentRun`: the event tail is processed, generators and cancels whose
condition holds go on, and the time-outs of interrupts, propagation and watchdog fire;
nothing is assumed of the provider or of callers. `TimelineSync`: what is sent is
delivered, the daemon answers and loads an agent a request asks for, a resumed app opens
its agent. `Schedule`: the timer fires and file operations end; nothing is assumed of the
runner, since an agent may work for hours. `ClientConnection`: its timers fire, and a link
with which nothing goes wrong opens and is answered. `RelayControl`: some socket or timer
with something pending goes on, and a silent link is found out by the keepalive.
`EncryptedChannel`: timers fire, sockets are read, a close is noticed; messages, faults and
a client that leaves need not come. `AgentStorage`, `WorkspaceMutation` and `ClientSession`
are checked for safety only; that waiting calls can go on is stated there as safety
(`WaitersHaveWrites`, `DrainNoticed`, `TurnComes`, `ImplementsKeyedQueue`).

### Met while modelling

The violated run is a disagreement between the code and a quoted line of the repository
(`findings` in `PROJECT.json`). The models reach further behaviour of the code that a
reader should know of; none has a run of its own, and where a property above would be
broken by it, the property says so by what it excepts.

- Runs: the catch of a refused second replacement publishes idle while the first one is
  starting (`agent-run-control-controller.ts:103`); a turn id that a provider gives to
  two prompts is finalized once and may stay active (`agent-session-event-pipeline-controller.ts:149`);
  a stream that survives `close` broadcasts "running" for a closed agent
  (`docs/architecture.md:216` calls closed terminal); any event re-arms the watchdog while a
  permission is pending (comment at `agent-foreground-execution-controller.ts:324`), and the
  shorter time-out of a stalled tool call is never used (`:318`).
- Storage: a snapshot that read the record before an archive queued its write overwrites
  `archivedAt` (`agent-storage.ts:289`, against the comment at `:297`), and a title set while
  a snapshot waits likewise; a file whose unlink is refused leaves the index
  (`agent-storage.test.ts:530`).
- Timeline: rows seeded after the first sync was answered never reach the app
  (`agent-history-controller.ts:160`, `docs/timeline-sync.md:10`: the history variable `missed`);
  an answer of a log that is not the one shown, asked for without a cursor, is dropped row by
  row and nothing is asked for in its place (`session-stream-reducers.ts:608`): a row of the
  old log arrives before the answer, the first sync has timed out or another tail has
  resolved it, and the app stays behind until the agent is opened again. So the line of
  `docs/timeline-sync.md:10`, stated as `EventuallyShowsTail`, does not hold, and `missed`
  excepts what is `Ignored`; when the connection is lost after the first page of a paged first
  sync, only the next page is rejected and that is logged (`session-context.tsx:753-757`), the
  flag is cleared (`:934-940`) and the deferred stays: the opening after the reconnect is given
  its promise and sends nothing (`use-agent-initialization.ts:27-30`), so that the app stays behind
  until the 30 s timer and another opening, or the next event that shows a gap (`missed` excepts it);
  an older page from before a replacement leaves a hole that nothing fills
  (`session-stream-reducers.ts:636`); rows older than the view may become unreachable after
  a dropped answer.
- Mutations: a worktree that was deleted but whose record could not be archived passes for
  active (`archive-if-safe.ts:213`,
  `docs/security/production-hardening-current-state-2026-08-10.md:86`); an archive whose
  request for the list of terminals fails goes on as if there were none
  (`chisacode-worktree-archive-service.ts:251-262`), and a terminal whose creation timed out
  registers without a lease when the worker answers (`worker-terminal-manager.ts:428`): both may be
  alive in a directory that is deleted, and `NothingUnderRemoval` excepts them (`unseen`).
- Schedules: a pause is undone by the record write of a run that started from an older copy
  (`service.ts:436`, compare `service.test.ts:482`); a change of cadence during a run
  makes `finishRun` skip the next occurrence; the first write of a run is outside the `try`, so
  that its failure leaves the schedule in `runningScheduleIds`; overlapping plain writes may
  garble a file, after which every tick stops and `start()` rejects; recovery marks only the first
  running entry; a deletion can be undone by a write under way.
- Sessions: the shut-down of the whole server closes no lanes and lets sockets arm new grace
  timers; it is not modelled. A device that does not match and a refused protocol are
  `Reject`.
- Client: an attempt of `connect()` that fails at once leaves a rejected promise which later
  callers get (`daemon-client-connection-controller.ts:172`); a request whose waiter timed out
  while it was queued is still sent; what listeners send on "connected" overtakes the queue; an
  error followed by its close doubles the back-off.
- Relay: the notification that a client left is lost with its control socket, and its data
  socket then keeps one of the 256 places (`OrphanEnds` excepts later control sockets); a client
  that was skipped because the places were taken, or whose data socket fails after both nudges,
  is not tried again; a control socket accepted after the daemon gave it up replaces the live
  one.
- Channel: `pendingSends` is never filled; the close code 1011 is refused by browsers, and the
  exception ignored; the shared key is the same for all data sockets of a client, so that the salt
  alone separates them.

## Proofs

TLAPS proves for every value of the constants what TLC checks on the instances above.
The only assumptions are the named ones of the modules (`RunAssumption`, `StorageAssumption`,
`PathsAssumption`, `NoneAssumption`, `SessionAssumption`, `ClientAssumption`,
`RelayAssumption`, `ChannelAssumption`, `TimelineAssumption`, `TerminalsAssumption`,
`ScheduleAssumption`), which TLC evaluates in each run.

`AgentRunProofs`
- `TypeCorrect`: `TypeOK`, one step per action.
- `OneRunPerAgent`, `ListenerForTurn`: the inductive invariant is `SlotInv`, the
  conjunction of the two, since neither is inductive alone: a run is admitted because no
  turn is active and no run pending, which says nothing unless an active turn implies a
  listening stream; and a stream ends with its listener only because it is the one
  that holds the entry.
- `SlotRefinement`: `Spec => ImplementsRunSlot`. Every action maps, under `SlotInv`, to an
  admission, a refusal, a release, the shut-down or a stutter. `BusyIsTaken` is the
  point: the code refuses on the turn or the entry, the abstract slot only on the entry.
- `ReplacementsHold`: `ReplacementHolds` is inductive with `TypeOK`; no event makes a held agent
  idle, and only the replacement's own steps take it from "replacing".
- `LifecycleIsTrue`: `LifecycleTrue`, from `LifeInv`. `Owned` counts, in place of the owner of
  the entry, the runs that still drive a turn, since an owner whose stream has settled says
  nothing of "running"; `StartsQueued` says of a `turn_started` that waits in the queue that
  its autonomous turn will also end, or that no foreground event stands before it, so
  that its run is still driven when it is handled; `HiddenError` adds that a hidden error has no active
  turn. A forced cancel dispatches only when the queue is empty: its turn has a listener
  (`SlotInv`), so that the wait can only have ended by its timer.
- `TurnsEndOnce`, `CancelIsEffective`: under `ReusesActiveTurn = FALSE`. The inductive
  invariant `TurnInv` adds that a turn is only ever active, finalized or captured by a
  cancel after its run began it, so that an answer of `startTurn` brings a turn nobody
  remembers. For a provider that reuses turn ids it is false (above).

`WorkspaceMutationProofs`
- `TypeCorrect`, together with `CallsTracked` (a call under way has captured a slot object;
  the drain waiters are the calls that drain).
- `MutualExclusion`: `OneMutation`. The inductive invariant is `ChainInv`: all calls under
  way share the slot in the map and are in its chain, of two of them one awaits the
  other's gate, and a call that has its turn awaited nobody who is still under way.
  `OneMutation` alone says nothing of queued calls, and mutual exclusion rests on how they
  queued while the slot was dropped and remade.
- `RemovalIsSafe`, `DrainIsNoticed`: `NothingUnderRemoval` and `DrainNoticed`, from
  `RemovalInv`: a mutation that waits for leases, or has seen them end, keeps its slot
  closed; a registration holds its lease to its end; so what the mutation lists after the
  drain is all there is, but for the terminals in `unseen`. It needs `ChainInv`, because only
  the one mutation that has the slot can reopen it. `Accounted` carries it over the teardown:
  what still lives there was listed and is to be stopped, is a terminal of a directory the
  worker process has still to answer for, or is `unseen`.
- `NothingStaysBlocked`: `NoStaleBlock`, from `BlockInv`: only calls under way are counted in
  the slot, so that the last one drops it, and a call that leaves has left "quiescing" and
  "deleting" behind.
- `TurnsCome`: `TurnComes`. Its invariant `OrderInv` asserts a sequence that lists the calls under
  way, each of which awaits only earlier ones. The first of them can go on, a new call is
  appended, and only the first can end, because all others await it (`ChainInv`); so no induction over
  the calls is needed.

`AgentStorageProofs`
- `TypeCorrect`, `FilesAgree`, `DeleteIsFinal`, `WaitersAreServed`: one inductive invariant,
  because they rest on each other. `CallsShape` and `ChainShape` say where the calls stand and
  that the chain has one write of each queued call; `DownShape` that a daemon that is down
  holds nothing. A write that has passed the fence is one that `remove()` still awaits
  (`CallsShape`), so none is under way when it unlinks. `AfterDelete` carries
  `DeletedStaysDeleted` over what follows a delete: its fence stands, or the daemon was
  restarted and neither an agent nor a write nor a call is left that could make the record again.

`ConnectionProofs`, the daemon's end (`ClientSession`)
- `OneSession`, `GraceIsExact` from `ConnInv`: the server's two maps, the sockets of a session
  and its timer change together or not at all.
- `CountIsExact`, `WaitersQueued` from `LaneInv`: a queue holds requests that wait in it, each
  once, behind one that runs; counting needs the cardinality facts of a set that gains or
  loses one request, or all that wait when a session ends.
- `LanesImplementQueue`: `Spec => ImplementsKeyedQueue`. The order in which the mapping puts the
  request that is handled is immaterial because, by `LaneInv`, there is at most one.

`ConnectionProofs`, the client's end (`ClientConnection`, whose specification is `ClientSpec`)
- `CloseIsFinal`, `WaitEnds` (`NeverStuck`: whoever waits has a timer), `NoRequestStranded`, and
  the action property `FailedStaysUnsent`. `Supports` is what they need besides: a transport
  being opened has its time-out, retries are off only if somebody switched them off, and what
  is on the wire is neither unsent nor queued.

`RelayControlProofs`
- `ControlIsKept` (`ControlKept`: a control socket or a reconnect, never both and never neither)
  and `DataSocketIsOne`, with `TypeOK` as the inductive invariant: the map `held` names every
  socket the daemon still has, because a socket leaves it only at its own close event.

`EncryptedChannelProofs`
- `DaemonHasNoGap`. Towards the daemon the frames under way form a chain: in `UpShape`,
  `BufShape` and `SockShape` each frame is followed by a repeated hello or by the next message,
  from what a data socket has delivered through what it has to read, or the buffer, up to
  what the client sends next. A buffer that drops its oldest frame keeps a chain that starts
  later, and a data socket whose first frame is no hello fails.
- `ClientHasOneStream`. Towards the client, `Ordered` says that the messages of one data socket
  keep their order, `Whole` that none is missing between the last one delivered and one under
  way, for the data sockets that are not ruled out by the salt, and `ReadyFirst` that a client in
  its handshake meets a ready before any message. Messages of an older data socket are still
  under way when the client locks its salt; they are refused by it, so `Whole` need not hold
  for them.

`ScheduleProofs`
- `TypeCorrect`, with `CallOK`: where a call stands decides what it holds. A tick has a copy of
  every schedule it has still to visit, a file is open only in the phases that write, and what a
  tick is about to run was active and due when it read it. The lemmas before it say what each
  operation makes of a record (`WithRunRecord`, `FinishedRecord`, `RecoveredRecord`, ...).
- `RunsExclusive`: the set `runningScheduleIds` is tested and taken in one step.
- `TimersExact`, `NoZombieRuns`, `PausesKept`: one inductive invariant, `Exact`. It speaks of the
  schedules that are not `damaged`, and asserts `Kept` of each: the file and every fresh copy
  (one that is the file as it is, or what is to replace it) are `Sound`, which relates them
  to what has fired, is counted and is paused; at most one run is open in the file and its call
  is under way (`OpenOnce`); nobody completes a schedule during a run of its timer
  (`NotCompleted`); and `StageSound` says what a copy has, relative to the file, at each await. None
  is inductive without the others: that a time fires once needs that a copy whose time was
  fired is no longer fresh, or belongs to the run that fired it. `BootInv` carries
  "never for a time before the daemon's start" over the recovery of `start()`.

`TimelineSyncProofs`
- `TypeCorrect`, `RowsInOrder`, `FirstSyncAnswered`, `RequestsAreReal`, `CatchesUp` and the action
  property `NeverGoesBack`, from one invariant `IInv` over the messages in both queues:
  - `Shape`: an answer's rows are consecutive, it is a reset exactly if its request came of an
    older log, and a page that is not the last has rows.
  - `Past`: no message, request or view tells of rows the log does not have.
  - `Ordered`: messages tell of ever later rows, later than those shown. `NeverBack` follows, and
    so does that a replacement never shows less. Answers of older pages are exempt, since they
    never move the end of the view.
  - `Known`: a request asks for what follows rows that are shown, or its log is gone; else a page
    would leave a hole that `ShownInOrder` cannot see.
  - `KeptBehind`: a message kept behind a replacement is not ahead of the view; while the view is
    empty it is of an older log than the daemon's and than every message that could begin the
    view anew.
  - `InFlightReal`: a request that is not repeated because it is under way is. With it a
    gap always leads to a request, so that `CaughtUp` cannot fail by a lost catch-up.
  - `Excused` and `Leads` are the strengthening of `CaughtUp` to states in which messages are under
    way. Unless something was missed, every failure has an answer that synchronises behind
    it; and if no request that synchronises waits in the daemon, the rows from the last such
    answer on (from the view, if there is none) follow one another up to the daemon's tail, or that
    answer has a next page, which will be asked for.
- A page is applied row by row, in a recursive function. `LoopExists` shows that the function is
  there, and `NewerIs` what it computes; both take the least row at which it would be otherwise
  (`LeastNat`) and contradict it by the step from the row before (`AfterStep`).

Only model-checked: the liveness properties (TLAPS has no rule for fairness and `ENABLED`
here: `TurnHasListener` is proved, but `StallBounded`, `CallsReturn`, `EventuallyShown`,
`DueFires`, `Heals`, `SocketsFollowClients`, `ControlHeals`, `NotLeftBehind` are not). Every
other property of a passing run is stated by a theorem. Induction by the library's theorems,
which take an operator as a parameter, is out of the prover's reach; where a proof needs it,
it is the argument of a least counterexample. No module declares a `RECURSIVE` operator.

## Not modelled

Several agents at once (the models are per agent, per app, per worktree root, per relay
connection); the translation of each provider's events; the text of rows, titles and
messages; nested worktree roots and path canonicalization; the restart of the daemon in
`WorkspaceMutation` (its blocking states are in memory only); cron expressions; the shut-down of
the websocket server; version 1 of the relay protocol, the authorization of devices, half-open
data sockets and the hibernation of the worker; the suspension of probes in the background;
the components the plan leaves for later; and pure I/O, user interface and declarations, as
`PROJECT.json` says for each.

The map covers a small part of the repository's lines. Most of them are user interface,
translations, adapters of provider SDKs, HTTP handlers, schemas and formatting, which have no
protocol to check; what a model of them could say would restate them.

## Hazards left for later

The modelled parts' hazards, and the most important of the others, are in `PROJECT.json`.
These belong to components the plan has not reached, or to code next to a modelled one:

- `packages/server/src/server/agent/agent-permission-controller.ts:38`: A permission's resolution event arrives while respond() awaits the provider: it is buffered and must be published once, after the request was removed.
- `packages/server/src/server/agent/agent-session-registration-controller.ts:105`: register makes the agent visible before its first snapshot is stored and before its session is subscribed; the check for a duplicate id is two awaits earlier.
- `packages/server/src/server/agent/agent-history-controller.ts:98`: rewind takes a pending-run entry after an await; a prompt admitted meanwhile has its entry overwritten.
- `packages/server/src/server/agent/agent-session-reaper.ts:79`: The sweep closes agents one after the other, judging each by a copy made before the first await: an agent that became busy meanwhile is closed.
- `packages/server/src/server/agent/agent-foreground-execution-controller.ts:326`: The watchdog is cleared when a permission is asked for and armed again by the next event of any kind; `:318`: it is armed with the outer time-out.
- `packages/server/src/server/agent/agent-session-lifecycle-controller.ts:178`: A reload joins the hydration that is still running for the agent it replaces.
- `packages/server/src/server/agent/agent-storage.ts:257`: The awaited write of an agent being deleted may reject: remove() throws, but the fence stays and the handler still announces the deletion.
- `packages/app/src/hooks/use-load-older-agent-history.ts:32`: Whether older rows exist is remembered from the last answer, also one that was dropped or failed: older rows become unreachable.
- `packages/server/src/server/workspace-mutation-coordinator.ts:65`: The states that block a path live in memory: a restart forgets a pending finalization and a preserved set-up.
- `packages/server/src/server/workspace-mutation-coordinator.ts:217`: A second archive queued behind a first resets the state archived to active, and deletes the worktree if it was made again meanwhile.
- `packages/server/src/server/chisacode-worktree-archive-service.ts:219`: The key of the lock is the path asked for when git cannot resolve the root: two calls on the same worktree may use different slots.
- `packages/server/src/server/chisacode-worktree-archive-service.ts:110`: Archiving a parent agent cascades to children whose own archive is under way in the same teardown.
- `packages/server/src/server/pid-lock.ts:234`: A crash between the exclusive creation of the lock file and the write of its contents leaves an empty file: every later start fails with EEXIST.
- `packages/server/src/server/pid-lock.ts:300`: releasePidLock reads the owner and then unlinks: the file may be another daemon's by then.
- `packages/server/src/server/workspace-git-refresh-coordinator.ts:168`: The loop decides that nothing is queued a microtask before the state becomes idle; an upgrade queued in between, or behind a refresh that throws, is dropped.
- `packages/relay/src/encrypted-channel.ts:488`: The 201st message queued during the handshake silently drops the oldest (not reached by the product).
- `packages/server/src/server/chat/chat-service.ts:237`: A message whose write fails stays in the room although its sender is told that it failed, and nobody who waits is notified.
