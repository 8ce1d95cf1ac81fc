# DotaMind in TLA+

A verification project for the state-keeping core of DotaMind
(`src/apps/api/app`, the Python API behind the Dota 2 chat agent, and the thread of its
browser client). Paths below are relative to `src/apps/api/app` unless they start with `src/`.

## 1. Inventory

| Part | State it keeps | Operations | Talks to |
|---|---|---|---|
| API process (`main.py`, `vnext/composition.py`) | what it holds open, its background loops | start step by step, compose services and tools, stop and close in order | everything below |
| Tables (`persistence/models.py`, `application/postgres_chat_run_repository.py`, `application/postgres_chat_repository.py`) | `chat_sessions` (next turn index, fencing token), `chat_turns`, `chat_runs` (status, worker, token, heartbeat, checkpoint, result) | one transaction per method: create, mark running, pause, resume, heartbeat, request cancel, mark cancelled / failed / interrupted, sweep, complete with turn; create and delete a session, allocate a token, append a product turn | called by everything below |
| Run API (`api/v1/chat_run_routes.py`, `application/chat_run_runtime.py`) | none | create, cancel, resume a run; follow its events | tables, task manager, event bus |
| Task manager (`application/background_run_manager.py`) | tasks by run, a semaphore, accepting flag, cancel listener | submit, cancel, shutdown | executor; pub/sub notices |
| Executor (`application/chat_run_executor.py`) | one coroutine per run: token, loaded history, `committed` and `paused_persisted` flags | lock, claim, mark running, load, run graph, commit or pause, announce, clean up | session lease, tables, event pump, dialogue cache |
| Recovery (`application/run_recovery.py`) | a heartbeat task per execution, a sweeper task per process | refresh and notice cancels; interrupt stale rows | tables |
| Session stores (`application/redis_session_store.py`, `application/session_store.py`) | per session: lock with a lease, request records, cached turns, recent dialogue | transaction (acquire, renew, release), begin / complete / fail a request, append, clear, evict | Redis, or the process's memory |
| Run events (`application/run_event_pump.py`, `application/redis_run_event_bus.py`) | a bounded queue per execution; a Redis stream and sequence counter per run | publish, flush, close; append, read and wait after a cursor; publish cancel notices | executor; NDJSON stream of the API |
| Recent dialogue window (`application/conversation_memory.py`) | the cached window of newest turns | load (cache or rebuild), record a committed turn | session store, tables |
| Agent graph of a run (`agentic/`) | plan, attempts, results by fingerprint, budgets, deadline | plan, run tools, replan once, compose, review | tools, models |
| Product chat (`vnext/product/`) | per session: lock, history with effective messages, compaction records, request queries, run snapshot | prepare a turn, stream it, save the answer, discard a session | tables, agent runtime |
| Agent runtime (`vnext/agent/`) | task state, transcript, budgets, answer stage, compaction | the tool loop of one request | model, tools, artifacts, session history |
| Model client (`vnext/llm/openai_compatible.py`) | accumulators of one answer | complete, stream, retry | the provider |
| Artifacts (`vnext/artifacts/`, `vnext/tools/registry.py`) | stored tool results by reference | run a batch, store, read, page, grep, retire | tools |
| Match resolution (`vnext/providers/match_resolution`, `vnext/providers/source_reads.py`) | reads of a run, budgets, evidence | read match, leagues, lists, details; decide | PandaScore, OpenDota |
| Catalog data (`vnext/data_updates/`, `integrations/valve/`) | versioned snapshot files, image manifests, team directory | refresh modules, build, publish, load | file system, Valve, provider APIs |
| Homepage (`vnext/homepage/recent_series.py`) | cached recent series, one refresh in flight | get, refresh | Redis, provider API |
| Hero guides (`vnext/hero_guides/`) | cache files | refresh, read, migrate | provider API |
| Browser thread (`src/apps/chat/src`) | thread snapshot, wire state, unread counts | send, load history, follow a stream, switch, reload | HTTP API |
| Other providers, parsers, prompts, presentation | none | request, parse, normalise | external services |

What is hard here: every execution is a coroutine that may be cancelled at each await
(by the user, by its heartbeat, by shutdown, twice); each await on PostgreSQL or Redis
may fail before or after its effect; the Redis lease may expire under its holder; a
sweeper in any process may end a run that is still executing; processes crash; worker threads
outlive the command that was cancelled; files are replaced one after the other; and two
products (durable runs and the product chat) write the same dialogue.

What makes the parts correct:

* tables: one active run per session, one run per request, contiguous turns, a run is
  completed exactly when its turn is stored, ended rows are final, a recorded cancel wins;
* executions: an answer extends exactly the dialogue it was computed from, turns follow
  the order of the fencing tokens, a `completed` event implies a stored turn, tasks are
  cancelled only for runs whose cancel is recorded;
* session stores: a completed request is not executed again while it is remembered, a turn comes with the
  completion of the newest claim;
* answers: evidence is not lost over batches, compactions and attempts; a saved answer is the delivered
  one; a replan repeats and overspends nothing; a game is only resolved if it is the only one;
* files: whatever fails or is killed, a reader finds a whole, fitting file that never goes back;
* process: background work finds open what it works on, wherever a start or a close fails;
* liveness: runs, streams, requests and refreshes end, every shutdown ends.

## 2. Modules

| Module | Models |
|---|---|
| `RunLedger` | abstract: what a client sees of runs and dialogue, with no workers, tokens or clocks |
| `RunRepository` | the three tables; one action per repository method; `RepoSpec` calls them in any order with any worker and any token already allocated; implements `RunLedger` |
| `ChatRuns` | extends `RunRepository`: run API, task manager, executor, heartbeat, sweeper, session lease, cancel notices, crash and shutdown of processes; implements `RepoSpec` |
| `RunEvents` | extends `RunRepository`: what an execution publishes, the pump, the run's Redis stream and the clients that follow it |
| `RecentWindow` | the recent dialogue of one session in Redis beside its turns in PostgreSQL |
| `RequestContract` | abstract: what any session store promises of requests and turns |
| `RedisSessions`, `MemorySessions` | the two session stores; each implements `RequestContract` |
| `LegacyGraph` | one run of the agent graph behind a durable run |
| `GameResolution` | the match resolution of one agent run |
| `Lifespan` | one API process from start to end |
| `AgentProtocol` | abstract: the order of the events of an agent stream, as its consumers read them |
| `SessionHistory` | the effective history of a session and the rule it is cut by (operators) |
| `AgentRuntime` | extends `SessionHistory`: the execution loop, compaction, answer stage; implements `AgentProtocol` |
| `TaskState` | the plan, observations and checkpoints of one stream |
| `ProductChat` | extends `SessionHistory`'s data with the product chat of one session; drives `AgentProtocol` as its runtime |
| `ThreadView` | the conversation in the browser |
| `ModelStream` | one answer of the provider, read at once or as a stream |
| `ArtifactReads` | tool calls, stored results, their pages and receipts |
| `RecentSeries`, `SeriesLoad` | the homepage's cache and refresh; the tasks of one refresh |
| `DataUpdates` | the data commands as processes, the catalog's publication, the loader |
| `CatalogBuild` | how one refresh builds the catalog and patch notes from Valve's feed |
| `DisplayFiles`, `GuideFiles` | the files of pictures and teams; the files of hero guides |
| `RunRepositoryProofs`, `ChatRunsProofs`, `RunEventsProofs`, `AgentProofs`, `ServedProofs`, `ProductProofs`, `StoresProofs`, `SessionsProofs` | theorems and proofs (section 5) |
| `MCStores`, `MCSessions`, `MCChatRuns`, `MCRunEvents`, `MCServed`, `MCAgent`, `MCProduct`, `MCEnds` | instances for TLC |

Components that do not interact share a run: the variable `part` of `MCStores`, `MCSessions`,
`MCServed`, `MCAgent`, `MCProduct` and `MCEnds` is chosen at the start, and the other components
rest in their initial state. A run with parts checks each of them separately.

### RunRepository

A transaction under `SELECT ... FOR UPDATE` is one action; a method that raises changes
nothing and is the negation of the guard (`...Accepts` where a caller needs it).
Timestamps are compared with the stale cutoff only, so a heartbeat is `null`, `fresh` or
`stale` and `PassCutoff` is the clock. Columns no decision reads (texts, titles, payload
hashes, error codes, `last_event_sequence`) are left out. A client that repeats a request with another payload gets
an error and changes nothing. `DeleteSession` cascades; a deleted run keeps its keys so
that the state remembers where it lived.
`OwnerNext` restricts the worker's methods to tokens the session has allocated: that is
all a caller can know. `commit_turn` and the explicit form of `claim_fencing` have no
caller and are not modelled.

### ChatRuns

A task is a program counter between the awaits of `ChatRunExecutor.execute`:

```
waiting -> locking -> claiming -> marking -> loading -> graph -+-> committing -> announcing -+-> closing
 (semaphore) (lease)    (token)                                +-> pausing -> paused --------+
                                                               +-> failing ------------------+
                            CancelledError inside the try -> cancelling [-> interrupting] ---+
```

`Refused` is a repository call that raises, `CallFails` an await that raises although its
transaction may have committed, `CancelAtAwait` and `CancelOutside` are `task.cancel()`
striking inside and outside the executor's try block. The heartbeat is the flag `heart`, a
cancel not yet raised the flag `kill`. `lease` is the Redis lock; `<<Nil, r>>` is a lock
taken by a script whose caller was cancelled before it learnt of it, which only expiry
frees. `pending` separates the two halves of create and resume: the committed row and
the submitted task. `notices` holds cancel calls and pub/sub messages; they may be
delivered late, in any order, or lost. `sweepers` are the processes whose sweeper still
loops: its first database error ends it. `said` is the last status event queued on a
run's pump.

Simplifications: the agent graph is one await that ends in an answer, a checkpoint or an
error; the events between `running` and the last status are left out; the manager's
asyncio lock is implicit, because its sections do not await; the lease of a live holder expires
only as a fault, since renewal runs beside it.

### RunEvents

`exec[r]` is `ChatRunExecutor._execute_running` seen by its publications: `graph`, then
`pausing -> pauseflush`, `committing -> recording -> leaving`, `failing`, `failingbus` (the
handler of `RunEventBusError`, which says nothing) or `cancelling`, and always `closing`, the
`finally` of `bind_run_event_pump`. Publications are synchronous, so `Publish2` puts two events
in one step and stops at the first that raises. `pump[r]` is the `RunEventPump`: queue, the event
whose append is awaited (`busy`) and the failure it remembers. `stream[r]` is the Redis stream;
the script increments and adds in one step, so an entry's sequence number is its index.
`sub[r][c]` is one client: `Read` is `read_after` and the lines it yields, `Look` the row and
the made-up terminal line, `Wait` the one-second wait with its heartbeat line, `Disconnect` a
client that goes away in the middle of a batch, `Connect` a client that starts over or goes on
after its last sequence. The line made up from the row takes the number after the client's cursor, and the client keeps that number as
it keeps any other (`MakeUp`, `made`), so an event stored later under it is not sent to a client that goes on from there. `token` and `nr` of
an event, `seen`, `made`, `late` and `ended` are ghosts.

Rows are written by `RunRepository`'s actions only. The session lease is the guard of `Claim`;
how it can be lost, and what happens then, is `ChatRuns`' subject. A `put(None)` that waits for
room in a full queue is not cancelled on its own.

### RecentWindow

One action per await of `load_recent_messages` and `record_committed_turn`: cache, counter,
session row and turns are read one by one. A message is its length, the dialogue a sequence
(`TurnsContiguous` of `RunRepository` is what makes it one). `KeptCount` is the exit condition
of the loop of `build_recent_dialogue_window`. Two executions overlap only by a fault, an
expired lease; the fencing token is left out of `CommitTurn`, which therefore accepts more commits
than the code does.

### RequestContract, RedisSessions, MemorySessions

`RequestContract` keeps, per request, what was heard of it: nothing, a claim in progress with its
owner, or an end, and the number of turns. A store may forget an ended request or a whole session, never
let one claim complete another's, and never answer a remembered completed request by executing it again. A
call with another payload is only answered.

`RedisSessions`: a Lua script is one action, the Python before and after it another, so the lease
may expire and others may work in between; `Lapse` is an expiry under a live holder, a reply may be lost after
its script ran (`Calls`, `Sends`, `Answered`). A lock is owned by its token and the renewal
may stop (`RenewStops`). `MemorySessions`: only the wait for a lock gives way; `Enter` counts the lease of
whoever waits, `Evicted` may take only sessions nobody leases; a failure does not count as a use of the session (`FailRequestOf`), everything else does (`Store`). Times are relative to the
record's expiry.

### LegacyGraph and GameResolution

`node` is the graph's current node, and every node's gate (deadline, cancel, budget) is part of its action.
`attempts` are the controller's plans, `entered` the calls whose handlers ran, `spent` the budget; a
call's key is its tool and resolved arguments, and results of the first attempt are kept under
it for the second. `GameResolution` reads in the phases of `resolve_game_across_leagues`, with workers that
take the next item under one budget and one failure flag; `Verdict` decides over what was read. Names, times
and durations are reduced to how they compare (`Records`).

### Lifespan

`lifeStage` walks through `lifespan` as it is written: a step that can fail goes to `cleanup`, a
close that fails skips the closes after it, as an exception inside the `finally` does. `settings` is the
set of switches that are on; `BuiltServices`, `RegistryRefuses` and `RegisteredTools` say what they compose.

### SessionHistory, AgentRuntime, AgentProtocol, TaskState

A message is its kind, a number and the stream that wrote it; every message counts as one token, and the
context window is a handful of them. `phase` is the await `run_stream` stands at; a stream may be closed
or cancelled at any of them and its deadline may pass. `AbstractStage` maps phases to the
three stages of `AgentProtocol`, which forbids text of an attempt that was dropped, an end before the last
text, and two ends. `TaskState` is the coordinator under batches of calls that claim, observe and checkpoint, while compaction takes
messages away.

### ProductChat and ThreadView

A stream of a client waits in `queue` for the session's lock; the save of an answer is a step of
its own that goes on after the client has left (`save`, `landing`). The runtime behind it is any
behaviour of `AgentProtocol`. A restart assumes that the database has settled the transactions of the old process.
What a client is sent are operations: they are computed from the view before and the view now, and applied to the client's own copy, the
answer first and then the fields of the run in their order (`AnswerApplied`, `FieldsApplied`, `PartlyApplied`), so `shown` may go wrong
where the server's `view` is right.
`ThreadView` keeps the thread's snapshot, the transport's wire state and the shown conversation `View`;
the server is one step per envelope. An answer's text stands as its edition: it grows, is emptied for another
attempt (`start_answer_attempt`) and may be replaced by the completed one (`complete_answer`), each time a next edition (`Edited`).

### ModelStream and ArtifactReads

A provider's answer is text and calls cut into pieces; `complete` reads the same answer at once and is what
the stream is compared with. A stream may end anywhere, at the length limit, for another reason or without one, and is assembled at `[DONE]` all
the same; only `length` is refused. That the provider says `stop` (or `tool_calls`) after all it had to say is the one thing assumed of it. In `ArtifactReads` a document is a list of row sizes, `Budget` what the model may
be shown; `results` are the messages of the history, some of them receipts for another. The outline of a result always fits its
budget: the error of one too large even for that is left out.

### RecentSeries, SeriesLoad, DataUpdates, CatalogBuild, DisplayFiles, GuideFiles

Every await of the homepage's cache is a step and a failed write may have been applied; the clock
ages snapshot and cooldown. The holder of the lock gets a copy of the entry (`ReadEntry`) and decides on it later (`DecideOnRead`,
`DecideOnRefresh`), when the refresh it would have joined may have failed and ended. `SeriesLoad` is one refresh: tasks, the shield around shared
lookups, the semaphore. A data command is a process that takes the file lock or exits; its work runs in threads that a
cancellation does not stop and a kill does. Snapshots are numbered; `pointer` is `current.json`. API restart
is a stop and a start of the loader. The content of a bundle is left to `CatalogBuild`, which shares, retries and bounds
the calls of its branches while Valve publishes a new version. A file is replaced whole; a refresh may be killed or fail
between two files, and a damaged file is read as the readers read it.

## 3. Runs

| Run | Instance | Shows |
|---|---|---|
| `stores` (`MCStores`) | tables: 1 session, 3 requests, 2 runs, 2 workers, 2 tokens; files: 1 entity, 1 team, 2 partitions, 2 contents each; build: 1 hero, 1 item, 2 versions | the promises of the tables under any sequence of calls and `RunLedger` as the client's view; files that are sound and lose nothing over failures and kills; catalogs built whole or not at all |
| `executions` (`MCSessions`) | runs: 2 runs, 1 process, 1 cancel, 1 fault; stores: 2 callers, 2 keys, 1 lapse | events, fencing and history stay consistent when two executions follow or overlap each other; both session stores implement `RequestContract` |
| `pauses` (`MCChatRunsPause.cfg`) | 1 run, 2 processes, 1 pause, 1 cancel, 1 stop, 1 fault | pause, resume elsewhere, double cancels, crash and shutdown stay within the repository's transactions |
| `liveness` (`MCChatRunsLive.cfg`) | 1 run, 2 processes, 1 cancel, 1 stop, 1 fault | runs settle, shutdowns end |
| `events` (`MCRunEvents.cfg`) | 1 run, 2 executions, no client, queue of 2, 2 cancels, 1 fault, 1 expiry | what is published reaches the stream in order, and all of it unless the execution raised |
| `followers` (`MCServed`) | 1 run, 2 executions, 1 client that goes on after one made-up line, batches of 2, 1 fault; a graph of 4 tools and 2 calls a plan; 3 leagues, 2 games, 2 calls; every valid setting | a client misses nothing but what the number of a made-up line hides, and is told no false end; runs of the graph, resolutions of games and the process are sound |
| `events_end` (`MCRunEventsLive.cfg`) | 1 run, 1 execution, 1 client, 1 fault | executions and streams end |
| `agent` (`MCAgent`) | 2 streams in a window of 9 messages; 2 tasks, 3 calls; 2 executions, 3 turns of 3 sizes; 2 tools; documents of 3 rows | what an answer is made from is whole; `AgentProtocol` is implemented; answers see the last turn |
| `product` (`MCProduct`) | 2 clients, 2 requests, 1 restart; 1 reader, 2 refreshers; 3 series, 2 teams; 2 commands; a browser that sends 2 messages, with 2 editions of each answer | saves are true, one answer per request, clients' copies are the server's view and never torn, no older text is shown again, refreshes back off, nothing goes back |
| `ends` (`MCEnds`) | smaller instances of the same; ages and clock of 1 | streams, requests, refreshes and graph runs end |
| `claim_resume`, `claim_groups` | small | two statements of the code about itself that do not hold (section 6) |

Bounds. One session is enough for the tables: no transaction reads two sessions, and sweeps
treat rows independently. Two runs are the fewest that exclude or fence each other; a third
request leaves room for the product chat's turn between two runs' turns. Two processes are the
fewest for a resume or a sweep elsewhere. `MaxFencing` is the number of executions of the
instance (each run once, once more per pause), so it refuses no execution. `MaxFaults`, `MaxCancels`, `MaxPauses`, `MaxStops` bound
what the environment does; one fault together with one cancel and one stop reaches every pair
of accidents the hazards name, and one cancel with a heartbeat or a shutdown, or two cancels in `events`, reach a cancelled cleanup.
In `RunEvents` a queue of 2 is the smallest that a publication of two can fill half-way and a batch
of 2 the smallest that a segment's end can cut; `followers` and `events_end` leave out the expiry of
the stream (section 6) and `events` the client, whom the producer cannot see.

In the session stores two callers are the fewest that take over from each other, `MaxUuids = 4` gives each
two claims, one remembered record (`MaxRecords`, `MaxKept`) is passed by the second key, and one
session of room with two sessions makes `MemorySessions` evict; `MaxLapses`, `MaxDraws`, `MaxTokens`, `MaxLocks` and
the clocks bound the rest. `ContextWindow = 9` with `Reserve = 4` lets compaction start after one batch and fail
to fit once; two streams carry a cut history into the next request. `Offered` names the commands an operator may start:
`refresh-all` is left out of `ends`, where `CommandsMoveOn` of `DataUpdates` (part of `UpdatesAreSafe`) covers its waiting. `MaxTime = 2` (1 in `ends`, with an age of 1) passes
every age and cooldown once. `MaxPictures = 2` is a picture and its successor; two partitions of guides are a
visit and a next one. Two plan slots and two tools that yield one kind of evidence each let a first plan fail by its evidence
and a second reuse it. `LifespanBreaks = 1` lets one of the three loops die. `MaxReloads`, `MaxSent` and `MaxEditions` bound the browser; two
editions are a text and one that follows, empties or replaces it. `MaxMadeUp = 2` lets a client go on after a made-up line and be told of a second.
The graph's liveness is checked without lookups and with one planner try, which its safety run has.

Symmetry is used only for safety, and only over values no module distinguishes; some parts share their model values
so that one small group serves all of them.

Deadlock is not checked: a system whose work has all ended and whose environment has spent its bounds stops.

Fairness. `FairSpec` of `ChatRuns` and `EventFairSpec`: weak fairness of each task's next step (the event loop schedules
it, the lock has a timeout, the graph a deadline), of a draining process's shutdown
steps, of the clock and of sweeping while a sweeper loops. Nothing is assumed of notices,
heartbeats, clients or lease expiry. A sweeper may die by a fault, so `RunsSettle` is
conditional: it holds as long as some live process's sweeper survives. `RuntimeFairness`: the stream's next
step, and the passing of its deadline (`asyncio.timeout`), nothing of its consumer. `ProductFairness`: each stream, its
runtime and its save take their next step (the save has a timeout), nothing of clients. `SeriesFairness` and `LoadFairness`: the refresh and each
request take their next step; strong fairness where a lock or the semaphore is entered, because asyncio's are
first come, first served. `UpdatesFairness`: the loader's poll only, so commands may stop anywhere. `GraphFairness`: the graph's next node.

## 4. Properties

Each property's comment names the behaviour it is about; each is violated by a mutant of
the code (`PROJECT.json`, "mutants"; the mutants are the operators called "Broken variant"). A property of a run with parts
is a conjunction of one named property per part (`FilesAreSound`, `FilesMoveForward`, `StoresKeepPromise`, `ServedSoundly`,
`DataIsSound`, `NothingGoesBack`, `UserSeesTheAnswer`, `StreamsAllEnd`, ...), each defined in its component's module.

## 5. Theorems

Each theorem holds for every value of the constants that satisfies the named assumptions of its modules:
`NilAssumption` (NULL is no id), `MaxQueueAssumption` and `MaxBatchAssumption` (a queue and a batch have
room for one entry), `LimitsAssumption`, `RecentAssumption` and `MaxCharsAssumption` (limits are positive, the reserve
fits the window), `SizesAssumption` (lengths are naturals), `ChatAssumption` and `TaskAssumption` (the empty values are
no ids), `RedisAssumption` and `MemoryAssumption` (bounds and limits are positive), `LoadAssumption` (no series is a team), `ResolutionAssumption` (limits are positive, leagues and games finitely many, what a
request asks for is one of the things that can be checked), `ArtifactAssumption` (budgets are positive and hold what fits inline and the envelope), `DisplayAssumption`
(the empty values are no hashes and addresses, legacy teams are teams), `GuidesAssumption` (there is a partition), `BuildAssumption` (pools, slots and
attempts are positive), and that bounds are naturals. `MaxFencing`, `MaxTurns`, `MaxStarts` and their like bound an action's guard only; no proof
uses them as bounds. One theorem, `FollowersHold`, assumes more, and says why.

`RunRepositoryProofs`, about `RepoSpec`:

| Theorem | Property |
|---|---|
| `TypesHold` | `RepoTypeOK` |
| `OneActiveRunHolds`, `OneRunPerRequestHolds` | `OneActiveRun`, `OneRunPerRequest` |
| `OwnershipHolds` | `OwnershipMatchesStatus` |
| `TurnsContiguousHold` | `TurnsContiguous` |
| `CompletedIffAnsweredHolds` | `CompletedIffAnswered` |
| `TerminalRunsAreFinal`, `CancelsStick` | `TerminalIsFinal`, `CancelSticks` |
| `TablesImplementTheLedger` | `ImplementsLedger`: every transaction is a step of `RunLedger` or none |

The type invariant carries `Anchored`: a row names a session that is open as long as the row lives.
Without it a transaction could write a session's counter through a dangling key. `Kinds` then
reduces every step to eight shapes (a rewrite of one existing row that keeps its keys, a create, a
complete, a sweep, and four of sessions); each invariant is inductive together with the type
invariant and is proved shape by shape. `CompletedIffAnswered` also uses `TurnsContiguous` and
`OneRunPerRequest`: a request's turn has one possible run.

The ledger's dialogue of a session is `DialogueOf`, read off the turns by index, so `LedgerInv` needs `TurnsContiguous` (each index
below the counter has exactly one turn) and that a row nobody inserted names no session. Along `Kinds` every transaction is then a
step of the ledger (a rewrite ends, recovers or moves a run, a completion ends it and extends the dialogue at once) or a stutter.

`ChatRunsProofs`, about `Spec` of `ChatRuns`, for any number of processes, runs, faults and cancels:

| Theorem | Property |
|---|---|
| `ChatTypesHold` | `ChatTypeOK` |
| `RepositoryImplemented` | `ImplementsRepository`: every step is a transaction of `RepoSpec` or none |
| `OneActiveRunInSystem`, `CompletedIffAnsweredInSystem` | the same invariants of the whole system, from the theorem above |
| `AnnouncementsAreDurable` | `AnnouncedIsDurable` |
| `KillsAreAskedFor` | `KilledOnlyIfAsked` |
| `AnswersMatchHistory` | `AnswersWhatItSaw` |
| `TurnsInTokenOrder` | `TurnsFollowTokens` |

The inductive invariant `Inv` adds to the types what `RepoSpec` asks of its callers (`TaskInv`): a
task or a pending submission is for a run that has a row, and a task that works holds a token its
session has allocated. `Sources` says which steps write the tables: a task's own write, or a quiet
statement anybody may issue. `Bears` follows the token from the task to the row to the turn, which
gives the order of tokens although executions overlap.

`RunEventsProofs`, about `EventSpec`, for any queue and batch size:

| Theorem | Property |
|---|---|
| `EventsHold` | `EventsAreSound`: `StreamIsSound`, `FlushedMeansStored`, `ImplementsRepository` |
| `EndsHold` | `EndsAreTrue`, a conjunct of `FollowersAreTold`, also when streams expire |
| `FollowersHold` | `FollowersAreTold` (`EndsAreTrue`, `OnlyMadeUpLinesSkip`), assuming `MaxExpiries = 0` |

`StreamIsSound` speaks of stored events only and is not inductive. `EventInv` numbers what one execution published: the last events are in
the queue, the one before them may be with the pump's task, and the stream ends with all earlier ones unless the pump remembers a failure
(`Numbered`, `Stored`); tokens of later executions are larger. Its second half ties events to rows: "completed" is on its way or
stored only if the row is completed or deleted. Lemmas about `Put`, a store, a loss and a drop (`PutKeeps`, `StoreKeeps`, ...) carry it; each action is one of them.
Because the row comes first, `EndsAreTrue` holds over expiry and crash. `FollowersHold` needs a stream that only grows: when it
expires under a client, its numbering restarts below the cursor and the property is false in the code (section 6), hence
the assumption, which is also the bound of the run `followers`. What a client may miss is said exactly: an event whose number the line
made up for it took, and such a line it has only of an ended run.

`AgentProofs`, about `RuntimeSpec`, for any window, reserve and limits:

* `StreamsFollowTheProtocol` proves `ImplementsProtocol`. The abstract stage and attempt are functions of `phase`, `answer` and `comp`; `ProtocolInv` is
  the table of what each phase has of the answer (`PhaseSays`) and where a compaction returns to (`CompactionSays`).
* `HistoryHolds` proves `HistoryIsSound`. `HistoryInv` says that the messages are the session's history, except while
  the answer stage verifies or when its deadline has passed in it, where a part of one batch is ahead of the history (`Ahead`). This exception is what
  `claim_groups` of section 6 is about, and it is why the property allows a batch without results only in front of an
  answer. `CounterInv` bounds what fits. A compaction that cuts is proved to keep whole groups from the definition of the cut (`Scoped`, `Begun`).

* `EvidenceHolds`, about `TaskSpec`, for any tasks and calls, proves `EvidenceReachesAnswer`. `TaskInv` adds who owns an observation: the task its call was made
  for, until a checkpoint has claimed it (`OwnersInv`); what the messages hold, or a batch in flight will, has an owner or is claimed (`NothingIsLost`).
* `ReadsHold`, about `ArtifactSpec`, for any documents, shapes of pages and budgets, proves `ReadsAreSound`. `ReadsInv` says that one call of a turn pages and asks
  for what the pager will give next (`PageIsNext`), that pages lie within the result and, followed to the end, leave nothing out (`PagesLieWithin`,
  `PagesAreComplete`), and that what a receipt refers to is still shown (`ReceiptsAreCovered`): `RewritingCovers` takes the latest of the reads that show as
  much. `FittingFits` and `ViewFits` compute with the sums of sizes.

`ProductProofs`, about `ProductSpec`, for any number of clients, requests, starts and restarts:

| Theorem | Property |
|---|---|
| `SavesHold` | `SavesAreTrue` |
| `AnswersHold` | `AnsweredOnceFromAll` |
| `ClientsHold` | `ClientSeesTheView`, `UpdatesAreNeverTorn` |

`ChatInv` follows an answer through four places: the stream, what this process keeps of it, the transaction that a
timed-out save left open (`landing`) and the table. `TablesOK` says that a landing turn is of a kept answer and of no stored
turn; `TableOK` that while a request runs it has nothing in any of them, which is why a late landing cannot give it a second
text; `Agree` compares two streams of one request, of which one may have ended long ago. `ClientsHold` has two steps: operations applied to a copy that was the view before
give the view now, field by field (`ViewApplied`), which fails where a field is forgotten or a text grows from another one; and after each single
operation the copy is no state that never was (`NothingTorn`), which rests on the order of the operations and on what each step of a stream changes together.

`ProductProofs`, about `Spec` of `MCProduct`, for any number of commands, pages, series and slots:

| Theorem | Property |
|---|---|
| `DataHolds` | `DataIsSound`: `LoadIsClean`, `UpdatesAreSafe` |
| `BackOffHolds` | `RefreshesBackOff` |
| `SnapshotsHold`, `CatalogHolds`, `NothingGoesBackHolds` | `SnapshotsMoveForward`, `CatalogMovesForward`, both |

`LoadInv` says who may have asked about a team; `SeriesInv` that a failure that must hold a refresh back is known to the process or
stored, that a copy of the entry is never newer than the entry (`CopiesAreOld`), and that what a manual refresh found
under the lock stays true until it acts on it: no refresh runs meanwhile, since it looked at the task first. A page does not, which is the exception (`ReadTooEarly`) `RefreshesBackOff` names. `UpdatesInv` says of the one command that
holds the file lock which of its jobs may follow which (`JobsFit`, `TakesTurns`), that what it publishes is still of the patch it
asked for (`KeepsPatch`, `FetchesPictures`), and that its exit code is true; that it always has a next step (`CommandsMoveOn`) follows from these.

`AgentProofs`, about `WindowSpec`:

* `AnswersSeeTheLastTurnHolds` proves `AnswersSeeTheLastTurn`. `RememberedInv` says of every execution between its reads and its commit
  that the index it remembers is at most one above the turn its window ends with, and that this turn is stored; it needs nothing of
  the cache, so whoever wrote the cache, and when, cannot matter.
* `WindowHolds` proves `WindowIsSound`. `SoundInv` says the same of the cache and of every window an execution holds; stored turns never change, so a late window stays
  sound. The work is in the operators: `Used` (the size of the newest turns, a recursive function) is shown to be monotone, `KeptCount` to exist and to be the only
  exit of the loop, and a window grown by a turn and cut again to be what is kept of the whole dialogue.

`ServedProofs`, about `GraphSpec`, for any registry, plans and budgets (`GraphAssumption`: the limits are positive, the controller may
be asked once more than there are lookups, a lookup yields no evidence): `RunsAreSound` proves `RunIsSound`. `GraphInv` has five parts. `CallsInv`: a handler that was entered has left a
result in `executed`, but the one under way, so a call whose fingerprint is new to `executed` is new to `entered`. `BudgetInv`: the lookups
of a plan fit before its first call. `PathInv`: what each node may rely on; at the end an attempt of a tool plan is `Unfit` (no outcome of it is
"ok") or `Whole` (every planned call has its result, all evidence is there, no mock), and the evidence the first plan required is
still required. A result reused from the first attempt is of the planned tool because its fingerprint starts with it. `AttemptInv`: what the last attempt came to; `Settled`
shows that writing an outcome into the state does not change what the rules say of it, which is why the run may apply them again.

`ServedHolds`, about `Spec` of `MCServed`, for any leagues, games, budgets, settings and failures, proves `ServedSoundly`. `ResolutionInv` has three parts:
what the sources gave and when (`ValuesInv`), which answer each read of a call was given (`RepliesInv`), and how far a call's workers are
with the items of its phase (`CallInv`); the verdict is then decided over what was read and nothing else. `ProcessInv` says that services are opened and
closed in the order of `lifespan` (`OpensInOrder`), that the background works only between them (`WorksInTime`, `RunsInTime`) and what the settings compose (`Composed`).

`StoresProofs`, about `Spec` of `MCStores`, for any teams, images, partitions, heroes, items and versions: `FilesHold` proves `FilesAreSound`,
`FilesMoveForwardHolds` proves `FilesMoveForward`.

* Pictures. `DisplayInv` says of the copy a refresh works on what the published files promise: what it names is stored (`NamesAreStored`) and it is not behind
  the file it will replace (`CopiesAreNewer`), so publishing it keeps both.
* Guides. `GuidesInv` compares every time of a partition with the clock (`TimesHavePassed`) and, for the partitions the worker has visited, with the time it
  began (`VisitsLeaveTheirMark`); `WorkerIsSomewhere` says what each job of it implies.
* The build. `BuildInv` says which answers are in before a thread's stage (`AnswersAreIn`, `ComparedAreIn`), which threads may be at work (`StagesFit`), and that
  what a thread waits for is needed and queued or called (`AskedAreNeeded`). `BusyMovesOn` concludes that whoever is at work asks, is waiting for a
  call that can be made or is running, or ends its stage: pools, shared answers and the semaphore cannot wait for one another.

`SessionsProofs`, about `PartsSpec` of `MCSessions`, for any callers, sessions, requests and limits: `StoresHold` proves `StoresKeepPromise`, that is,
that both stores implement `RequestContract`, that who writes is the only owner of the lock, and that nothing somebody is in or waits for is evicted.

* Redis. `RedisInv` says that every transaction has a token of its own (`TokensDiffer`), so that a lock seen as one's own is nobody else's, and that what a call will
  compare the record with is one it may replace (`CallFits`): the script still compares it with the one stored now, so
  a script that finds it unchanged ends its own claim, and any other change in between makes it refuse.
* The process. `MemoryInv` says that a session has one record for each request (`RecordsFit`), that a lock's queue is of exactly those who wait for it or hold
  it, the holder at its head (`QueuesFit`), and that leases count those in a session, who all go by its lock (`LeasesFit`): two locks of one session
  would let two tasks in. `EvictedFit` says that evicting takes only sessions nobody leases, and goes on until the rest fit or are all leased. Each step changes
  rooms in one of a few ways, and `RoomForgets`, `RoomClears`, `RoomTells`, `RoomClaims` and `RoomEnds` say which step of the contract each is.

Induction. The library's induction theorems take an operator and cannot be used here. Where a fact about `Used`, a sum of sizes, the entries
left of a list (`Those`) or a sequence of items needs induction, it is proved for a set of numbers: if some number were not in it there would be a least one (`WFMin` and `NatLessThanWellFounded` of the
library, which take sets), and the step refutes that (`Inductive`). The recursive function is unfolded by the same means.

Not proved, only model-checked:

* Liveness (`RunsSettle`, `ShutdownCompletes`, `ExecutionEnds`, `SubscriptionEnds`, `StreamsAllEnd`, `RefreshesEnd`): fairness and `ENABLED` are out of the
  prover's reach.
* `AnswersAreWhole` compares what two recursive readings of every answer compute: an induction over its pieces.
* `UserSeesTheAnswer`, but for its parts `ClientSeesTheView` and `UpdatesAreNeverTorn`, which `ClientsHold` proves: the rest is about a conversation the browser folds together from
  the messages it gets, again an induction over data.
* `RunEvents`, `ProductChat` and `AgentRuntime` are composed with their neighbours by what they assume of them (the rows' actions, the
  protocol), so the theorems about each hold for it alone; that the browser shows what the chat saved is checked as a run.

## 6. Where the code disagrees with itself

Checked by a run each:

* `claim_resume`. `resume_checkpoint` is to "queue the same Run for resumption"
  (`application/postgres_chat_run_repository.py:251`). The row waits for its user before the paused
  task has flushed its events and left the manager; a resume in that window is refused by `submit`
  and the run is marked failed.
* `claim_groups`. "Complete tool-call groups are kept intact" (`src/README.md:172`). The answer's
  verification appends the model's calls before it has their results; if the answer's deadline passes in between, the
  fallback's delivery writes the calls without results into the session's history
  (`vnext/agent/runtime.py:2005`), and every later compaction refuses it.

Seen while modelling, without a run of their own. Durable runs:

* A status is made up "when redis stream is missing" (`src/apps/api/tests/test_chat_run_event_routes.py:52`); `read_after` returns at
  most 100 entries, and then the row alone decides (`api/v1/chat_run_routes.py:291`): who connects to an ended run with a longer stream gets one
  batch and a made-up end.
* That line is numbered one above the client's cursor (`api/v1/chat_run_routes.py:346`; `last_event_sequence` stays 0) and the browser keeps the number
  (`src/apps/chat/src/lib/assistant-ui/run-event-converter.ts:158`): who goes on from there is not sent the event stored under that number. No document promises otherwise.
* The pump goes on after a failed append (`application/run_event_pump.py:95`), so `result` may be lost and `completed` stored behind it.
* The sweeper judges a queued run by `created_at`, which a resume does not renew
  (`application/postgres_chat_run_repository.py:384`): a run resumed long after its creation may be swept at once.
* A task cancelled after its pause is durable publishes `interrupted`, a terminal event, for a run
  that still waits for its user (`application/chat_run_executor.py:242`).
* A lost cancel notice for a task that still waits for the semaphore or the lock is noticed by no
  heartbeat, against the comment at `application/chat_run_runtime.py:105`; the run ends when the sweeper finds it.
* Stream and counter expire a day after the last append: a run resumed later numbers its events
  from 1 again, below the cursors its clients hold (`MaxExpiries = 1` in `followers` shows it).
* Adding turns to a cached window forgets that older turns were dropped, and keeps a turn that was
  cut to the budget beside complete ones (`application/conversation_memory.py:143`): this is why
  `CacheMatchesRebuild` compares turns only and asks that no turn exceeds the budget.

Process:

* A start that fails after `create_database_resources` leaves pools open until the process exits (`main.py:116`); a close that raises
  (`main.py:257`) skips the others and may leave a homepage refresh at work. `EndsQuietly` states what remains true.

Session stores:

* The request methods and `delete_session` have no caller in the application. `clear_session_data`, `replace_*` and `invalidate_*` are not
  fenced in Redis, only by the local `lock_lost` flag, so a stale holder's clear can reach a new holder's data (the session is gone from
  PostgreSQL by then).
* Records of requests taken over in progress never expire and may exceed `max_request_records`.
* The memory store counts a record's expiry from its begin, Redis from its end; a full table may forget a request just completed;
  `_fencing_counters` of evicted sessions stay.
* `delete_session` of the memory store, called while the asyncio lock is handed over, would remove lock and leases: two
  tasks inside and a `KeyError` on leaving. It is left out of the model, since nobody calls it.

Agent graph and agent runtime:

* No registered tool sets `waiting_input`, so the checkpoint's branch is not reachable from this graph, and the default registry
  holds only `artifact.grep` and `artifact.read`.
* Deltas of an answer are published before the critic may refuse it. Lookups use up controller calls, so
  that with the default of two a run that looked up cannot replan.
* All callers pass `confirmed_mappings={}`: `mapping_conflict` is unreachable and left out. Any game inside the time window
  whose evidence is incomplete makes a resolution `evidence_insufficient`, related or not.
* `docs/agent/context_governance_evidence_lifecycle.md:112` lets only execution and the primary answer trigger compaction;
  `prepare_answer_continuation` does so in the degraded attempt too.
* A stream that ends with `content_filter`, or with no reason, between two calls hands over those begun so far
  (`vnext/llm/openai_compatible.py:887` refuses `length` only, as `docs/agent/model_output_and_recovery.md:158` describes): `OnlyWholeCalls` promises whole calls, and whole batches
  only of answers the provider calls complete.
* `complete` accepts an answer with empty content, `stream` refuses it. A connection lost after deltas is transient.
* Members dropped from the root of a bounded view leave no `_truncated` mark when the rest fits; a receipt may be longer than what
  it replaces; after a restart receipts' references no longer resolve; a synchronous handler that timed out goes on in its thread and
  may overlap the next unsafe call.

Product chat and browser:

* A failed request cannot be retried once another has begun (`inactive_request`). Durable turns may be in another order than the session's when a failed save is retried later.
* `streamDotaMindRun` and `createChatRun` have no caller in the browser. A message sent for a thread that is never rendered would wait for ever.

Data:

* A page that read the homepage's cache before a failed refresh recorded its failure and ended finds neither cooldown nor task and starts
  another refresh inside the cooldown (`vnext/homepage/recent_series.py:263`).
* After a lost acknowledgement a homepage response may say `unavailable` beside its items; several processes may overwrite each other's
  snapshot (the model is one process).
* A damaged partition whose fetch fails ends the whole guide refresh; snapshot directories are never deleted; nothing is synced to disk; a damaged
  image manifest or `teams.json` makes every later refresh fail; a bundle may mix Valve versions.
* `game_data_sync.py:733` promises to write atomically but replaces five files one after the other.

## 7. Not modelled, and the plan

Proofs that could follow: the browser's fold, and what two readings of an answer compute.

Models that could follow: several API processes around the homepage's cache, the thread list of the browser, the old data synchronisation.

Left out for good: provider adapters and parsers, the texts of the catalog (names, aliases, talents), prompts, presentation, observability, traces, data files,
scripts and the frontend's rendering: they keep no state whose order matters.
