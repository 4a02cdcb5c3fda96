# synaptic-mc: a verification project

synaptic-mc plays Minecraft with a Go server (planning, arbitration, dispatch,
persistence) and a Node.js bot (mineflayer) that talk over one WebSocket. This
directory holds TLA+ models of the server's decision loop, its execution core,
the parts around them that keep state, and the part of the bot they depend on,
TLC configurations that check them on small instances, and proofs that hold for every value of the constants. `PROJECT.json` maps every
definition to the source lines it stands for and every property to the change
of the code that breaks it.

## 1. Inventory

| Component | State it keeps | Operations | Correct when |
|---|---|---|---|
| Execution arbiter (`internal/execution/supervisor_actor.go`, `state.go`, `policy.go`) | lease (holder, start, timeout, minimum hold, preemptable), failures per kind, time of the last fatal failure, danger level | request, report of a failure, danger update | leases change hands by their terms, no kind gets the lease beyond its budget, the urgent are not kept out by stale terms |
| Dispatch queue (`task_manager.go`) | heap, schedule, active task and its context, signal, dedup window, idle clock | Enqueue, EnqueueScheduled, Complete, Halt; the Run goroutine | no wakeup lost, no context leaked, nothing popped is forgotten, waiting items served |
| Task engine (`engine.go`) | task in flight, one goroutine per execution | ExecuteAsync, Preload, OnTaskStart/End, AbortCurrent, cleanup | what is in flight is watched |
| Control service, prep orchestrator (`service.go`, `prep.go`) | reflex flag, death count, watchdog timers | one handler per event type, requests of the operator | only approved tasks run, one retry per failure, an end releases the queue |
| Connection manager and actors (`manager_actor.go`, `ws_actor.go`) | active connection; per connection a duplicate filter | register, forward, close, ping, read | messages in order over one connection, dead connections let go, live ones kept |
| Event bus (`internal/domain/bus.go`) | one proxy actor per subscription | publish, subscribe | per handler in order; no order between handlers |
| Humanizer (`internal/humanization`) | attention, frustration | Process, Evolve, UpdateFeedback | passes the plan's task on at once; may put idle actions in front of it |
| Decision service, planner (`internal/decision`) | active plan, evaluating flag, milestones; plan cache, failing objectives | events, asynchronous generation | one evaluation at a time, an error of the planner does not end the planning, ends of old tasks not taken for those of a new plan |
| State service (`internal/state`) | one versioned snapshot | tick, task end | world memory kept, but for overlapping updates |
| Danger FSM (`internal/state/danger_fsm.go`) | danger state, two clocks | Update (as wired nothing calls it) | lethal danger followed at once, calm only after a while |
| Event store (`internal/eventstore`) | buffer, batch, tables | Append, flush, snapshot, Close | a log in order, each event once, none lost without a reason |
| Server (`cmd/server/main.go`) | event sink, four workers, hot-reload loop | wiring, ingestion, shutdown | every event processed once |
| UI hub (`internal/observability`) | clients, three channels | register, unregister, broadcast, shutdown | no panic on a channel, no leaked client |
| Language model client (`internal/llm/client.go`) | error count, open circuit | GenerateWithFormat, CreateEmbedding | an open circuit lets nothing pass for its minute |
| Dynamic flags (`internal/config/flags.go`) | flags, time of the file | watch, load, notify, hand out | no change of the flags is lost |
| Process supervisor (`internal/supervisor/runner.go`) | crash count, last ping | start, watchdog, restart | a hung bot is killed, a young one is not |
| Bot executor (`js/index.ts`) | current task, preloaded task, abort controller | dispatch, preload, abort, completion, death, panic | one task at a time, each ends once |
| Survival system, controller, network client, tasks (`js/lib`) | panic flag and cooldown; intent and leases; socket and timers; task FSMs | ticks and callbacks | |
| Learning | statistics of attempts, snapshots | projection from the log | no attempt counted twice |
| Memory, voyager, strategy, UI, offline tools | | | data processing and I/O |

Interaction: the bot's events (TASK_START, TASK_END, PANIC_*, BOT_*) are
published on the bus. The sinks pass them to four workers, which append them to
the event store; the state service reduces state ticks and task ends into its
snapshot and publishes that; the process supervisor counts each message as a sign
of life. The decision service asks its planner, and that the language model
behind its circuit breaker, and answers with PLAN_CREATED; the
control service asks the arbiter, which dispatches an approved task through the
engine at once, and puts the task on the dispatch queue as well, which
dispatches it again through the same engine. The engine sends to the connection
manager, that to the actor of the active connection, which drops what it has
dispatched before. Failures go back to the arbiter and, as a retry under the
same ID, to the schedule of the queue.

What is hard: every subscription has its own actor, so the handlers of one
component run concurrently; the queue releases its lock twice during a dispatch;
goroutines outlive the tasks they watch; timers race the reports of the bot;
requests time out while the arbiter goes on; connections are replaced while
messages are under way; the bot reports across an `await`. `PROJECT.json` lists
these hazards at their lines.

## 2. Modules

| Module | Models | State and actions |
|---|---|---|
| `ActionLease` | abstract: what the arbiter promises | `holder`, `approved`; Approve, Release |
| `ExecutionArbiter` | supervisorActor, ExecutionState, RetryPolicy | one action per message (`RequestHeld`, `RequestLease`, `TaskCompleted`, `TaskFailed`, `UpdateDanger`) and `Tick`; denied requests are stutters; an approved or idle action may fail any number of times |
| `TaskManager` | TaskManager | one action per exported operation under `tm.mu`; Run as `TakeSignal`, `Dispatch*`, `Execute`, `ProcessScheduled`, `IdleCheck` |
| `TaskEngine` | TaskExecutionEngine | calls as actions under `e.mu`; each goroutine has a program counter |
| `EngineClients` | TaskEngine with arbitrary callers | adds cancellation and callers inside AbortCurrent |
| `TaskPipeline` | ControlService's handlers, the prep orchestrator's and the operator's requests, the humanizer's drifts, composed with ActionLease (for the arbiter), TaskManager, TaskEngine, the connection and the bot's executor | handlers split where they release a lock or wait for an actor |
| `ConnectionManager` | managerActor, wsActor, mailboxes, links | one action per message; registration in two steps because onClose reads `activeWS` from another goroutine |
| `SeenLedger` | wsActor's duplicate filter | Dispatch, Preload, Tick; two clock readings per message |
| `DecisionLoop` | decisionActor and AdvancedPlanner.Generate | the mailbox is a variable; one action per message type, one per step of Generate (both looks into the cache, each kind of answer) |
| `StateService` | state.Service and Reduce | two handlers, each split into reduce, take a version, store, publish |
| `EventLog` | abstract: what the event store promises | `queue`, `log`, `lost`, `excused`; an event is accepted and stored from the head of the queue, or stored or lost at once |
| `EventStore` | sinks, channels, four workers, SQLiteStore, shutdown; attempts projected from the log | one action per step of a worker and of batchWorker |
| `UIHub` | Hub, readPump, writePump | one action per case of a select |
| `LLMBreaker` | the client's circuit breaker | calls that have passed the circuit and not reported, ticks of 10 s |
| `NodeRunner` | Start and its watchdog | ticks of 5 s |
| `DynamicFlags` | Watch, LoadFromFile, notify and the hot-reload loop | the three looks at the file are three actions |
| `DangerFSM` | DangerAnalyzer | `Update` for every class of danger, ticks of 1 s |
| `ServerParts` | the eight independent parts side by side | `part` and the variables of each |
| `MC*` | constants for TLC | |
| `ExecutionArbiter_proofs`, `TaskManager_proofs`, `EngineClients_proofs`, `TaskPipeline_proofs`, `ConnectionManager_proofs`, `DecisionLoop_proofs`, `ServerParts_proofs`, `EventStore_proofs` (extends `ServerParts_proofs`) | theorems | |

Conventions. Times are ages in ticks that saturate one above the largest
threshold they are compared with. The heap of the queue is a bag, because two
equal entries cannot be told apart and its root is any entry of highest
priority. Operators whose comment begins with "Bug" are not part of a model:
each is the form a mapped definition would have with a plausible mistake, and
`PROJECT.json` ("mutants") names the property that catches it.

`ServerParts` holds eight parts that share no state. A variable `part`, chosen
in the initial state, names the one whose actions a behaviour takes; the other
variables keep their initial values. Each part is thus checked alone and
completely, and its fairness is claimed in its own behaviours only.

`TaskPipeline` uses `ActionLease` instead of `ExecutionArbiter`: a request may be
denied at any time, which covers clocks, budgets and danger levels, and the
theorem `ImplementsLease` (and the property `LeaseSpec`) shows that the real
arbiter does nothing the lease does not allow. The report of a failure is a
message of its own to the arbiter; in the pipeline it ends the lease in the step
of the handler that sends it. That the lease may still be held for a while
only makes the arbiter deny more, which it may do anyway.

`TaskPipeline` keeps to what the program does as wired and so has no curiosity
items (`DangerSafe <- FALSE`): the queue makes them only when the arbiter takes
more than a second to answer for the danger level. `TaskManager` alone has
them. The filter of the connection may forget an ID at any time
(`FilterForgets`), which covers its ten minutes and its thousand IDs;
`SeenLedger` has both as they are. A goroutine of the engine whose task is not in
flight any more, and that nobody can cancel, exits before anything else happens
(`Stale` in `Next`): until it looks again it does nothing another part could see.

## 3. Runs

| Run | Question | Instance |
|---|---|---|
| `arbiter` | Do lease terms and budget hold, and is an urgent action kept out by the terms of an earlier holder? Does the arbiter implement `ActionLease`? | 5 tasks of 4 kinds (two share one, one is idle and never asked for), one cause of each class and a controlled stop; 2 failures; durations 1..2, age cap 3; danger feed on |
| `arbiter_completion` (violation) | Does a completed action give up its lease? | the same, danger feed off as wired |
| `task_manager` | Are wakeups and contexts right, and is what was popped kept, between the steps of a dispatch? | 3 tasks (two within the margin and with one dedup key) and the curiosity item, 2 contexts, one copy each |
| `task_engine` | Is what is in flight always watched? | 2 tasks, 1 cancellable context and the background one, 2 goroutines each, outbox of 1 |
| `pipeline_events` | Does anything but an idle drift run unapproved, and how often may an action start while its dispatch is remembered? | 2 plans (preemption is possible), a reflex, a farming, an escape, a control and a drift action; any two outside events (a forgetful filter is one) |
| `pipeline_faults` | Is a failure retried once per start, does an end release the queue? | 1 plan, then up to three outside events out of failure, deadline, disconnection, cleanup |
| `pipeline_stuck` (violation) | Does "force clearing" clear a stuck task? | 1 plan, one failure, one cleanup |
| `connections` | Order, replacement and cleanup of connections | 2 connections, 2 messages, 1 ID (duplicates included), 3 restarts |
| `connection_kept` (violation) | Is a live connection kept? | 3 connections, no messages |
| `decision` | Is there one evaluation at a time, is a planner error followed by another attempt or a plan, can the end of an old task be taken for that of a new plan? | 1 objective, plans of up to 2 tasks, 4 tags of IDs, 1 message waiting when something arrives from outside |
| `decision_blind` (violation) | Does a state with threats lead to a new evaluation? | the same |
| `server_parts` | The promises of the duplicate filter, state service, event store, UI hub, circuit breaker, process supervisor, dynamic flags and danger FSM; does the event store implement `EventLog`? | see below |

Why the bounds are enough. `arbiter`: every pair of tiers, both kinds of lease,
a budget that is spent by two failures of one kind, whether of one action
twice or of two actions, and every order of the
thresholds (minimum hold < survival timeout, backoff growing to its cap) occur
(455,000 states). `task_manager`: three priorities
give each outcome of a dispatch; a second copy of an item behaves like an item
of equal priority. `pipeline_*`: each outside event adds one concurrent handler;
the races are between two of them and the task they concern, and two plans with
different priorities give preemption. `Budget` names the bound on every event
(2.0 million states for `pipeline_events`, 0.4 million with liveness for
`pipeline_faults`).
`connections`: replacement needs two connections, the reported successor three.
`decision`: every message may wait behind one from outside and those the actor
sends itself; with one objective every plan may fail or not; 4 tags leave a fresh
one whatever is still reported (the last two plans, the mailbox).
`server_parts`: the duplicate filter has one ID more than its capacity of 3; the
state service 2 ticks and 1 task end, which can overlap in each order, and 2
zones per snapshot for 2 cells; the event store the start and the end of a task
(under another name for it), a state and a message without a handler, 2 workers,
channels of 1, a buffer and batches of 2 and 1 refused insertion, so that each
queue overflows; the hub 2 clients and queues of 1, so
that every put may be dropped; the breaker 2 callers and 3 errors, so that one
request reports late; the flags 2 keys, 2 values and 3 writings of the file.

Deadlock is checked but for the runs whose outside events can be used up
(`pipeline_*`, `connections`, `server_parts`).

### Fairness

- The arbiter has none: most callers ask once for an action and never again, so
  that its promises are about safety only.
- `TaskManager!FairSpec`: the Run goroutine takes every step that stays enabled.
  Callers are not fair.
- `TaskPipeline!FairSpec`: handlers, goroutines, message delivery, the cleanup
  ticker and the bot's timers (a task ends by its dynamic timeout, a panic and a
  death pass, a lost connection comes back); outside events are not fair.
- `DecisionLoop!FairSpec`: the actor takes its messages; a call of Generate
  returns, because its request has a timeout; the bot reports its state every
  second (strong fairness: there is room in the mailbox again and again).
- `ServerParts!FairSpec`: batchWorker goes on (its timer fires every time);
  the hub's pumps go on, something is broadcast again and again (state is pushed
  every 100 ms), and each case of the hub's select is taken if it is possible
  again and again (strong fairness: Go chooses at random). Faults, departures
  and the shutdown are not fair.
- `ConnectionManager!FairSpec`: actors are scheduled, tickers fire, a read of a
  closed socket returns. Registrations, failures of the link and messages that
  are no JSON (which end the read pump) are not fair.

### What the code does and its comments do not say

Four runs expect a violation and are listed under "findings": a completed
action keeps its lease; a retry swallowed by the duplicate filter occupies the
queue for ever; the manager forgets a live connection; the decision actor decodes
the published state into a type with other fields and always sees the zero state
(no threat ever leads to a new evaluation, no milestone is ever unlocked, the
evaluator's survival check always fires, the state's hash is constant). Further divergences met
while modelling, not given runs of their own:

- `service.go:143` speaks of a "Single Writer Action Bus", but an approved task
  is dispatched by the arbiter and by the queue; only the duplicate filter keeps
  the second dispatch from the bot (`SpentOnceDispatched`). The filter forgets an
  ID after ten minutes or a thousand others, and then a retry starts the action
  again on the same connection; and it knows dispatches only: a task that is preloaded may be started by a preload, end, be
  preloaded and started again, before its first dispatch arrives. The
  humanizer's idle drifts reach the queue without having been asked for
  (`OnlyApproved`).
- The retry budget is charged by every failure that a watchdog has been
  registered for, those of retries and second starts included, and these never
  ask the arbiter: a kind fails without bound (`service.go:326-376`). What the
  budget bounds is the lease (`LeaseWithinBudget`). No message reaches the
  call of `ResetRetries`, so that a kind once out of budget is denied for good; the
  failures a watchdog makes up carry no kind and are charged to the empty one,
  which nothing asks for.
- The panic cooldown and ESCAPE silence requests only: what is on the queue or
  scheduled goes on to the bot (`supervisor_actor.go:121-129`).
- `engine.go:142` ends a replaced maintenance loop quietly, but one whose
  context is cancelled aborts whatever is in flight, its successor included.
- `task_manager.go:342` leaves idempotency to wsActor, whose memory ends with
  the connection: a task may start once more after a reconnection.
- `service.go:109` drops plans while a reflex is active, but a plan that has
  passed that check is enqueued during the reflex.
- The server sends `{type: "dispatch" | "preload" | "abort", data}`, the bot's
  client listens for `DISPATCH_TASK`, `TASK_PRELOAD`, `ABORT_TASK` with
  `payload`. The models take the connection as both sides mean it.
- A panic published by the state service has no PANIC_RESOLVED when the bot
  itself does not panic: plans are dropped until a death or a later panic ends.
- `decision/service.go:138`: the failure of a plan's last task is counted and at
  once erased by RecordSuccess. The end of any task, also of another plan, asks
  for a new plan; an answer from the cache replaces the active plan by a clone
  of the same one with its completed tasks.
- `decision/service.go:161`: a trigger that comes during an evaluation is
  dropped, so that a plan made before a death is taken up after it.
- `planner.go:582`: the second look into the cache checks neither age nor
  failures. A best candidate without tasks becomes a plan without tasks, which
  nothing ever ends.
- `reducer.go:42` speaks of marking an area "permanently", but two handlers that
  overlap lose one update, and the list of zones is cut (`ForgetsOnlyByOverlap`).
  `main.go:167` overwrites the world nodes' scores of `state/service.go:102-114`.
- `eventstore/sqlite.go:243` speaks of draining safely; a batch that is flushed
  between the cancellation and the drain is inserted with the cancelled context
  and lost (`LogSpec` has it as excused).
- Four workers may store a TASK_END before its TASK_START, and a snapshot may
  fall between them: the attempt is not counted (never twice,
  `StatsNeverOvercount`).
- `event_normalizer.go` knows "PANIC", the bot sends "PANIC_TRIGGERED"
  (`client.ts:168`), which becomes "UNKNOWN". `TaskPipeline` takes a panic of the
  server as an outside event.
- `runner.go:44` counts the restart delay as time the process has been stable.
- `hub.go:112`: the branch for a registration after the shutdown is never
  reached; a client that registers then is not closed by the hub.
- `llm/client.go`: errors more than 30 seconds apart are not in a row, and a
  request times out after 120: time-outs alone never open the circuit. An expired opening forgets errors recorded since; the success
  of a request from before the opening closes the circuit.
- A failure wipes the dispatch queue, and an item popped while the bot is
  disconnected is dropped (`task_manager.go:344`, `396`), without a report to the
  decision layer.
- A connection that stops between its spawn and the assignment of `activeWS`
  stays the active one; `BrokenForgotten` therefore starts once it is assigned.

## 4. Proofs

All invariants that the runs check, all action properties and both refinements
are proved with TLAPS, for all constants that satisfy the named assumptions;
TLC evaluates these on every run of their modules.

| Proofs | Assumptions on the constants |
|---|---|
| `ExecutionArbiter_proofs` | finitely many tasks, a string for each kind, integer priorities (`TaskAssumption`); natural durations, below the cap of the ages (`DurationAssumption`); `FeedAssumption` |
| `TaskManager_proofs` | integer priorities, the curiosity item is one (`ItemAssumption`); there is a context (`CtxAssumption`); `BoundAssumption` |
| `EngineClients_proofs` | `EngineAssumption`: the names of nothing are no tasks and no contexts |
| `TaskPipeline_proofs` | `PipelineAssumption`: the same for tasks and items; `QueueAssumption` (for the theorems about its queue): integer priorities of the plans' tasks, there is a context, room for a copy |
| `ConnectionManager_proofs` | `ConnAssumption`: the same for connections; there is a first record |
| `DecisionLoop_proofs` | `DecisionAssumption`: a supply of IDs that is infinite or larger than the mailbox plus two; `EvaluationAccountedFor` needs none |
| `ServerParts_proofs`, `EventStore_proofs` | natural capacities and bounds, at least 1 for the duplicate filter, a batch and the breaker's limit; the bot's cell is a cell (`LedgerAssumption`, `ZonesAssumption`, `LimitsAssumption`, `BoundAssumption`) |

No module assumes that its sets of IDs, events, clients, connections, cells or
callers are finite, but for the arbiter's tasks.

**Arbiter.** `TypeCorrect`. `LeaseKeepsToBudget` (`LeaseWithinBudget`): a failure
sets the age of its kind's last failure to 0, below the age of any lease, and
both grow alike, up to the cap; a lease that changes hands goes to a kind that
is not barred, and no step but a failure bars one. `UrgentGetsLease` (`UrgentNotWithheld`) and `LeaseHandoverSafe`
(`LeaseHandover`): the invariant (`LeaseTermsInvariant`) ties the terms of the
lease to the tier of its holder. `ImplementsLease`: a step simulation.

**Dispatch queue.** `TypeCorrect`, `WakeupsKept`, `ContextsNeverLeak`,
`PoppedStaysUrgent`, `NothingPoppedIsLost` (`PoppedNotForgotten`), each from a lemma about one step, which the
pipeline uses again.

**Task engine.** `AlwaysWatched`: with the types of the record and the goroutines,
the property is inductive. A goroutine leaves only when the record is not its own
any more or is cleared in the same step.

**Pipeline.** `PipelineTypes`, `ApprovedOnly` (`OnlyApproved`) and `OneRetryPerStart`
(`RetryPerStart`) rest on two invariants. `ClearedInv` says of every place
an action can be in (heap, schedule, engine, outbox, connection, lease, timers,
unfinished handlers, the bot's slots and reports) that the action is approved or a drift:
`OnlyApproved` speaks of where the actions arrive, but an
action passes through all the others on its way. `RetriesCovered` hands the right to
one retry on: a start that the bot reports becomes a start being handled, that
a registered watchdog, that an end or a deadline being handled, that a retry.
For every ID, the retries made and owed, the watchdog and the start being
handled never exceed the starts whose report has been taken up, which are
counted as the starts made without the reports that wait (`Handled`; `CountAppend`
and `CountTail` say what one report more or less in the sequence does to that
number, and take the place of an induction over it). `DispatchIsSpent` (`SpentOnceDispatched`) goes
through every step of the bot, for as long as the filter remembers the dispatch. A stronger property stood here
before, a bound on the starts of an action by the number of connections. Its
proof failed for a good reason: the duplicate filter records dispatches only,
so that a task can be preloaded, started, ended, preloaded and started again
before its first dispatch arrives. The property was wrong and is gone.
The parts keep their promises inside the pipeline as well, with the callers they
really have. Every step of it is a step of `TaskManager` or leaves the queue alone
(`QueueMovesOn`), so that the lemmas of `TaskManager_proofs`, instantiated, give
`QueueKeepsItsWord` and `NothingPoppedIsLost`; every step calls the engine
with one of its actions or leaves it alone (`EngineCalled`), hence `FlightIsWatched`.

**Connections.** `ArrivesInOrder` (`DeliveredInOrder`) and `ReplacedStaysBehind`
(`ReplacedGetsNoNews`): the messages have numbers; `OrderInv` says that the
numbers fall along the pipeline from the manager's mailbox through a connection's
mailbox to what it received, that no number is with two connections, that a
connection registers once and nothing has gone through it before, and that what
has gone through the active one is newer than all that has gone through others.

**Decision loop.** `EvaluationAccountedFor` (`OneEvaluation`): the flag stands for one
planning goroutine or one answer in the mailbox. Two lemmas say where the
`PlanReady` messages stand after one is appended and after the head is handled;
they replace induction over the mailbox. `DecisionTypes`. `PlansStayApart`
(`NewPlanNewIDs`): beyond the types, `PlanInv` says that what runs has at most
two tags, the active plan's among them, that an answer on its way has one tag
and shares none with what is still reported, and that the mailbox is short;
counting the tags then leaves a fresh one.

**Parts of the server.** `PartSteps` reduces a step of `ServerParts` to one of
each part or a stutter.

- Duplicate filter: `MemoryIsBounded`, `NothingRepeatsEarly`, `ExpiredIsLetThrough`
  from `LedgerInv`: the key of an ID within its lifetime stands as many places
  from the end of the list as others have followed it, as long as these are fewer
  than the capacity. `Prefix` shows that what a cleanup pops is a prefix.
- State service: `ForgetsOnlyThen` (`ForgetsOnlyByOverlap`). `StateInv` says that
  a version is handed out once and that a handler whose base is still the current
  version holds a state that keeps the memory of the current one. The lemmas from
  `InOrderExists` to `MergeKeeps` are about `mergeDangerZones`: every key of either
  list is in the merged one with its highest risk, unless the list is cut.
- Event store: `StoreImplementsLog` (`LogSpec`): an event is in one place at a time
  (`OnePlace`), so that what is appended is new to the log; then a step simulation.
  `AttemptsNeverOvercounted` (`StatsNeverOvercount`): the attempts in the two halves
  of a log map one to one to attempts in the whole.
- UI hub: `HubNeverPanics` (`NoPanic`): a client registers once, and while it waits
  for that its channel is open. Circuit breaker: `OpenStaysSilent` (`OpenSilent`).
  Process supervisor: `KillsOnlyTheStarved` (`KillsOnlyStarved`). Flags:
  `NoSignalLost` (`SignalNotLost`). Danger FSM: `DangerIsFollowed`.
- `PartsTypes`: the types of all parts. For the event store the limits of buffer
  and batch need `StoreSizes` (a select begins with room in the batch); for the hub
  that there are finitely many members, since those dropped are enumerated.

Only model-checked: liveness (`QueueServed`,
`EndUnblocksQueue`, `BrokenForgotten`, `PlannerKeepsTrying`, `AcceptedSettled`,
`BrokenReleased`), which needs ENABLED and is out of the prover's reach, and the
four properties that the code violates.

## 5. Not modelled

Left out on purpose: prompts and the language model's answers, the delta
compression of its prompt, storage queries, scoring heuristics (`strategy`,
`scoreCandidate`, threat heatmap, world model), the path by which the bot reports
a result after its abort signal (`index.ts:431`: its outcome is among the
failures of `BotFinishes`), two writings of the flags' file within the
granularity of the file system's clock (`DynamicFlags` assumes that every writing
has a later time), the tasks and movement of the bot
and its control loop as game logic, the sockets and timers of its network client,
the browser UI, offline tools, shutdown paths of the execution core, the `degrade`
strategy, the death-loop filter (one more way to drop a plan), wording and
logging.

Not reached by the program as wired, and so not modelled: ModeManager,
HTNPlanner, StrategyPredictor, FeedbackAnalyzer, PolicyExtractor, RouteScorer, the
trigger of SlowReplanLoop, FastPlan, WarmNextPlan, RecordSkillResult; curriculum
and critic serve the offline training tool only.

Next: modules for what has a hazard and no property yet, the bot's client with
its reconnections and its overlapping control ticks first, then what is lost
when a failure wipes the heap.
