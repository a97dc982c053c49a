# TLA+ verification of the C foundation and the Domain Service

This directory holds TLA+ models of the concurrent and event-driven parts of the
repository, TLC configurations that check them on small instances, and TLAPS
proofs of the properties that should hold at every size. Paths below are
relative to the repository (`src/domain/...` means `src/src/domain/...` when
`src/` is the checkout).

Run a configuration with `tlc -config X.cfg M.tla` and check a proof module with
`tlapm M.tla`. `PROJECT.json` maps every definition to the lines it models, and
lists the runs, the hazards, the mutants and the theorems.

## 1. Inventory

| Component | State | Operations | What makes it correct |
|---|---|---|---|
| Event queue `foundation/event/src/utility_event_queue.c` | caller's storage, `head`, `tail`, `count` | init, push, pop, clear, count, `is_full`, `is_empty` | A bounded FIFO: no slot is lost or read twice at wrap-around, full and empty. |
| Event dispatcher `utility_event_dispatcher.c` | caller's subscription array, `dispatching` | subscribe, unsubscribe, dispatch (a scan that calls handlers) | Every matching handler once, in order of registration, array unchanged during the scan. |
| Event publisher `utility_event_publisher.c` | queue, payload slots and their flags, dispatcher, `dispatching`; lock callbacks | publish, publish_copy, subscribe, dispatch with a budget | Events leave in the order they came, each with its own payload until its handlers returned, nothing lost or leaked. |
| Event timer, executor | timer slots with deadlines; timers + queue + dispatcher | start, restart, cancel, process; run_once with two budgets | Deadlines do not drift, overflow or starve; an event that cannot be queued stays due. |
| Event state machine `utility_event_state_machine.c` | current state, `dispatching`, a trace; two static tables | init, dispatch with guards, hooks and actions, set_trace | Hooks, state and trace tell one story although callbacks call the machine back. |
| Event contract `utility_event_contract.c` | a static table | validation of an event | An event is checked against the entry of its id. |
| Event buffer `utility_event_buffer.c` | envelopes that own a pool's handle, a queue they are moved through | create_copy, release, push_move, pop_move, release_all, read | Every block has one owner, which can release it; the content is what the envelope was created with. |
| Event metrics, trace | saturating counters, a sink callback | record, report a transition | No overflow; the sink is told every transition. |
| Thread pool `foundation/thread_pool/src/utility_thread_pool.c` | job ring, state, worker threads, which primitives exist, how many workers were created and joined | init, submit, shutdown drain/immediate, join, destroy; `worker_main` | Jobs start in order and run once; a drain loses none; join settles all; no lost wakeup; failing pthread calls can be retried. |
| Mock Unit `src/unit/unit_mock.c` | mutex protected output and input flag, result handler, worker thread | create, write_input, set_result_output, read_output, destroy; worker | One accepted input, one operation, one result, destroy waits for it. |
| Domain Service `src/domain/domain_service.c` | three runners with their machines, output snapshot, workflow catalog, publisher | create, write_input, read_output, load_workflows_json, process, destroy; nine event handlers | Every accepted request ends with one true report, however units, timeouts and Control interleave. |
| Domain Event Publisher `src/domain/domain_event_publisher.c` | a mutex around the event publisher | publish, dispatch, unit result callback | As the event publisher, with 32 events. |
| Workflow definitions, loader `domain_workflow.c`, `domain_workflow_loader.c` | a catalog of scenarios on the heap | load from JSON, find, destroy | A file is accepted exactly if it says what the schema allows, and read as it says; no block leaks or is freed twice. |
| Logger `foundation/log` | RAM ring with sequence numbers, two outputs with levels, a default logger; lock callbacks | init, write, set_console, set_ring, read, dump, clear; `ut_log_initialize`, `ut_log_shutdown`, the `UT_LOG` macros | The ring holds the newest chosen records in order, overwritten ones are counted, and a reader never goes back. |
| Memory buffer `memory-buffer` (Rust, C adapter) | arena, slot table, generations, map state | init, reset, alloc, free, write, read, set_length, map, unmap | Stale handles refused; no overlap; no change while mapped. |
| Retry policy `foundation/retry`, id `foundation/id` | policy and attempts; a counter | init, begin_attempt, failure, success, reset; next | The delay doubles up to its limit without wrapping; ids differ and are never 0. |
| Byte reader, writer `foundation/byte` | a cursor on the caller's buffer | read and write integers of either byte order | What is written is read back; nothing outside is touched. |
| Time `foundation/time`, Linux time `platform/linux` | - | arithmetic, conversions, RFC 3339, clock snapshots | Exact, or refused; never an overflow. |
| Time service `service/time` | UTC and tick of the last synchronization, source, two flags | init, update, set_unavailable, now, status | Answers keep pace with the monotonic clock, whatever ticks callers bring. |
| Samples, tools | - | demonstration and build checks | - |

How they interact. A Unit's worker thread calls
`domain_event_publisher_on_unit_result`, which publishes `UNIT_COMPLETED` or
`UNIT_ERROR` under the publisher's mutex. Control's thread calls
`domain_service_process` every 50 ms: it starts a waiting workflow, publishes a
`STEP_TIMEOUT` that is due, and dispatches. Handlers run on Control's thread,
publish the next event (sequence to scenario to feature to control) and write a
unit's input; the last one calls Control's own callback, which may call the
service again. The shared state is therefore the publisher's queue and each
unit's snapshot; everything else in the service belongs to one thread.

What is hard here: results that arrive after their step timed out, timeouts queued
behind the completion they should not override, callbacks that call back, slots
freed and reused around a handler that still reads them, wakeups and shutdown with
failing pthread calls, a catalog built half way when an allocation fails, threads
that write a log ring while another walks it. `PROJECT.json` lists each at its
line under `hazards`, with the property that covers it or the reason none does.

Contracts the headers state, and the models assume: one thread dispatches while
many publish (`domain_event_publisher.h:70`, `utility_event_publisher.h`); nobody
uses an object that is being destroyed; management calls of a thread pool are
serialised and no submit runs during init, join or destroy
(`utility_thread_pool.h`); Control destroys the service in a terminal state only
(`domain_service.h:153`). The tables given to a state machine satisfy what its
init checks; in this program none has an internal transition that changes the
state, which would leave the hooks behind, and the model assumes so. Its guards
are predicates; one that dispatched would not be refused: see section 4, State machine.

## 2. Modules

```
 RingQueue ---- EventQueue ---- (refines) BoundedFifo
     |  \
     |    ThreadPool
     |
 EventPublisher -- EventDispatcher -- EventExecutor -- EventContract
     | (refines)                           |
     |                                 EventTimer ---- (refines) AlarmClock
 EventChannel <--- (built on) --- DomainService --- UnitMock --- UnitMockClient
                                       |
 JsonText ... WorkflowJson - WorkflowLoader - DomainWorkflows

 Logger ---- (refines) LogTail         EventStateMachine
 UtcTime - PlatformTime - TimeService  RetryPolicy, ByteCursor, Rfc3339

 RingQueue -- EventBuffer -- MemoryBuffer ---- (refines) BlockStore
```

The proofs about RingQueue are in RingQueueProofs; those about EventQueue,
Logger, EventStateMachine, TimeService and RetryPolicy in FoundationProofs;
those about ThreadPool, EventPublisher, EventExecutor (with EventTimer), UnitMock
(with UnitMockClient), EventBuffer (with MemoryBuffer) and DomainService in a
module of the same name with `Proofs` appended.

- **RingQueue**: the index arithmetic the event queue and the pool's job queue
  share: `Push`, `Pop`, `Clear`, `IsFull`, `IsEmpty` as operators on a record of
  `storage`, `head`, `tail`, `count`. `Items(q)` reads the queued items in order.
- **EventQueue**: one action per call and outcome, `FULL` and `EMPTY` included;
  the last result and popped event are kept because callers see them.
  **BoundedFifo** is the promise: a sequence of at most `Capacity` items.
- **EventDispatcher**: `subscriptions` is the caller's array, `round` the scan of
  a dispatch in progress. One step is one handler call, so what handlers do falls
  between the steps. `registered` and `called` are history.
- **EventPublisher** extends both: a step is one critical section between the
  lock callbacks, or one handler call outside the lock. `payload_storage` and
  `occupied_storage` are the arrays of the code, a descriptor's payload is the
  slot it points to. Because publishing is always enabled between two steps, a
  handler that publishes and another thread that publishes are the same case.
- **EventChannel** is what the publisher promises: `pending` events by value and
  the one `held` while its handlers run. **DomainService** uses its operators in
  place of the queue, slots and flags.
- **EventTimer** extends RingQueue: `slots` are the scheduler's timers, `scan` the
  loop of `process()`, one step per slot. Ticks run to `MaxTick`, which stands for
  `UINT64_MAX`; `Advanced` is the arithmetic on periodic deadlines as the code
  does it, with its check against the end of time. **AlarmClock** is the promise:
  an alarm per id that is set again to its first multiple in the future.
- **EventContract**: the table's conditions as an assumption (they are checked
  once, by init) and `Conforms`, the check of an event against it.
- **EventExecutor** extends the timer, the dispatcher and the contract:
  `executor` is the position of `run_once()` and its report. Handlers may set and
  cancel timers, publish, clear the queue and call `run_once()` back; between
  calls the application may do the same, subscribe and dispatch directly. Timers
  and a contract table are attached: without timers the code behaves as with none
  active, without a table as with one that lists every event.
- **ThreadPool**: `manager` is the position of the one management call under way,
  `worker` and `job` where every thread is. Every pthread call that can fail is
  an action of its own with a failing twin. `accepted`, `started`, `finished` and
  `discarded` are history.
- **UnitMock**: the unit's snapshot, the worker's position (waiting, operating,
  finished but still to read the request id, notifying) and a thread in destroy.
  **UnitMockClient** adds arbitrary callers.
- **DomainService** extends UnitMock. A step is a public call up to its next
  access to shared state, or one handler; units take, finish and report between
  any two. The nine handlers, `domain_publish`, `sequence_start_step` and
  `sequence_publish_error` are actions and operators under their own names.
  A deadline is a uint64_t sum and wraps (`Deadline`); the unit check of
  `sequence_start_step` (`domain_service.c:309`) never fails, since the loader
  checked the same number against the same array. `machine` holds the three
  runners' state machines: their table is
  IDLE -START-> RUNNING -COMPLETE-> COMPLETED, RUNNING -FAIL-> ERROR.
  `purpose`, `succeeded`, `requests` and `reports` are history.
- **MemoryBuffer**: `slots` and `arena` as in the Rust context, one action per
  call that changes them; a handle is a slot's index and generation. The first-fit
  search is stated by its result: the first of offset 0 and the ends of blocks
  where the capacity fits. **BlockStore** is the promise: blocks of their own
  memory, each changed through its own handle, a mapped one through its mapping
  only.
- **EventBuffer** extends the memory buffer, as the pool the adapter makes of it,
  and the ring; `memory_buffer_event_adapter.c` forwards each call and translates
  its result code, so an action calls the pool itself. `envelopes` are the
  caller's, `direct` the handles the application allocated for itself and still
  keeps. `copied` is history.
- **JsonText** is the lexical level of the workflow loader: where the validator
  and where the tokenizer ends a number, a literal or a string, as two scans over
  characters, each one standing for those no branch tells apart. **WorkflowJson**
  is the structural level: validation, the flat token array with its parent
  indices, and the searches through it. **WorkflowLoader** holds the schema
  parsers, each taking the heap and returning it, so that every `malloc` that may
  fail and every `free` is there; then build, find and destroy.
- **DomainWorkflows** puts the loader under the service: `CatalogOf` is what the
  service sees of a loaded catalog, `WorkflowFeatureA` the built-in one. It also
  adds a caller that loads any file, with any allocation failing, and destroys
  what it got, before a service exists. `Conforms` says which descriptions the
  schema allows, without a parser.
- **EventStateMachine**: `frames` are the dispatch calls under way, since a trace
  sink may dispatch again (it runs after `dispatching` was reset) and so may a
  guard (it runs before `dispatching` is set), if `GuardsDispatch` says so; hooks
  and actions that call back are answered BUSY. Each guard is a step of its own,
  after which the lookup goes on with the state the machine is in then. `entered`,
  `told` and `unbroken` are the history of what hooks and sink observed.
- **Logger**: a step is one critical section; `writing` is where a thread is
  between the level check and the write of a `UT_LOG` macro, `reading` a thread
  that reads by rising index. **LogTail** is the promise: a sequence of the newest
  `LogCapacity` records, the number lost, the next sequence number.
- **UtcTime** and **PlatformTime** are the functions on times and clock
  snapshots, with int64_t scaled to `-MaxInt-1 .. MaxInt` and a second of
  `NsPerSecond` nanoseconds; every check against an overflow is there.
  **TimeService** adds the service; `clock` is the system's monotonic clock and
  callers may bring any tick it has shown.
- **RetryPolicy** is the retry state; **ByteCursor** the reader and writer with
  `ByteBase` values per byte, and the id generator; **Rfc3339** the calendar and
  the fields of a timestamp, with a real second.
- **MCFoundation** checks the libraries that share no state together: `subject`
  picks the one that moves. No action of one reads a variable of another, so a
  product would add interleavings and no behaviour of any of them. Its
  assumptions compare the pure functions with their definitions.
- **MC...** modules give the small instances.

Operators and actions commented "Mistake" are plausible bugs used to show that
each property can fail; no specification refers to them.

## 3. Runs

| Run | Bounds | What it shows |
|---|---|---|
| Foundation | queue: 3 events, capacity 3; log: capacity 2, 2 levels, 3 settings, 2 writers, 4 records; machine: 3 states, 5 rows, 2 events, 3 nested dispatches; time: 8 int64 values, 8 ticks, 3 ns to the second, 5 UTCs, 2 sources; retry: 5 delays and limits, at most 5 attempts | Every answer of the queue is the bounded FIFO's (`RingCoherent`, `ImplementsFifo`); the log ring implements LogTail and `ReaderMovesForward`; hooks, state and trace of a machine agree (`MachineAsObserved`); the time service's `AnswersKeepPace`; `BackoffGrows`. |
| EventPublisher | queue and slots 2, 3 subscription slots, 2 event ids, 2 payloads, budget 2 | Slot flags match live descriptors exactly; the publisher implements EventChannel; pending events are delivered; calls follow registration. Full queue, full slots and bare events that fill the queue all occur. |
| EventDispatcher_order | 3 slots, 2 ids, 2 handlers | *Violated*: after unsubscribe the freed slot is reused and a younger subscription is called before an older one, against the header. |
| EventExecutor | 2 timers and slots, ticks 0 to 3, queue 2, 1 subscription slot, 2 event ids, 2 contracts, budget 2 | Slots, ring and deadline arithmetic implement AlarmClock; ids stay unique; after the timers were processed nothing is overdue unless the queue is full; every event is accounted for in the report; `run_once` returns. |
| UnitMock_any | 1 unit, 3 requests | Inputs are neither lost nor doubled, all are reported, destroy waits and returns, under spurious wakeups. |
| UnitMock_stale | as above | *Violated*: a result carries the id of an input that was accepted after the worker released the mutex and has not run. |
| DomainService | 2 units, 2 requests, 2 catalogs of 2 workflows with 2 steps, timeouts of 1 tick and of the largest uint64_t, 5 id and 7 clock values, queue 7, budget 3; files: 123 descriptions, each with at most one field off, and 11 broken files, allocations up to the 15th failing | One token of the workflow exists and the runners agree with it, reports match requests, a terminal output stays, no pointer to a freed publisher or catalog is followed (`PointersAreLive`) although creation may fail at any unit and be tried again, and every request is reported even when units hang. The loader accepts what the schema allows and reads what the file says (`LoadFollowsSchema`); its heap is balanced (`HeapBalanced`). |
| DomainService_timeout | same | *Violated*: a stale `STEP_TIMEOUT` fails the following step before its deadline. |
| DomainService_identity | same | *Violated*: a late result completes another unit's step in the next request. |
| DomainService_context | same | *Violated*: destroy after a timeout frees the publisher a working unit still reports to. |
| ThreadPool | 3 workers, queue 2, 4 jobs | Order, single execution, settlement at join, no thread without primitives, enough wakeups, termination after shutdown, across failing and repeated calls. |
| EventBuffer | 2 slots, 3 bytes of 2 values, 2 generations, 1 envelope, queue 2, 1 handle kept by the application | Blocks lie in the arena and apart (`BlocksInArena`); every block has one owner, whose handle is accepted, and envelopes keep their content (`OwnersHoldBlocks`); slots and arena implement BlockStore. |

Why the bounds are enough. Two slots already give every relation of head, tail and
full or empty; with three the ring wraps at every offset. Three workers and a
queue of two allow two waiting workers with one running, and more jobs than slots.
Two requests are the least in which a result can outlive its request, two units
the least in which it can reach a step of another unit, and two steps the least in
which a step can follow another, across sequences (built-in catalog, which halves
the units) or within one (loaded catalog). Five id values for the 32-bit space
make the sum of `sequence_start_step` wrap, and a step with the largest timeout
makes the deadline wrap when the clock is not 0: it is overdue at once, and its
request ends with an error unless the unit is faster. The real service has ten
units and 32 events; queue 7 for two units is as tight, since each worker holds or
queues at most two results and the workflow one event and one timeout. Ticks 0 to
3 with periods 1 and 2 reach late calls over several periods, a deadline that has
no next multiple and, with a deadline of 0 at the last tick, a count of missed
periods that exceeds the type; two slots with a queue of two let a timer meet a
queue that another has just filled. Two slots on three bytes give blocks side by
side, gaps that are too small, and slots whose order is not the order of their
blocks; two generations wrap after two frees of a slot, so every handle that is
kept meets the next block of its slot. A log ring of two overwrites after two
records and goes round twice within four (`MaxSequence`); three nested dispatches
are a sink in a sink in a dispatch. Three nanoseconds to the second and a range of
-4 to 3 give both signs, each remainder and a carry at both ends of the range; the
proofs cover every width. The files vary one field of a two-workflow file at a
time over absent, zero, one past the type's end, not an integer, empty, escaped
and named like a key; the longest load makes fewer than 15 allocations. The
validator and the token array are compared with JSON values of depth two over all
texts of up to five lexemes, and the two scans over all texts of up to five
characters. Counters that would grow are bounded by their inputs: each request id,
unit request and job is used once (a pool may be initialized again and run them
anew), and the clock only advances while a running step is not overdue, since
`process` is its only reader and compares it to that step's deadline.

### Functions

TLC evaluates these assumptions with the run of their module.

| Assumption | Says |
|---|---|
| `ArithmeticIsExact` | Add and subtract answer exactly when the result has a representation, and with it; compare orders by value. |
| `UnitsComeBack` | A count of ms, us or ns becomes a time and the same count again, except counts below the last whole second of the range: `to_units` compares with the truncated `INT64_MIN / units` and answers OUT_OF_RANGE for those, though they fit. |
| `SnapshotsAreExact` | A `clock_gettime` answer becomes a tick or a UTC exactly, or is refused. |
| `CalendarIsRight`, `FormatComesBack` | Civil dates and days since 1970 agree with counting days, and what is formatted is parsed back. |
| `BytesComeBack`, `IdsDiffer` | Integers are read back in their byte order and leave their neighbours alone; a cycle of ids has no 0 and no repetition. |
| `DocumentsAreValues`, `DepthIsBounded`, `ScansAgree` | The validator accepts exactly JSON values up to its depth, their tokens are where the searches expect them, and both scans end a lexeme at the same place. |
| `FileIsRead` | The catalog of the service's runs is what the loader makes of its file. |
| `WidthsAgree` | The service and the loader use the same scaled integers. |

Two answers of the loader that a reader may not expect are part of the model:
keys and values are siblings in the token array, so a name that equals a key of
its object counts as a second occurrence of that key and the file is refused
(`Ambiguous`), although `domain_workflow.h:36` and `:50` call the names diagnostic;
and a name that cannot be copied for lack of memory is reported as SCHEMA_ERROR.
Because `LoadFollowsSchema` expects the first, it says nothing against it.

`CHECK_DEADLOCK FALSE` is set where the system may stop: a destroyed service or
unit, a pool whose jobs are used up.

### Fairness

- EventPublisher: weak fairness of the dispatching thread. Its owner calls
  dispatch in a loop, and handlers return.
- EventExecutor: weak fairness of the thread inside `run_once` or a direct
  dispatch; handlers return, but may publish and set timers first. Nobody is
  obliged to call `run_once`.
- Foundation: none; its properties are safety.
- UnitMock, ThreadPool: weak fairness of every thread. The scheduler runs
  runnable threads and operations return (the mock's operation is a sleep, a
  pool's callback is required to return). A waiting thread takes a step only when
  signalled; spurious wakeups occur but carry no fairness, so liveness never
  rests on them.
- DomainService: Control calls `process` again and again (the sample does, every
  50 ms), its handlers return and its clock runs. Units have **no** fairness: an
  operation may hang, and `RequestsAreReported` must follow from the timeout.

The memory buffer and its envelopes have safety properties only.

Nobody is obliged to publish, submit, write, shut down or destroy.

## 4. Proofs

Each theorem holds for every value of the constants that satisfies the named
assumptions of the modules.

| Theorem | Shows |
|---|---|
| `FoundationProofs!QueueStaysCoherent` | types and `RingCoherent` of the event queue |
| `FoundationProofs!QueueImplementsFifo` | the queue refines BoundedFifo |
| `FoundationProofs!RingImplementsLogTail` | the log ring refines LogTail |
| `FoundationProofs!ReadersMoveForward` | `ReaderMovesForward` |
| `FoundationProofs!ObserversAgree` | types and `MachineAsObserved` of the state machine, if its guards do not dispatch |
| `FoundationProofs!AdditionIsExact`, `SubtractionIsExact` | `AddNormalized` and `Subtract` answer exactly when, and with what, integer arithmetic says |
| `FoundationProofs!ServiceKeepsPace` | types and `AnswersKeepPace` of the time service |
| `FoundationProofs!DelaysDouble`, `BackoffAlwaysGrows` | what `Doubled` computes in its loop, and `BackoffGrows` |
| `ThreadPoolProofs!PoolTypeCorrect` | the pool's type invariant |
| `ThreadPoolProofs!JobsStartInOrder` | `JobOrder` |
| `ThreadPoolProofs!JoinSettlesJobs` | `JoinedIsSettled` |
| `ThreadPoolProofs!WorkersHavePrimitives` | `NoWorkerWithoutPrimitives` |
| `ThreadPoolProofs!JobsRunOnce` | `StartedRunsOnce` |
| `ThreadPoolProofs!NoWakeupIsLost` | `WakeupsSuffice` |
| `EventPublisherProofs!SlotsFollowDescriptors` | types and `SlotsMatchDescriptors` of the publisher |
| `EventPublisherProofs!PublisherImplementsChannel` | the publisher refines EventChannel |
| `EventExecutorProofs!TimersHaveUniqueIds` | types and `UniqueIds` |
| `EventExecutorProofs!ReportAddsUp` | `EventsAccounted` |
| `EventExecutorProofs!PassServesAll` | `NothingOverdue` |
| `EventExecutorProofs!TimersAreAlarms` | timers, ring and deadlines refine AlarmClock |
| `UnitMockProofs!InputsAccounted` | `EveryInputAccounted` |
| `UnitMockProofs!DestroyIsLast` | `DestroyAfterLastResult` |
| `UnitMockProofs!ResultsAreAttributed` | `ResultNamesFinishedRequest`, if callers wait for a result before the next input |
| `EventBufferProofs!BlocksStayApart` | types and `BlocksInArena` of the memory buffer |
| `EventBufferProofs!BlocksHaveOneOwner` | `OwnersHoldBlocks` |
| `EventBufferProofs!BlocksAreSeparate` | the memory buffer refines BlockStore |
| `DomainServiceProofs!OneTokenPerWorkflow` | `WorkflowToken` |
| `DomainServiceProofs!RunnersInStep` | types and `RunnersAgree` |
| `DomainServiceProofs!OutputTellsTheTruth` | `TerminalOutput` |
| `DomainServiceProofs!OneReportPerRequest` | `ReportsMatchRequests` |
| `DomainServiceProofs!NoPointerDangles` | `PointersAreLive` |
| `DomainServiceProofs!TerminalOutputStays` | `TerminalIsFinal` |
| `DomainServiceProofs!QueueNeverFills` | `QueueHasRoom`, if queue and budget suit the units |
| `DomainServiceProofs!ServiceIsCorrect` | the six above together, under that condition alone |
| `DomainServiceProofs!OneUnitAtATime` | `SequentialUntilTimeout`, under that condition |

Assumptions. They are the named ones in the modules: capacities, worker counts and
budgets are positive, a mark for "nothing" is not an item, time and ticks are
bounded integers, and `DomainAssumption` says of a catalog what the loader checks
of a file (no empty sequence, a step count that counts). Some theorems have a
further hypothesis: `ResultsAreAttributed` assumes that callers wait, because
UnitMock_stale shows the property fails otherwise; `ObserversAgree` that guards do
not dispatch (see State machine); six
theorems about the service assume `[]QueueHasRoom`, and the other three
`QueueSuffices`, a condition on the constants that implies it: finitely many
units, a queue longer than twice their number plus five, and a dispatch budget of
at least that. The code has a queue of 32 (`domain_event_publisher.c:11`) and a
budget of 32 (`domain_service.c:22`), and its sample ten units: 25 is below both.
Thirteen units are the most the condition allows; with more, the six theorems
still say what holds while there is room.

**Ring.** `RingQueueProofs` says that a push appends to `Items`, a pop takes its
head, clear empties it, and `tail = (head + count) % Capacity` is preserved. It
also proves `LeastElement` and `SetInduction`: the library's induction theorems
take a predicate, which no installed prover can instantiate, but induction on a
set of numbers needs no predicate. The executor's proofs about the loop over the
slots and the first multiple of a period, and the retry policy's about the loop
that doubles, rest on them.

**Pool.** The inductive invariant `PoolInv` adds to the properties what makes
them inductive: which threads exist (exactly the created ones, and the joined
ones have exited), which primitives each state and each position of the manager
implies, that pending and discarded jobs are the rest of the accepted ones, and
that an exited worker saw the queue empty or dropped. `JoinedIsSettled` is not
inductive by itself: that no job is pending after a join follows from the workers
having exited, hence from what they saw before. `WakeupsSuffice` counts:
while a worker sleeps, the ready ones are at least as many as the pending jobs. A
submit adds a job and wakes a sleeper, if there is one; a worker that takes a job
removes one of each; a worker only goes to sleep when it saw the queue empty.

**Publisher.** `PublisherInv` is inductive with two additions: the ring is
coherent, and a handler only runs inside a dispatch. Its argument reads `Live`,
the held descriptor followed by the queued ones: a publish appends to it, a pop
leaves it as it is (the oldest queued descriptor becomes the held one), a release
removes its first element. For the refinement a write to a free slot changes no
live descriptor's value, and a free slot implies room in the channel: the events
with a payload map one to one into the other slots (`FreeSlotIsRoom`). It follows
that the error branch of dispatch for a descriptor without a valid payload is
never taken (`PopFindsPayload`).

**Timers and executor.** `ExecInv` is the conjunction of four invariants, of the
timers, the ring, the dispatcher's scan and the executor's counters. `Served`
says that every slot the scan has passed is not due, unless the queue filled up,
which is what makes `NothingOverdue` hold at the end of a pass although handlers
may start timers between passes. For the refinement `AdvancedSetsFirstMultiple`
shows that `Advanced`, with its division of the missed time and its check against
the end of time, yields the first multiple of the period in the future.

**Unit.** `UnitInv` relates flag, worker, destroyer and history: an input is
waiting, in the worker's hands or reported, and the status is RUNNING exactly in
the first two cases. That the reported id is the right one needs the callers'
discipline, since `unit_mock_notify_result` reads it after the unlock.

**Domain Service.** The inductive invariant `DomainInv` says where a workflow is
(`Progress`): accepted and not started (`Fresh`), waiting for its step
(`Waiting`), between two runners with one event queued (`UnderWay`), or ended
(`Over`). The places have what the handlers rely on: `Standing`, that the counted
steps are exactly the positions before the sequence runner's place, so that
COMPLETED comes with all of them counted; the machines' states, so that no signal
is refused; and the event's id, error and request. `Pointers`, `Requested` and
`Reported` relate the runners to the catalog, the request and the history. One
lemma per handler shows that it leaves the workflow in one of the places; each
result or timeout that is not awaited leaves everything but the queue alone
(`OthersKeep`). The counting is one lemma, `OneMoreBefore`, and its case at the
end of a sequence, `BeforeNextSequence`.

`QueueHasRoom` says that one more event would fit in the publisher's queue while
a handler runs. Without it `domain_publish` gives the workflow up with ERROR and
INTERNAL, publishes nothing and reports nothing, so four of the six properties
fail at that point. Run DomainService checks `QueueHasRoom` in every state, as a
conjunct of `RunnersAgree`, with a queue of 7 and a budget of 3 for two units and
two requests, smaller than `QueueSuffices` asks, so that passes end at their
budget; `QueueNeverFills` proves it from `QueueSuffices` for any number of
requests. The difficulty is that late results of earlier steps and requests add
to the queue, in an order that depends on when units return. `LoadInv` counts
them. A unit owes an event from the input it takes until it told the result, at
most two at a time (`Owed`), since it may take the next input while its worker
tells the last result. Between two steps one event from runner to runner is
queued, and units get no input until it is handled: the results queued behind it
were owed when it was published, so there are at most twice the units of them,
and those before it are handled by then. The step it starts adds one more debt
(`ResultsBounded`). Of timeouts, one is published for a step, and by the time the
next step can time out the previous one has been handled, except at the edge of a
dispatch's budget; two is the most (`TimeoutsBounded`). With the runners' event
at most 2 * units + 4 are queued, and one is held by the dispatcher.

`SequentialUntilTimeout` needs `SoloInv`: while no request timed out, the units
with an input, those with a result to tell and the queued results are one between
them (`Alone`), and none at all when no step is running (`Quiet`), until the
timeout's own error is on its way; whoever has the step has it for the one after
the counted ones (`Earned`). So a unit's result never counts a step it was not
asked for, and `unit_mock_write_input` never finds a unit busy. That needs both
earlier invariants: `UnitShape` ties `RUNNING` to an unfinished input, and
`Waiting` has the step that is asked for.

**Memory buffer.** `BlocksInArena` is inductive as it stands. Three lemmas carry
it: a block placed in the region `find_region` returns overlaps none
(`RegionIsFree`, `PlacedKeeps`: a block before the candidate would overlap the
one whose end the candidate is), giving any set of unmapped blocks back
(`GivenBackKeeps`), and adjusting length or map count of one block
(`AdjustedKeeps`). Every action is one of the three.

`OwnersHoldBlocks` is not inductive: an allocation gives a slot's present
generation away as a handle, and nothing in it says that no forgotten copy of that
handle is still in an envelope, in the queue or with the application. `OwnersInv`
adds it: a slot in use has one owner (`Sole`), and the handle a free slot would
give has none (`Nobody`). A release makes the next generation current, which
nobody remembers (`ForgottenInTime`); that the old handle still is in an
application's hands after `mb_free` does no harm, since it is never current again
before it is forgotten. `ContentsInv` rests on the blocks being apart: a write
goes to a block the application owns, hence to no envelope's.

For the refinement each call is one step of BlockStore on one block
(`PlacedIsCreate`, `WriteIsWrite`, `SetLengthIsSetLength`, `MapIsMap`,
`MappedStoreIsChange`), or gives a set of blocks back (`FreedIsGiveBack`). The
bytes of the other blocks stay (`OneBlockChanges`) because the blocks are apart.
`BlockAssumption` says that the mark for "no block" is not a block.

**Log.** `LogInv` says that sequence numbers rise through the ring, up to the
next one, and that what a reader has not come to yet is newer than what it read
last (`Ahead`). An overwrite moves every record one index down, so the reader can
only skip records; a clear leaves nothing ahead, and whatever is written then has
a higher number, because clear does not restart the numbering. Two lemmas on
`RingPush` (with room, and full) carry both this and the refinement.

**State machine.** `MachineInv` describes the stack of dispatches: at most one
frame, the top, is before its return to idle, all others wait in their sink. While
the top is in a guard nothing moves, so the row it allows still starts in the
current state; `TriedKeepsInv` is the step into a row, at the start of a dispatch
or after a guard refused. A frame between exit and entry has removed the current
state from `entered`; one in a sink has given the machine back, which is why a
dispatch from the sink finds it between two transitions. A dispatch from a guard
does not: `find_transition` runs before `dispatching` is set
(`utility_event_state_machine.c:248`), so it is let in, the machine leaves the
state, and the row the guard then allows is executed all the same, with an exit
hook of a state that was left already. With `GuardsDispatch = TRUE` in
`Foundation.cfg` TLC refutes `MachineAsObserved` so. A guard gets a const machine
and none in this program does it; no document forbids it.

**Time and retry.** `AdditionIsExact` goes by the signs of the two seconds and
the carry, for each branch of the C code; the largest carry case, where
`right_seconds` is already INT64_MAX, is a branch of its own. `AnswersKeepPace`
then follows from the division of the elapsed ticks, as the service only adds
ticks to its last UTC. `DelaysDouble` is by induction over the turns of the loop: the
delay doubles, or was past half of the limit and becomes the limit, so the
comparison in the code comes before any overflow.

Only model-checked, and why:

- liveness, which rests on fairness and ENABLED (`RequestsAreReported`,
  `AcceptedIsSettled` and the like): out of the prover's reach;
- the order in which the dispatcher calls handlers;
- everything about the workflow loader and the scans, whose parsers are
  recursive, and the conversions between bytes, text and calendar.

## 5. What is not modelled

- Rejected arguments (NULL, wrong sizes, unknown conditions): they change nothing
  in the code and are left out, except answers that depend on state.
- Failing creation of units and of the publisher: nothing is left behind.
- Payload bytes and sizes, names, wording of logs.
- In JSON text, what a character is beyond its class; the file system beyond
  readable, short and unreadable.
- In `MCFoundation`'s log, the texts, line and timestamp of a record; the console
  output, one formatted write.
- Handles kept while their slot is freed 2^24 - 1 times: the generation comes
  round and they are accepted again. The model assumes they are forgotten before
  (`ForgottenInTime`). `mb_reset` under envelopes is modelled; their handles are
  refused from then on.
- `mb_read`, `mb_get_info` and reads of an envelope: they change nothing, and
  `OwnersHoldBlocks` says what they return.
- `output` fields that report positions and names and that no handler reads.
- Metrics, the executor's included, and `trace_log`: saturating counters and a
  sink that formats. What a sink may do is part of the state machine's model.
- The characters of RFC 3339 text, and copies of memory by the byte reader and
  writer: sequential, and covered by unit tests.
- `set_result_output` while the unit's worker reads handler and context outside
  the mutex: the models register a handler before a unit has input, as the
  service does. A torn pair is a hazard listed without a property.
- Samples, fuzz targets, build files and tools.

## 6. Plan

Every component with a state of its own is modelled. What a further round would
take up, in this order:

1. A second handler in `UnitMockClient`, for the unprotected read of
   `result_output`.
2. The wrap of the memory buffer's generations, without `ForgottenInTime`.
