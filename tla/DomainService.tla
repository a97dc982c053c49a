--------------------------- MODULE DomainService ---------------------------
(***************************************************************************)
(* The Domain Service: three runners (Feature, Scenario, Sequence) driven  *)
(* by events from one publisher, on the Control thread, while the Units    *)
(* report results from their own threads.                                  *)
(*                                                                         *)
(* A step is one public call up to its next access to what threads share,  *)
(* or one event handler: each accesses at most one unit and publishes at   *)
(* most one event. Each public call is made by Control's only thread.      *)
(*                                                                         *)
(* Left out of output and payloads: the positions and names no handler     *)
(* reads. The feature is always FEATURE_A, a handler is registered, and    *)
(* rejected arguments change nothing.                                      *)
(***************************************************************************)
EXTENDS UnitMock, Sequences, FiniteSets

CONSTANTS
  Catalogs,        \* workflow definitions, each a function from conditions
  Builtin,         \* the one used until a file is loaded
  ControlIds,      \* request ids Control uses, each once
  IdSpace,         \* number of uint32_t values, scaled down
  ClockSpace,      \* number of uint64_t values, scaled down
  QueueCapacity,   \* DOMAIN_EVENT_QUEUE_CAPACITY
  Budget,          \* DOMAIN_DISPATCH_BUDGET
  Publisher,       \* a unit's result output: the service's publisher,
  FreedPublisher   \* and that of a create that failed

VARIABLES
  channel,          \* service->publisher
  machine,          \* current state of the three runners' machines
  scenario,         \* service->scenario, without the sequence runner
  sequence,         \* service->scenario.sequence
  output,
  workflow_started,
  current_time_ms,
  catalog,          \* service->workflow_catalog
  alive,            \* between create and destroy: "no", "yes", "destroyed"
  control,          \* where Control's thread is, and dispatched
  clock,            \* the monotonic clock Control reads
  requests,         \* history: accepted request ids
  reports,          \* history: outputs passed to the callback
  purpose,          \* history: <<request id, step>> a unit is working on
  succeeded         \* history: steps of the last request that succeeded

runners == <<machine, scenario, sequence>>
service == <<runners, output, workflow_started, current_time_ms, catalog, alive>>
history == <<requests, reports, purpose, succeeded>>
vars == <<unitVars, channel, service, control, clock, history>>

UnitEvents     == {"UNIT_COMPLETED", "UNIT_ERROR"}
SequenceEvents == {"SEQUENCE_COMPLETED", "SEQUENCE_ERROR"}
ScenarioEvents == {"SCENARIO_COMPLETED", "SCENARIO_ERROR"}
FeatureEvents  == {"FEATURE_COMPLETED", "FEATURE_ERROR"}
ChainEvents    == SequenceEvents \cup ScenarioEvents \cup FeatureEvents

DomainError ==
  {"NONE", "UNIT_REJECTED", "UNIT_FAILED", "STEP_TIMEOUT", "INTERNAL"}

DomainEvent ==
  [id : UnitEvents \cup {"STEP_TIMEOUT"} \cup ChainEvents,
   feature_request_id : RequestId, unit_request_id : RequestId,
   unit_number : Units \cup {Null}, error : DomainError]

Channel ==
  INSTANCE EventChannel WITH
    Copied <- DomainEvent, Bare <- {}, Capacity <- QueueCapacity

Scenarios == UNION {{c[k] : k \in DOMAIN c} : c \in Catalogs}
SequenceDefinitions ==
  UNION {{s.sequences[i] : i \in DOMAIN s.sequences} : s \in Scenarios}

Positions(s) == UNION {{i} \X DOMAIN s.sequences[i] : i \in DOMAIN s.sequences}

Step == [unit : Units, timeout_ms : Nat]

(* What the loader verified of every scenario.                             *)
ASSUME DomainAssumption ==
  /\ Builtin \in Catalogs
  /\ IdSpace \in Nat \ {0} /\ RequestId = 0 .. IdSpace - 1
  /\ ClockSpace \in Nat \ {0}
  /\ ControlIds \subseteq RequestId
  /\ Handler = {Publisher, FreedPublisher} /\ Publisher # FreedPublisher
  /\ QueueCapacity \in Nat \ {0} /\ Budget \in Nat \ {0}
  /\ \A s \in Scenarios :
       /\ s # Null /\ s.total_step_count = Cardinality(Positions(s))
       /\ s.sequences \in Seq(Seq(Step)) /\ s.sequences # << >>
  /\ \A q \in SequenceDefinitions : q # Null /\ q # << >>

Init ==
  /\ UnitInit
  /\ channel = Channel!EmptyChannel
  /\ machine = [feature |-> "IDLE", scenario |-> "IDLE", sequence |-> "IDLE"]
  /\ scenario = [definition |-> Null, sequence_index |-> 0]
  /\ sequence = [definition |-> Null, step_index |-> 0, unit_request_id |-> 0,
                 step_deadline_ms |-> 0, step_running |-> FALSE,
                 timeout_published |-> FALSE]
  /\ output = [status |-> "IDLE", request_id |-> 0, completed_step_count |-> 0,
               total_step_count |-> 0, error |-> "NONE"]
  /\ workflow_started = FALSE
  /\ current_time_ms = 0
  /\ catalog = Builtin
  /\ alive = "no"
  /\ control = [at |-> "idle", dispatched |-> 0]
  /\ clock = 0
  /\ requests = << >> /\ reports = << >>
  /\ purpose = [u \in Units |-> << >>] /\ succeeded = {}

-----------------------------------------------------------------------------
(* What the handlers are made of. m, q, out and c stand for the machines,  *)
(* sequence runner, output and channel as the caller left them.            *)

(* Mistake: the cause of an error is lost.                                 *)
PayloadWithoutError(id, q, out, error) ==
  [id |-> id, feature_request_id |-> out.request_id,
   unit_request_id |-> q.unit_request_id, unit_number |-> Null, error |-> "NONE"]

(* domain_current_payload()                                                *)
Payload(id, q, out, error) ==
  [id |-> id, feature_request_id |-> out.request_id,
   unit_request_id |-> q.unit_request_id, unit_number |-> Null, error |-> error]

(* domain_publish()                                                        *)
DomainPublish(c, out, e) ==
  /\ channel' = Channel!Published(c, e)
  /\ output' = IF Channel!HasRoom(c, e) THEN out
               ELSE [out EXCEPT !.status = "ERROR", !.error = "INTERNAL"]

UnitsUntouched == UNCHANGED <<unitVars, purpose>>

(* Mistake: the failed step stays running.                                 *)
PublishErrorKeepsStep(m, q, out, c, error) ==
  /\ machine' = [m EXCEPT !.sequence = IF @ = "RUNNING" THEN "ERROR" ELSE @]
  /\ sequence' = q
  /\ DomainPublish(c, out, Payload("SEQUENCE_ERROR", q, out, error))

(* sequence_publish_error()                                                *)
PublishSequenceError(m, q, out, c, error) ==
  /\ machine' = [m EXCEPT !.sequence = IF @ = "RUNNING" THEN "ERROR" ELSE @]
  /\ sequence' = [q EXCEPT !.step_running = FALSE]
  /\ DomainPublish(c, out, Payload("SEQUENCE_ERROR", q, out, error))

UnitRequestId(out) ==
  (out.request_id + out.completed_step_count + 1) % IdSpace

(* A timeout near the largest uint64_t wraps: its step is overdue at once. *)
Deadline(step, now) == (now + step.timeout_ms) % ClockSpace

(* Mistake: timeout_published is not cleared.                              *)
StepStartedTimedOut(q, out, step, now) ==
  [q EXCEPT !.unit_request_id = UnitRequestId(out),
            !.step_deadline_ms = Deadline(step, now),
            !.step_running = TRUE]

StepStarted(q, out, step, now) ==
  [q EXCEPT !.unit_request_id = UnitRequestId(out),
            !.step_deadline_ms = Deadline(step, now),
            !.step_running = TRUE, !.timeout_published = FALSE]

(* sequence_start_step(). The loader checked every unit number against the *)
(* array the service has, so the branch that answers INTERNAL is not taken.*)
StartStep(m, q, out, c, now) ==
  LET step == q.definition[q.step_index + 1] IN
  \/ /\ WriteInput(step.unit, UnitRequestId(out))
     /\ purpose' = [purpose EXCEPT
          ![step.unit] = <<out.request_id, out.completed_step_count + 1>>]
     /\ machine' = m /\ output' = out /\ channel' = c
     /\ sequence' = StepStarted(q, out, step, now)
  \/ /\ ~Accepts(step.unit)
     /\ PublishSequenceError(m, q, out, c, "UNIT_REJECTED")
     /\ UnitsUntouched

(* Mistake: the sequence's machine is not initialized again.               *)
StartSequenceOnOldMachine(s, c, now) ==
  /\ scenario' = s
  /\ StartStep([machine EXCEPT !.sequence = IF @ = "IDLE" THEN "RUNNING" ELSE @],
               [sequence EXCEPT
                  !.definition = s.definition.sequences[s.sequence_index + 1],
                  !.step_index = 0, !.step_running = FALSE],
               output, c, now)

(* scenario_start_sequence()                                               *)
StartSequence(s, c, now) ==
  /\ scenario' = s
  /\ StartStep([machine EXCEPT !.sequence = "RUNNING"],
               [sequence EXCEPT
                  !.definition = s.definition.sequences[s.sequence_index + 1],
                  !.step_index = 0, !.step_running = FALSE],
               output, c, now)

-----------------------------------------------------------------------------
(* Public calls.                                                           *)

Registered(S, publisher) ==
  [u \in Units |-> IF u \in S THEN [unit[u] EXCEPT !.result_output = publisher]
                   ELSE unit[u]]

(* domain_service_create(); its array of units is in any order.            *)
Create ==
  /\ alive = "no" /\ alive' = "yes"
  /\ unit' = Registered(Units, Publisher)
  /\ UNCHANGED <<worker, destroyer, channel, runners, output, workflow_started,
                 current_time_ms, catalog, control, clock, history>>

(* An element of the array is NULL: the publisher is freed, and the units  *)
(* before that element keep it as their context.                           *)
CreateFails ==
  /\ alive = "no"
  /\ \E S \in SUBSET Units \ {Units} : unit' = Registered(S, FreedPublisher)
  /\ UNCHANGED <<worker, destroyer, channel, service, control, clock, history>>

(* Calls are made by Control between two process() calls or, except for    *)
(* destroy, by its callback.                                               *)
MayCall == alive = "yes" /\ control.at \in {"idle", "callback"}

(* domain_service_write_input() when it returns ACCEPTED, domain_prepare() *)
(* included.                                                               *)
ServiceWriteInput(id, condition) ==
  /\ MayCall /\ output.status # "RUNNING"
  /\ condition \in DOMAIN catalog
  /\ LET found == catalog[condition] IN
       /\ machine' = [machine EXCEPT !.feature = "RUNNING", !.scenario = "RUNNING"]
       /\ scenario' = [definition |-> found, sequence_index |-> 0]
       /\ sequence' = [sequence EXCEPT !.definition = Null]
       /\ output' = [status |-> "RUNNING", request_id |-> id,
                     completed_step_count |-> 0,
                     total_step_count |-> found.total_step_count,
                     error |-> "NONE"]
  /\ current_time_ms' = 0 /\ workflow_started' = FALSE
  /\ requests' = Append(requests, id) /\ succeeded' = {}
  /\ UNCHANGED <<unitVars, channel, catalog, alive, control, clock, reports,
                 purpose>>

(* Mistake: the runners keep pointing into the destroyed catalog.          *)
LoadKeepsDefinitions(loaded) ==
  /\ MayCall /\ output.status # "RUNNING"
  /\ catalog' = loaded
  /\ UNCHANGED <<unitVars, channel, runners, output, workflow_started,
                 current_time_ms, alive, control, clock, history>>

(* domain_service_load_workflows_json() when the file is valid.            *)
LoadWorkflows(loaded) ==
  /\ MayCall /\ output.status # "RUNNING"
  /\ scenario' = [scenario EXCEPT !.definition = Null]
  /\ sequence' = [sequence EXCEPT !.definition = Null]
  /\ catalog' = loaded
  /\ UNCHANGED <<unitVars, channel, machine, output, workflow_started,
                 current_time_ms, alive, control, clock, history>>

TimeoutDue ==
  /\ sequence.step_running /\ ~sequence.timeout_published
  /\ clock >= sequence.step_deadline_ms

(* domain_service_process() up to the dispatch.                            *)
StartWorkflow ==
  /\ output.status = "RUNNING" /\ ~workflow_started
  /\ workflow_started' = TRUE
  /\ StartSequence(scenario, channel, clock)

PublishTimeout ==
  /\ output.status = "RUNNING" /\ workflow_started /\ TimeoutDue
  /\ DomainPublish(channel, output,
                   Payload("STEP_TIMEOUT", sequence, output, "STEP_TIMEOUT"))
  /\ sequence' = [sequence EXCEPT !.timeout_published = TRUE]
  /\ UNCHANGED <<machine, scenario, workflow_started>> /\ UnitsUntouched

NothingDue ==
  /\ ~(output.status = "RUNNING" /\ (~workflow_started \/ TimeoutDue))
  /\ UNCHANGED <<channel, runners, output, workflow_started>> /\ UnitsUntouched

(* In the callback the publisher is dispatching: the nested dispatch only  *)
(* returns BUSY.                                                           *)
Process ==
  /\ MayCall
  /\ current_time_ms' = clock
  /\ StartWorkflow \/ PublishTimeout \/ NothingDue
  /\ control' = IF control.at = "callback" THEN control
                ELSE [at |-> "dispatch", dispatched |-> 0]
  /\ UNCHANGED <<catalog, alive, clock, requests, reports, succeeded>>

(* domain_service_destroy(), after Control saw a terminal state.           *)
Destroy ==
  /\ alive = "yes" /\ control.at = "idle"
  /\ output.status \in {"COMPLETED", "ERROR"}
  /\ alive' = "destroyed"
  /\ UNCHANGED <<unitVars, channel, runners, output, workflow_started,
                 current_time_ms, catalog, control, clock, history>>

-----------------------------------------------------------------------------
(* domain_event_publisher_dispatch(): pop, handler, release, until the     *)
(* queue is empty or the budget is spent.                                  *)

event == Head(channel.pending)
popped == Channel!Taken(channel)

HandlerRuns(ids, next) ==
  /\ control.at = "dispatch" /\ control.dispatched < Budget
  /\ channel.pending # << >> /\ event.id \in ids
  /\ control' = [control EXCEPT !.at = next]
  /\ UNCHANGED <<workflow_started, current_time_ms, catalog, alive, clock,
                 requests, succeeded>>

Ignored ==
  /\ channel' = popped
  /\ UNCHANGED <<runners, output>> /\ UnitsUntouched

(* Mistakes: a result is matched by its id alone.                          *)
AwaitedById == event.unit_request_id = sequence.unit_request_id
FailsById == event.id = "STEP_TIMEOUT" \/ AwaitedById

Awaited ==
  /\ output.status = "RUNNING" /\ sequence.step_running
  /\ event.unit_request_id = sequence.unit_request_id

(* sequence_on_unit_completed(), for the awaited event.                    *)
StepCompleted ==
  LET out  == [output EXCEPT !.completed_step_count = @ + 1]
      q    == [sequence EXCEPT !.step_index = @ + 1, !.step_running = FALSE]
      last == q.step_index >= Len(q.definition)
  IN
  \/ /\ last /\ machine.sequence = "RUNNING"
     /\ machine' = [machine EXCEPT !.sequence = "COMPLETED"]
     /\ sequence' = q
     /\ DomainPublish(popped, out, Payload("SEQUENCE_COMPLETED", q, out, "NONE"))
     /\ UnitsUntouched
  \/ /\ last /\ machine.sequence # "RUNNING"
     /\ PublishSequenceError(machine, q, out, popped, "INTERNAL")
     /\ UnitsUntouched
  \/ /\ ~last
     /\ StartStep(machine, q, out, popped, current_time_ms)

OnUnitCompleted ==
  /\ HandlerRuns({"UNIT_COMPLETED"}, "release")
  /\ \/ Awaited /\ StepCompleted
     \/ ~Awaited /\ Ignored
  /\ UNCHANGED <<scenario, reports>>

(* sequence_on_failure()                                                   *)
FailsStep ==
  /\ output.status = "RUNNING" /\ sequence.step_running
  /\ \/ event.id = "STEP_TIMEOUT"
     \/ event.unit_request_id = sequence.unit_request_id

OnFailure ==
  /\ HandlerRuns({"UNIT_ERROR", "STEP_TIMEOUT"}, "release")
  /\ \/ /\ FailsStep
        /\ PublishSequenceError(machine, sequence, output, popped,
             IF event.id = "STEP_TIMEOUT" THEN "STEP_TIMEOUT" ELSE "UNIT_FAILED")
        /\ UnitsUntouched
     \/ ~FailsStep /\ Ignored
  /\ UNCHANGED <<scenario, reports>>

(* scenario_on_sequence_completed()                                        *)
OnSequenceCompleted ==
  /\ HandlerRuns({"SEQUENCE_COMPLETED"}, "release")
  /\ LET s    == [scenario EXCEPT !.sequence_index = @ + 1]
         last == s.sequence_index >= Len(s.definition.sequences)
     IN
     \/ /\ last
        /\ scenario' = s /\ sequence' = sequence
        /\ IF machine.scenario = "RUNNING"
           THEN /\ machine' = [machine EXCEPT !.scenario = "COMPLETED"]
                /\ DomainPublish(popped, output,
                     Payload("SCENARIO_COMPLETED", sequence, output, "NONE"))
           ELSE /\ machine' = machine
                /\ DomainPublish(popped, output,
                     Payload("SCENARIO_ERROR", sequence, output, "INTERNAL"))
        /\ UnitsUntouched
     \/ ~last /\ StartSequence(s, popped, current_time_ms)
  /\ UNCHANGED reports

(* scenario_on_sequence_error()                                            *)
OnSequenceError ==
  /\ HandlerRuns({"SEQUENCE_ERROR"}, "release")
  /\ machine' = [machine EXCEPT !.scenario = IF @ = "RUNNING" THEN "ERROR" ELSE @]
  /\ DomainPublish(popped, output, [event EXCEPT !.id = "SCENARIO_ERROR"])
  /\ UNCHANGED <<scenario, sequence, reports>> /\ UnitsUntouched

(* feature_on_scenario_completed()                                         *)
OnScenarioCompleted ==
  /\ HandlerRuns({"SCENARIO_COMPLETED"}, "release")
  /\ IF machine.feature = "RUNNING"
     THEN /\ machine' = [machine EXCEPT !.feature = "COMPLETED"]
          /\ DomainPublish(popped, output, [event EXCEPT !.id = "FEATURE_COMPLETED"])
     ELSE /\ machine' = machine
          /\ DomainPublish(popped, output,
               [event EXCEPT !.id = "FEATURE_ERROR", !.error = "INTERNAL"])
  /\ UNCHANGED <<scenario, sequence, reports>> /\ UnitsUntouched

(* feature_on_scenario_error()                                             *)
OnScenarioError ==
  /\ HandlerRuns({"SCENARIO_ERROR"}, "release")
  /\ machine' = [machine EXCEPT !.feature = IF @ = "RUNNING" THEN "ERROR" ELSE @]
  /\ DomainPublish(popped, output, [event EXCEPT !.id = "FEATURE_ERROR"])
  /\ UNCHANGED <<scenario, sequence, reports>> /\ UnitsUntouched

(* control_on_feature_event(), up to and including the call of Control's   *)
(* handler.                                                                *)
OnFeatureEvent ==
  /\ HandlerRuns(FeatureEvents, "callback")
  /\ output' = [output EXCEPT
       !.status = IF event.id = "FEATURE_COMPLETED" THEN "COMPLETED" ELSE "ERROR",
       !.error = event.error]
  /\ reports' = Append(reports, [request_id |-> output'.request_id,
                                 error |-> output'.error])
  /\ channel' = popped
  /\ UNCHANGED runners /\ UnitsUntouched

CallbackReturns ==
  /\ control.at = "callback"
  /\ control' = [control EXCEPT !.at = "release"]
  /\ UNCHANGED <<unitVars, channel, service, clock, history>>

ReleaseSlot ==
  /\ control.at = "release"
  /\ channel' = Channel!Released(channel)
  /\ control' = [at |-> "dispatch", dispatched |-> control.dispatched + 1]
  /\ UNCHANGED <<unitVars, service, clock, history>>

DispatchEnds ==
  /\ control.at = "dispatch"
  /\ channel.pending = << >> \/ control.dispatched = Budget
  /\ control' = [at |-> "idle", dispatched |-> 0]
  /\ UNCHANGED <<unitVars, channel, service, clock, history>>

RunHandler ==
  \/ OnUnitCompleted \/ OnFailure
  \/ OnSequenceCompleted \/ OnSequenceError
  \/ OnScenarioCompleted \/ OnScenarioError
  \/ OnFeatureEvent

-----------------------------------------------------------------------------
(* The Units' threads and time.                                            *)

(* Mistake: errors are reported as completions.                            *)
AlwaysCompleted(r) == "UNIT_COMPLETED"

UnitEvent(r) == IF r.error = "NONE" THEN "UNIT_COMPLETED" ELSE "UNIT_ERROR"

(* domain_event_publisher_on_unit_result(), called by the worker; a full   *)
(* queue drops the result. A destroyed publisher is freed memory.          *)
ReportsToService(u) == alive = "yes" /\ unit[u].result_output = Publisher

Notify(u) ==
  /\ WorkerNotify(u)
  /\ ReportsToService(u)
  /\ LET r == worker[u].result IN
       channel' = Channel!Published(channel,
         [id |-> UnitEvent(r),
          feature_request_id |-> 0, unit_request_id |-> r.request_id,
          unit_number |-> u,
          error |-> IF r.error = "NONE" THEN "NONE" ELSE "UNIT_FAILED"])
  /\ UNCHANGED <<service, control, clock, history>>

NotifyFreed(u) ==
  /\ WorkerNotify(u)
  /\ ~ReportsToService(u)
  /\ UNCHANGED <<channel, service, control, clock, history>>

Finish(u) ==
  /\ WorkerFinish(u)
  /\ purpose' = [purpose EXCEPT ![u] = << >>]
  /\ succeeded' =
       IF worker'[u].result.error = "NONE" /\ purpose[u][1] = output.request_id
       THEN succeeded \cup {purpose[u][2]} ELSE succeeded
  /\ UNCHANGED <<channel, service, control, clock, requests, reports>>

(* Whether the thread sleeps between two inputs changes nothing here; the  *)
(* wakeup is UnitMockClient's.                                             *)
Work(u) ==
  /\ WorkerTake(u) \/ WorkerReadId(u)
  /\ UNCHANGED <<channel, service, control, clock, history>>

(* Nothing reads the clock but process(), and it only compares it to the   *)
(* running step's deadline: time is followed until that.                   *)
Tick ==
  /\ output.status = "RUNNING" /\ sequence.step_running
  /\ clock < sequence.step_deadline_ms
  /\ clock' = clock + 1
  /\ UNCHANGED <<unitVars, channel, service, control, history>>

Dispatching == RunHandler \/ CallbackReturns \/ ReleaseSlot \/ DispatchEnds

Ids == {requests[i] : i \in DOMAIN requests}

Submit ==
  \E id \in ControlIds \ Ids, condition \in UNION {DOMAIN c : c \in Catalogs} :
    ServiceWriteInput(id, condition)

Load == \E loaded \in Catalogs \ {Builtin, catalog} : LoadWorkflows(loaded)

Next ==
  \/ Create \/ CreateFails \/ Submit \/ Load \/ Process \/ Dispatching \/ Destroy
  \/ \E u \in Units : Work(u) \/ Finish(u) \/ Notify(u) \/ NotifyFreed(u)
  \/ Tick

(* Control calls process() over and over, each of its calls returns, and   *)
(* the clock runs. No fairness for the units: their operation may hang.    *)
Fairness ==
  /\ WF_vars(Process /\ control.at = "idle")
  /\ WF_vars(Dispatching)
  /\ WF_vars(Tick)

Spec == Init /\ [][Next]_vars /\ Fairness

-----------------------------------------------------------------------------
(* Properties.                                                             *)

TypeOK ==
  /\ UnitType
  /\ Channel!ChannelType
  /\ machine \in [{"feature", "scenario", "sequence"} -> Status]
  /\ scenario \in [definition : Scenarios \cup {Null}, sequence_index : Nat]
  /\ sequence \in [definition : SequenceDefinitions \cup {Null}, step_index : Nat,
                   unit_request_id : RequestId, step_deadline_ms : Nat,
                   step_running : BOOLEAN, timeout_published : BOOLEAN]
  /\ output \in [status : Status, request_id : RequestId,
                 completed_step_count : Nat, total_step_count : Nat,
                 error : DomainError]
  /\ workflow_started \in BOOLEAN /\ current_time_ms \in Nat /\ clock \in Nat
  /\ catalog \in Catalogs /\ alive \in {"no", "yes", "destroyed"}
  /\ control \in [at : {"idle", "dispatch", "callback", "release"},
                  dispatched : 0 .. Budget]

Chain == {i \in DOMAIN channel.pending : channel.pending[i].id \in ChainEvents}

InFlight == output.status = "RUNNING" /\ workflow_started

(* Exactly one thing moves a started workflow on: the step being waited    *)
(* for, or one event from a runner to the next. Without it the workflow    *)
(* would hang; with two, two levels would advance at once. Nothing is left *)
(* over for the next request.                                              *)
WorkflowToken ==
  Cardinality(Chain) + (IF sequence.step_running THEN 1 ELSE 0)
    = IF InFlight THEN 1 ELSE 0

(* The machines' states when the event is the one under way.               *)
ExpectedMachines(id) ==
  CASE id = "SEQUENCE_COMPLETED" -> <<"RUNNING", "RUNNING", "COMPLETED">>
    [] id = "SEQUENCE_ERROR"     -> <<"RUNNING", "RUNNING", "ERROR">>
    [] id = "SCENARIO_COMPLETED" -> <<"RUNNING", "COMPLETED", "COMPLETED">>
    [] id = "SCENARIO_ERROR"     -> <<"RUNNING", "ERROR", "ERROR">>
    [] id = "FEATURE_COMPLETED"  -> <<"COMPLETED", "COMPLETED", "COMPLETED">>
    [] id = "FEATURE_ERROR"      -> <<"ERROR", "ERROR", "ERROR">>

Machines == <<machine.feature, machine.scenario, machine.sequence>>

(* With one more event, pending or being handled, a handler could still    *)
(* publish: the payload slot of the event it handles is not free yet.      *)
QueueHasRoom == Len(channel.pending) + Len(channel.held) < QueueCapacity

(* The three runners never disagree about how far the workflow is: their   *)
(* states are those the event under way was published in, it belongs to    *)
(* the current request, and a failing signal never occurs: no event is     *)
(* refused by a full queue.                                                *)
RunnersAgree ==
  /\ TypeOK /\ QueueHasRoom
  /\ sequence.step_running => Machines = <<"RUNNING", "RUNNING", "RUNNING">>
  /\ \A i \in Chain :
       LET e == channel.pending[i] IN
       /\ Machines = ExpectedMachines(e.id)
       /\ e.feature_request_id = output.request_id
       /\ e.error # "INTERNAL"

(* What Control is told at the end is the truth: COMPLETED with every step *)
(* counted and every runner completed, ERROR with a cause and work undone. *)
TerminalOutput ==
  /\ output.status = "COMPLETED" =>
       /\ output.error = "NONE"
       /\ output.completed_step_count = output.total_step_count
       /\ Machines = ExpectedMachines("FEATURE_COMPLETED")
  /\ output.status = "ERROR" =>
       /\ output.error \notin {"NONE", "INTERNAL"}
       /\ output.completed_step_count < output.total_step_count
       /\ Machines = ExpectedMachines("FEATURE_ERROR")

(* Each accepted request is reported to Control's callback exactly once,   *)
(* under its id, before the next one is accepted.                          *)
ReportsMatchRequests ==
  /\ Len(requests) = Len(reports) + IF output.status = "RUNNING" THEN 1 ELSE 0
  /\ \A i \in DOMAIN reports : reports[i].request_id = requests[i]

(* A late unit result or a stale event never changes what Control reads    *)
(* after the end: only accepting a new request does.                       *)
TerminalIsFinal ==
  [][output.status \in {"COMPLETED", "ERROR"} /\ output' # output
       => output'.status = "RUNNING" /\ Len(requests') = Len(requests) + 1]_vars

(* No pointer into freed memory is left behind: the runners point into the *)
(* installed catalog, though loading destroys the previous one, also from  *)
(* within the callback, and every unit reports to the service's publisher, *)
(* though an earlier create freed the one it was given.                    *)
Installed == {catalog[k] : k \in DOMAIN catalog}

PointersAreLive ==
  /\ alive = "yes" => \A u \in Units : ReportsToService(u)
  /\ scenario.definition # Null => scenario.definition \in Installed
  /\ sequence.definition # Null =>
       \E s \in Installed, i \in DOMAIN scenario.definition.sequences :
         s = scenario.definition /\ sequence.definition = s.sequences[i]
  /\ InFlight => scenario.definition # Null /\ sequence.definition # Null

Busy(u) == unit[u].has_input \/ worker[u].at \in {"operating", "finished", "notifying"}

AllStepsSucceeded == 1 .. output.completed_step_count \subseteq succeeded

TimedOut == \E i \in DOMAIN reports : reports[i].error = "STEP_TIMEOUT"

(* As long as no request timed out, the counted steps are those whose unit *)
(* operation really succeeded, units run one at a time, and no unit        *)
(* rejects a step.                                                         *)
SequentialUntilTimeout ==
  ~TimedOut =>
    /\ AllStepsSucceeded
    /\ output.error # "UNIT_REJECTED"
    /\ output.error # "STEP_TIMEOUT" => \A u, v \in Units : Busy(u) /\ Busy(v) => u = v

(* Even when units hang, every accepted request is reported.               *)
RequestsAreReported ==
  \A id \in ControlIds :
    id \in Ids ~> \E i \in DOMAIN reports : reports[i].request_id = id

-----------------------------------------------------------------------------
(* Statements of the documentation.                                        *)

(* domain_workflow.h:28: timeout_ms is how long a step is waited for, at   *)
(* most; a step must not time out earlier.                                 *)
TimeoutMeansDeadline ==
  [][HandlerRuns({"STEP_TIMEOUT"}, "release") /\ machine' # machine
       => clock >= sequence.step_deadline_ms]_machine

(* domain_service.h:93 and unit_mock.h:68: the ids associate requests and  *)
(* completions, so a step is counted for a result of the unit it was given *)
(* to.                                                                     *)
CompletionsBelongToStep ==
  [][output'.completed_step_count = output.completed_step_count + 1
       => event.unit_number = sequence.definition[sequence.step_index + 1].unit]_output

(* unit_mock.h:140: the result output's context stays valid until the unit *)
(* is destroyed; the service registered its publisher.                     *)
ContextOutlivesCallbacks == [][\A u \in Units : ~NotifyFreed(u)]_vars
=============================================================================
