------------------------------ MODULE UnitMock ------------------------------
(***************************************************************************)
(* The asynchronous Mock Unit: a mutex-protected input/output snapshot and *)
(* one worker thread per unit. A step is what a thread does between taking *)
(* and releasing unit->mutex, or one access made outside it.               *)
(*                                                                         *)
(* Not modelled: failures of create (nothing is left behind), NULL and     *)
(* COMMAND_NONE arguments (rejected without effect), and read_output       *)
(* (copies the snapshot under the mutex).                                  *)
(***************************************************************************)
EXTENDS Naturals

CONSTANTS
  Units,        \* the units of the program
  RequestId,    \* values of the uint32_t request_id
  Handler,      \* result_output (handler and context) values
  Null          \* no result_output registered

ASSUME UnitAssumption == Null \notin Handler /\ 0 \in RequestId

VARIABLES
  unit,         \* struct unit_mock: what its mutex protects
  worker,       \* the worker thread's position and local result
  destroyer     \* the position of a thread in unit_mock_destroy()

unitVars == <<unit, worker, destroyer>>

Status == {"IDLE", "RUNNING", "COMPLETED", "ERROR"}
Error  == {"NONE", "EXECUTION"}
Result == [request_id : RequestId, error : Error]

UnitType ==
  /\ unit \in [Units -> [status : Status, request_id : RequestId, error : Error,
                         result_output : Handler \cup {Null},
                         has_input : BOOLEAN, stop_requested : BOOLEAN]]
  /\ worker \in [Units ->
       [at : {"ready", "waiting", "operating", "finished", "notifying", "exited"},
        result : Result]]
  /\ destroyer \in [Units -> {"none", "checking", "waiting", "joining", "freed"}]

(* unit_mock_create() *)
UnitInit ==
  /\ unit = [u \in Units |->
       [status |-> "IDLE", request_id |-> 0, error |-> "NONE",
        result_output |-> Null, has_input |-> FALSE, stop_requested |-> FALSE]]
  /\ worker = [u \in Units |->
       [at |-> "ready", result |-> [request_id |-> 0, error |-> "NONE"]]]
  /\ destroyer = [u \in Units |-> "none"]

(* Mistake: the signal is forgotten.                                       *)
WakeNobody(w) == w

(* pthread_cond_signal(&unit->input_ready): only the worker waits on it.   *)
Wake(w) == [w EXCEPT !.at = IF @ = "waiting" THEN "ready" ELSE @]

-----------------------------------------------------------------------------
(* The callers' side.                                                      *)

(* Mistake: a running unit takes another input.                            *)
AcceptsWhileRunning(u) == unit[u].result_output # Null

Accepts(u) == unit[u].status # "RUNNING" /\ unit[u].result_output # Null

(* unit_mock_write_input() when it returns ACCEPTED.                       *)
WriteInput(u, id) ==
  /\ Accepts(u)
  /\ unit' = [unit EXCEPT ![u].status = "RUNNING", ![u].request_id = id,
                          ![u].error = "NONE", ![u].has_input = TRUE]
  /\ worker' = [worker EXCEPT ![u] = Wake(@)]
  /\ UNCHANGED destroyer

(* unit_mock_set_result_output() when it returns ACCEPTED.                 *)
SetResultOutput(u, h) ==
  /\ unit[u].status # "RUNNING"
  /\ unit' = [unit EXCEPT ![u].result_output = h]
  /\ UNCHANGED <<worker, destroyer>>

(* unit_mock_destroy(), from the call to free().                           *)
DestroyCall(u) ==
  /\ destroyer[u] = "none"
  /\ destroyer' = [destroyer EXCEPT ![u] = "checking"]
  /\ UNCHANGED <<unit, worker>>

DestroyWait(u) ==
  /\ destroyer[u] = "checking"
  /\ unit[u].status = "RUNNING"
  /\ destroyer' = [destroyer EXCEPT ![u] = "waiting"]
  /\ UNCHANGED <<unit, worker>>

(* Mistake: destroy does not wait for the running operation.               *)
DestroyStopAtOnce(u) ==
  /\ destroyer[u] = "checking"
  /\ unit' = [unit EXCEPT ![u].stop_requested = TRUE]
  /\ worker' = [worker EXCEPT ![u] = Wake(@)]
  /\ destroyer' = [destroyer EXCEPT ![u] = "joining"]

DestroyStop(u) ==
  /\ destroyer[u] = "checking"
  /\ unit[u].status # "RUNNING"
  /\ unit' = [unit EXCEPT ![u].stop_requested = TRUE]
  /\ worker' = [worker EXCEPT ![u] = Wake(@)]
  /\ destroyer' = [destroyer EXCEPT ![u] = "joining"]

DestroyJoin(u) ==
  /\ destroyer[u] = "joining"
  /\ worker[u].at = "exited"
  /\ destroyer' = [destroyer EXCEPT ![u] = "freed"]
  /\ UNCHANGED <<unit, worker>>

DestroyStep(u) == DestroyWait(u) \/ DestroyStop(u) \/ DestroyJoin(u)

-----------------------------------------------------------------------------
(* The worker thread, unit_mock_worker().                                  *)

MoveWorker(u, at) == worker' = [worker EXCEPT ![u].at = at]

WorkerWait(u) ==
  /\ worker[u].at = "ready"
  /\ ~unit[u].has_input /\ ~unit[u].stop_requested
  /\ MoveWorker(u, "waiting")
  /\ UNCHANGED <<unit, destroyer>>

(* pthread_cond_wait() may also return without a signal.                   *)
WorkerWakeSpurious(u) ==
  /\ worker[u].at = "waiting"
  /\ MoveWorker(u, "ready")
  /\ UNCHANGED <<unit, destroyer>>

WorkerExit(u) ==
  /\ worker[u].at = "ready"
  /\ unit[u].stop_requested
  /\ MoveWorker(u, "exited")
  /\ UNCHANGED <<unit, destroyer>>

WorkerTake(u) ==
  /\ worker[u].at = "ready"
  /\ unit[u].has_input /\ ~unit[u].stop_requested
  /\ unit' = [unit EXCEPT ![u].has_input = FALSE]
  /\ MoveWorker(u, "operating")
  /\ UNCHANGED destroyer

(* Mistakes: operation_finished is not signalled; the error code lands in  *)
(* the status.                                                             *)
WorkerFinishSilently(u) ==
  /\ worker[u].at = "operating"
  /\ unit' = [unit EXCEPT ![u].status = "COMPLETED"]
  /\ worker' = [worker EXCEPT ![u].at = "finished"]
  /\ UNCHANGED destroyer

WorkerFinishMixed(u) ==
  /\ worker[u].at = "operating"
  /\ \E error \in Error : unit' = [unit EXCEPT ![u].status = error]
  /\ worker' = [worker EXCEPT ![u].at = "finished"]
  /\ UNCHANGED destroyer

(* The operation returned; the output changes and destroy() is woken.      *)
WorkerFinish(u) ==
  /\ worker[u].at = "operating"
  /\ \E error \in Error :
       /\ unit' = [unit EXCEPT ![u].error = error,
            ![u].status = IF error = "NONE" THEN "COMPLETED" ELSE "ERROR"]
       /\ worker' = [worker EXCEPT ![u].at = "finished", ![u].result.error = error]
  /\ destroyer' = [destroyer EXCEPT ![u] = IF @ = "waiting" THEN "checking" ELSE @]

(* unit_mock_notify_result() runs after the mutex was released: it reads   *)
(* the request id the output has by then.                                  *)
WorkerReadId(u) ==
  /\ worker[u].at = "finished"
  /\ worker' = [worker EXCEPT ![u].at = "notifying",
                              ![u].result.request_id = unit[u].request_id]
  /\ UNCHANGED <<unit, destroyer>>

(* The handler call; what it does with the result is its own module's.     *)
WorkerNotify(u) ==
  /\ worker[u].at = "notifying"
  /\ worker' = [worker EXCEPT ![u].at = "ready",
                              ![u].result = [request_id |-> 0, error |-> "NONE"]]
  /\ UNCHANGED <<unit, destroyer>>

(* Everything the worker does on its own, without calling the handler.     *)
WorkerSilent(u) ==
  \/ WorkerWait(u) \/ WorkerExit(u) \/ WorkerTake(u)
  \/ WorkerFinish(u) \/ WorkerReadId(u)

=============================================================================
