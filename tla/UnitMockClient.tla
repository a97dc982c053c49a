--------------------------- MODULE UnitMockClient ---------------------------
(***************************************************************************)
(* Mock Units under callers that register a handler, write inputs from any *)
(* thread and finally destroy each unit once nobody else uses it, as       *)
(* unit_mock.h asks. accepted, finished and delivered only record what     *)
(* happened; no action of the program reads them.                          *)
(***************************************************************************)
EXTENDS UnitMock, FiniteSets, Sequences

CONSTANT
  WaitForResult   \* TRUE: a caller writes the next input only after the
                  \* callback for the previous one

ASSUME ClientAssumption == WaitForResult \in BOOLEAN

VARIABLES
  accepted,       \* request ids of accepted inputs, per unit
  finished,       \* request ids whose operation ended, per unit
  delivered       \* results given to the handler, per unit, in order

vars == <<unitVars, accepted, finished, delivered>>

history == <<accepted, finished, delivered>>

Init ==
  /\ UnitInit
  /\ accepted = [u \in Units |-> {}]
  /\ finished = [u \in Units |-> {}]
  /\ delivered = [u \in Units |-> << >>]

(* Each id is used once, which also bounds the number of requests.         *)
Write(u) ==
  /\ destroyer[u] = "none"
  /\ WaitForResult => Len(delivered[u]) = Cardinality(accepted[u])
  /\ \E id \in RequestId \ (accepted[u] \cup {0}) :
       /\ WriteInput(u, id)
       /\ accepted' = [accepted EXCEPT ![u] = @ \cup {id}]
  /\ UNCHANGED <<finished, delivered>>

Register(u) ==
  /\ destroyer[u] = "none"
  /\ \E h \in Handler : SetResultOutput(u, h)
  /\ UNCHANGED history

Destroy(u) == DestroyCall(u) /\ UNCHANGED history

Finish(u) ==
  /\ WorkerFinish(u)
  /\ finished' = [finished EXCEPT ![u] = @ \cup {unit[u].request_id}]
  /\ UNCHANGED <<accepted, delivered>>

Deliver(u) ==
  /\ WorkerNotify(u)
  /\ delivered' = [delivered EXCEPT ![u] = Append(@, worker[u].result)]
  /\ UNCHANGED <<accepted, finished>>

WorkerOther(u) ==
  /\ WorkerWait(u) \/ WorkerExit(u) \/ WorkerTake(u) \/ WorkerReadId(u)
  /\ UNCHANGED history

SpuriousWake(u) == WorkerWakeSpurious(u) /\ UNCHANGED history

DestroyProgress(u) == DestroyStep(u) /\ UNCHANGED history

Worker(u) == WorkerOther(u) \/ Finish(u) \/ Deliver(u)

Next ==
  \E u \in Units :
    \/ Write(u) \/ Register(u) \/ Destroy(u)
    \/ Worker(u) \/ SpuriousWake(u) \/ DestroyProgress(u)

(* The operation is a sleep that returns and the scheduler runs every      *)
(* runnable thread; nobody is obliged to write, register or destroy.       *)
Fairness ==
  \A u \in Units : WF_vars(Worker(u)) /\ WF_vars(DestroyProgress(u))

Spec == Init /\ [][Next]_vars /\ Fairness

-----------------------------------------------------------------------------

TypeOK ==
  /\ UnitType
  /\ accepted \in [Units -> SUBSET RequestId]
  /\ finished \in [Units -> SUBSET RequestId]
  /\ \A u \in Units : delivered[u] \in Seq(Result)

Pending(b) == IF b THEN 1 ELSE 0

(* No accepted input is dropped, overwritten or executed twice: each one   *)
(* is waiting, in the worker's hands, or was reported.                     *)
EveryInputAccounted ==
  /\ TypeOK
  /\ \A u \in Units :
       Cardinality(accepted[u])
         = Len(delivered[u])
           + Pending(unit[u].has_input)
           + Pending(worker[u].at \in {"operating", "finished", "notifying"})

(* unit_mock_destroy() waits for the running operation and joins the       *)
(* worker: when it frees the unit every accepted input was reported, and   *)
(* the worker never touches the freed unit.                                *)
DestroyAfterLastResult ==
  \A u \in Units : destroyer[u] = "freed" =>
    /\ worker[u].at = "exited"
    /\ Len(delivered[u]) = Cardinality(accepted[u])

(* unit_mock_result_t.request_id is "the request that completed or         *)
(* failed": a result names a request whose operation has ended.            *)
ResultNamesFinishedRequest ==
  \A u \in Units : \A i \in 1 .. Len(delivered[u]) :
    delivered[u][i].request_id \in finished[u]

(* No wakeup is lost: an accepted input is eventually reported.            *)
AcceptedIsReported ==
  \A u \in Units : \A n \in 1 .. Cardinality(RequestId) :
    (Cardinality(accepted[u]) >= n) ~> (Len(delivered[u]) >= n)

(* Destroying a unit, running or not, returns.                             *)
DestroyReturns ==
  \A u \in Units : (destroyer[u] = "checking") ~> (destroyer[u] = "freed")
=============================================================================
