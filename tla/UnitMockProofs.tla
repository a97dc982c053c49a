--------------------------- MODULE UnitMockProofs ---------------------------
(***************************************************************************)
(* For every set of units, request ids and handlers, and every order of    *)
(* calls: no accepted input of a Mock Unit is lost, unit_mock_destroy()    *)
(* frees the unit after its last result, and a result names the request it *)
(* belongs to if the caller waits for it before writing the next input.    *)
(***************************************************************************)
EXTENDS UnitMockClient, FiniteSetTheorems, SequenceTheorems, TLAPS

Busy == {"operating", "finished", "notifying"}

(* What mutex, condition variables and join establish about one unit.      *)
Protocol(u) ==
  /\ unit[u].status = "RUNNING" <=> unit[u].has_input \/ worker[u].at = "operating"
  /\ ~(unit[u].has_input /\ worker[u].at = "operating")
  /\ unit[u].stop_requested <=> destroyer[u] \in {"joining", "freed"}
  /\ unit[u].stop_requested => unit[u].status # "RUNNING"
  /\ worker[u].at = "exited" => unit[u].stop_requested
  /\ destroyer[u] = "freed" => worker[u].at = "exited"

Accounted(u) ==
  /\ IsFiniteSet(accepted[u])
  /\ Cardinality(accepted[u])
       = Len(delivered[u]) + Pending(unit[u].has_input)
         + Pending(worker[u].at \in Busy)

UnitRecord ==
  [status : Status, request_id : RequestId, error : Error,
   result_output : Handler \cup {Null}, has_input : BOOLEAN, stop_requested : BOOLEAN]

At == {"ready", "waiting", "operating", "finished", "notifying", "exited"}

WorkerRecord == [at : At, result : Result]

ClientType ==
  /\ unit \in [Units -> UnitRecord]
  /\ worker \in [Units -> WorkerRecord]
  /\ destroyer \in [Units -> {"none", "checking", "waiting", "joining", "freed"}]
  /\ accepted \in [Units -> SUBSET RequestId]
  /\ finished \in [Units -> SUBSET RequestId]
  /\ delivered \in [Units -> Seq(Result)]

UnitInv ==
  /\ ClientType
  /\ \A u \in Units : Protocol(u) /\ Accounted(u)

-----------------------------------------------------------------------------

LEMMA TypeIsUnitType == ClientType => TypeOK
  BY DEF ClientType, TypeOK, UnitType, UnitRecord, At, WorkerRecord

LEMMA InitUnitInv == Init => UnitInv
<1> SUFFICES ASSUME Init PROVE UnitInv
  OBVIOUS
<1>1. ClientType
  <2>1. [request_id |-> 0, error |-> "NONE"] \in Result
    BY UnitAssumption DEF Result, Error
  <2>2. [at |-> "ready", result |-> [request_id |-> 0, error |-> "NONE"]] \in WorkerRecord
    BY <2>1 DEF WorkerRecord, At
  <2>3. [status |-> "IDLE", request_id |-> 0, error |-> "NONE",
         result_output |-> Null, has_input |-> FALSE,
         stop_requested |-> FALSE] \in UnitRecord
    BY UnitAssumption DEF UnitRecord, Status, Error
  <2>4. QED
    BY <2>2, <2>3 DEF Init, UnitInit, ClientType
<1>2. ASSUME NEW u \in Units PROVE Protocol(u) /\ Accounted(u)
  <2>1. /\ unit[u].status = "IDLE" /\ ~unit[u].has_input /\ ~unit[u].stop_requested
        /\ worker[u].at = "ready" /\ destroyer[u] = "none"
    BY DEF Init, UnitInit
  <2>2. accepted[u] = {} /\ delivered[u] = << >>
    BY DEF Init
  <2>3. QED
    BY <2>1, <2>2, FS_EmptySet DEF Protocol, Accounted, Pending, Busy
<1>3. QED
  BY <1>1, <1>2 DEF UnitInv

-----------------------------------------------------------------------------
(* What an action may assign to the record of a unit or of its worker.     *)

LEMMA UnitFields ==
  ASSUME NEW r \in UnitRecord
  PROVE  /\ r.status \in Status /\ r.request_id \in RequestId
         /\ r.has_input \in BOOLEAN /\ r.stop_requested \in BOOLEAN
  BY DEF UnitRecord

LEMMA WorkerFields ==
  ASSUME NEW w \in WorkerRecord
  PROVE  w.at \in At /\ w.result \in Result
  BY DEF WorkerRecord

LEMMA UnitUpdates ==
  ASSUME NEW r \in UnitRecord
  PROVE  /\ \A status \in Status, id \in RequestId, error \in Error, b \in BOOLEAN :
              [r EXCEPT !.status = status, !.request_id = id, !.error = error,
                        !.has_input = b] \in UnitRecord
         /\ \A h \in Handler : [r EXCEPT !.result_output = h] \in UnitRecord
         /\ \A b \in BOOLEAN : [r EXCEPT !.stop_requested = b] \in UnitRecord
         /\ \A b \in BOOLEAN : [r EXCEPT !.has_input = b] \in UnitRecord
         /\ \A error \in Error, status \in Status :
              [r EXCEPT !.error = error, !.status = status] \in UnitRecord
  BY DEF UnitRecord

LEMMA WorkerUpdates ==
  ASSUME NEW w \in WorkerRecord, NEW at \in At
  PROVE  /\ [w EXCEPT !.at = at] \in WorkerRecord
         /\ \A result \in Result :
              [w EXCEPT !.at = at, !.result = result] \in WorkerRecord
         /\ \A error \in Error :
              [w EXCEPT !.at = at, !.result.error = error] \in WorkerRecord
         /\ \A id \in RequestId :
              [w EXCEPT !.at = at, !.result.request_id = id] \in WorkerRecord
  BY DEF WorkerRecord, Result

LEMMA WakeKeepsRecord ==
  ASSUME NEW w \in WorkerRecord
  PROVE  Wake(w) \in WorkerRecord
  BY DEF Wake, WorkerRecord, At

(* Every action is one unit's.                                             *)
UnitStep(u) ==
  \/ Write(u) \/ Register(u) \/ Destroy(u)
  \/ Worker(u) \/ SpuriousWake(u) \/ DestroyProgress(u)

LEMMA StepKeepsType ==
  ASSUME ClientType, NEW u \in Units, UnitStep(u)
  PROVE  ClientType'
<1> USE DEF ClientType
<1>1. CASE Write(u)
  <2>1. PICK id \in RequestId : /\ WriteInput(u, id)
                                /\ accepted' = [accepted EXCEPT ![u] = @ \cup {id}]
    BY <1>1 DEF Write
  <2>2. unit' \in [Units -> UnitRecord]
    BY <2>1, UnitUpdates DEF WriteInput, Status, Error
  <2>3. worker' \in [Units -> WorkerRecord] /\ UNCHANGED destroyer
    BY <2>1, WakeKeepsRecord DEF WriteInput
  <2>4. QED
    BY <1>1, <2>1, <2>2, <2>3 DEF Write
<1>2. CASE Register(u)
  <2>1. PICK h \in Handler : SetResultOutput(u, h)
    BY <1>2 DEF Register
  <2>2. unit' \in [Units -> UnitRecord]
    BY <2>1, UnitUpdates DEF SetResultOutput
  <2>3. QED
    BY <1>2, <2>1, <2>2 DEF Register, SetResultOutput, history
<1>3. CASE Destroy(u)
  BY <1>3 DEF Destroy, DestroyCall, history
<1>4. CASE WorkerOther(u)
  <2>1. UNCHANGED history
    BY <1>4 DEF WorkerOther
  <2>2. CASE WorkerWait(u) \/ WorkerExit(u)
    <3>1. PICK at \in At : worker' = [worker EXCEPT ![u].at = at]
      BY <2>2 DEF WorkerWait, WorkerExit, MoveWorker, At
    <3>2. worker' \in [Units -> WorkerRecord]
      BY <3>1, WorkerUpdates
    <3>3. QED
      BY <2>1, <2>2, <3>2 DEF WorkerWait, WorkerExit, history
  <2>3. CASE WorkerTake(u)
    BY <2>1, <2>3, WorkerUpdates, UnitUpdates DEF WorkerTake, MoveWorker, At, history
  <2>4. CASE WorkerReadId(u)
    BY <2>1, <2>4, WorkerUpdates, UnitFields DEF WorkerReadId, At, history
  <2>5. QED
    BY <1>4, <2>2, <2>3, <2>4 DEF WorkerOther
<1>5. CASE Finish(u)
  <2>1. PICK error \in Error :
          /\ unit' = [unit EXCEPT ![u].error = error,
               ![u].status = IF error = "NONE" THEN "COMPLETED" ELSE "ERROR"]
          /\ worker' = [worker EXCEPT ![u].at = "finished", ![u].result.error = error]
    BY <1>5 DEF Finish, WorkerFinish
  <2>2. unit' \in [Units -> UnitRecord]
    BY <2>1, UnitUpdates DEF Status
  <2>3. worker' \in [Units -> WorkerRecord]
    BY <2>1, WorkerUpdates DEF At
  <2>4. QED
    BY <1>5, <2>2, <2>3, UnitFields DEF Finish, WorkerFinish
<1>6. CASE Deliver(u)
  <2>1. [request_id |-> 0, error |-> "NONE"] \in Result
    BY UnitAssumption DEF Result, Error
  <2>2. worker' \in [Units -> WorkerRecord]
    BY <1>6, <2>1, WorkerUpdates DEF Deliver, WorkerNotify, At
  <2>3. delivered' \in [Units -> Seq(Result)]
    BY <1>6, WorkerFields, AppendProperties DEF Deliver
  <2>4. QED
    BY <1>6, <2>2, <2>3 DEF Deliver, WorkerNotify
<1>7. CASE SpuriousWake(u)
  BY <1>7, WorkerUpdates DEF SpuriousWake, WorkerWakeSpurious, MoveWorker, At, history
<1>8. CASE DestroyProgress(u)
  <2>1. UNCHANGED history
    BY <1>8 DEF DestroyProgress
  <2>2. CASE DestroyWait(u) \/ DestroyJoin(u)
    BY <2>1, <2>2 DEF DestroyWait, DestroyJoin, history
  <2>3. CASE DestroyStop(u)
    BY <2>1, <2>3, UnitUpdates, WakeKeepsRecord DEF DestroyStop, history
  <2>4. QED
    BY <1>8, <2>2, <2>3 DEF DestroyProgress, DestroyStep
<1>9. QED
  BY <1>1, <1>2, <1>3, <1>4, <1>5, <1>6, <1>7, <1>8 DEF UnitStep, Worker

(* A step of one unit leaves every other as it was.                        *)
LEMMA OtherUnits ==
  ASSUME ClientType, NEW u \in Units, UnitStep(u), NEW v \in Units, v # u
  PROVE  /\ unit'[v] = unit[v] /\ worker'[v] = worker[v]
         /\ destroyer'[v] = destroyer[v] /\ accepted'[v] = accepted[v]
         /\ finished'[v] = finished[v] /\ delivered'[v] = delivered[v]
<1> USE DEF ClientType, history
<1>1. CASE Write(u)
  BY <1>1 DEF Write, WriteInput
<1>2. CASE Register(u) \/ Destroy(u)
  BY <1>2 DEF Register, SetResultOutput, Destroy, DestroyCall
<1>3. CASE Worker(u)
  BY <1>3 DEF Worker, WorkerOther, WorkerWait, WorkerExit, WorkerTake,
       WorkerReadId, MoveWorker, Finish, WorkerFinish, Deliver, WorkerNotify
<1>4. CASE SpuriousWake(u)
  BY <1>4 DEF SpuriousWake, WorkerWakeSpurious, MoveWorker
<1>5. CASE DestroyProgress(u)
  BY <1>5 DEF DestroyProgress, DestroyStep, DestroyWait, DestroyStop, DestroyJoin
<1>6. QED
  BY <1>1, <1>2, <1>3, <1>4, <1>5 DEF UnitStep

LEMMA StepKeepsProtocol ==
  ASSUME ClientType, NEW u \in Units, Protocol(u), UnitStep(u)
  PROVE  Protocol(u)'
<1> USE DEF ClientType, UnitRecord, WorkerRecord, At, Status, Protocol
<1>1. CASE Write(u)
  BY <1>1 DEF Write, WriteInput, Wake, Accepts
<1>2. CASE Register(u)
  BY <1>2 DEF Register, SetResultOutput
<1>3. CASE Destroy(u)
  BY <1>3 DEF Destroy, DestroyCall
<1>4. CASE WorkerOther(u)
  <2>1. CASE WorkerWait(u)
    BY <2>1 DEF WorkerWait, MoveWorker
  <2>2. CASE WorkerExit(u)
    BY <2>2 DEF WorkerExit, MoveWorker
  <2>3. CASE WorkerTake(u)
    BY <2>3 DEF WorkerTake, MoveWorker
  <2>4. CASE WorkerReadId(u)
    BY <2>4 DEF WorkerReadId
  <2>5. QED
    BY <1>4, <2>1, <2>2, <2>3, <2>4 DEF WorkerOther
<1>5. CASE Finish(u)
  BY <1>5 DEF Finish, WorkerFinish, Error
<1>6. CASE Deliver(u)
  BY <1>6 DEF Deliver, WorkerNotify
<1>7. CASE SpuriousWake(u)
  BY <1>7 DEF SpuriousWake, WorkerWakeSpurious, MoveWorker
<1>8. CASE DestroyProgress(u)
  BY <1>8 DEF DestroyProgress, DestroyStep, DestroyWait, DestroyStop, DestroyJoin, Wake
<1>9. QED
  BY <1>1, <1>2, <1>3, <1>4, <1>5, <1>6, <1>7, <1>8 DEF UnitStep, Worker

(* A new id is one more; every other step moves an input from one place to *)
(* the next.                                                               *)
LEMMA StepKeepsAccount ==
  ASSUME ClientType, NEW u \in Units, Protocol(u), Accounted(u), UnitStep(u)
  PROVE  Accounted(u)'
<1> DEFINE waiting == Pending(unit[u].has_input)
           busy == Pending(worker[u].at \in Busy)
<1>1. /\ Cardinality(accepted[u]) \in Nat /\ Len(delivered[u]) \in Nat
      /\ waiting \in Nat /\ busy \in Nat
  BY FS_CardinalityType, LenProperties DEF Accounted, ClientType, Pending
<1>2. CASE Write(u)
  <2>1. PICK id \in RequestId \ (accepted[u] \cup {0}) :
          /\ WriteInput(u, id)
          /\ accepted' = [accepted EXCEPT ![u] = @ \cup {id}]
    BY <1>2 DEF Write
  <2>2. ~unit[u].has_input /\ worker[u].at # "operating"
    BY <2>1 DEF WriteInput, Accepts, Protocol
  <2>3. unit'[u].has_input /\ delivered' = delivered
    BY <1>2, <2>1 DEF WriteInput, Write, ClientType
  <2>4. worker'[u].at \in Busy <=> worker[u].at \in Busy
    BY <2>1 DEF WriteInput, Wake, ClientType, WorkerRecord, Busy
  <2>5. accepted'[u] = accepted[u] \cup {id} /\ id \notin accepted[u]
    BY <2>1 DEF ClientType
  <2>6. /\ IsFiniteSet(accepted'[u])
        /\ Cardinality(accepted'[u]) = Cardinality(accepted[u]) + 1
    BY <2>5, FS_AddElement DEF Accounted
  <2>7. waiting = 0 /\ waiting' = 1 /\ busy' = busy
    BY <2>2, <2>3, <2>4 DEF Pending
  <2>8. Len(delivered'[u]) = Len(delivered[u])
    BY <2>3
  <2>9. QED
    BY <1>1, <2>6, <2>7, <2>8 DEF Accounted
<1>3. CASE Deliver(u)
  <2>1. /\ worker[u].at = "notifying" /\ worker'[u].at = "ready"
        /\ unit' = unit /\ accepted' = accepted
    BY <1>3 DEF Deliver, WorkerNotify, ClientType, WorkerRecord
  <2>2. Len(delivered'[u]) = Len(delivered[u]) + 1
    BY <1>3, WorkerFields, AppendProperties DEF Deliver, ClientType
  <2>3. busy = 1 /\ busy' = 0 /\ waiting' = waiting
    BY <2>1 DEF Pending, Busy
  <2>4. QED
    BY <1>1, <2>1, <2>2, <2>3 DEF Accounted
<1>4. CASE WorkerOther(u)
  <2>1. accepted' = accepted /\ delivered' = delivered
    BY <1>4 DEF WorkerOther, history
  <2>2. CASE WorkerTake(u)
    <3>1. /\ unit[u].has_input /\ ~unit'[u].has_input
          /\ worker[u].at = "ready" /\ worker'[u].at = "operating"
      BY <2>2 DEF WorkerTake, MoveWorker, ClientType, UnitRecord, WorkerRecord
    <3>2. QED
      BY <1>1, <2>1, <3>1 DEF Accounted, Pending, Busy
  <2>3. CASE WorkerWait(u) \/ WorkerExit(u) \/ WorkerReadId(u)
    <3>1. unit' = unit /\ (worker'[u].at \in Busy <=> worker[u].at \in Busy)
      BY <2>3 DEF WorkerWait, WorkerExit, WorkerReadId, MoveWorker, ClientType,
                  WorkerRecord, Busy
    <3>2. QED
      BY <2>1, <3>1 DEF Accounted, Pending
  <2>4. QED
    BY <1>4, <2>2, <2>3 DEF WorkerOther
<1>5. CASE Register(u) \/ Destroy(u) \/ SpuriousWake(u)
  <2>1. /\ accepted' = accepted /\ delivered' = delivered
        /\ unit'[u].has_input = unit[u].has_input
    BY <1>5 DEF Register, SetResultOutput, Destroy, DestroyCall, SpuriousWake,
                WorkerWakeSpurious, ClientType, UnitRecord, history
  <2>2. worker'[u].at \in Busy <=> worker[u].at \in Busy
    BY <1>5 DEF Register, SetResultOutput, Destroy, DestroyCall, SpuriousWake,
                WorkerWakeSpurious, MoveWorker, ClientType, WorkerRecord, Busy
  <2>3. QED
    BY <2>1, <2>2 DEF Accounted, Pending
<1>6. CASE Finish(u)
  <2>1. /\ accepted' = accepted /\ delivered' = delivered
        /\ unit'[u].has_input = unit[u].has_input
    BY <1>6 DEF Finish, WorkerFinish, ClientType, UnitRecord
  <2>2. worker[u].at \in Busy /\ worker'[u].at \in Busy
    BY <1>6 DEF Finish, WorkerFinish, ClientType, WorkerRecord, Busy
  <2>3. QED
    BY <2>1, <2>2 DEF Accounted, Pending
<1>7. CASE DestroyProgress(u)
  <2>1. /\ accepted' = accepted /\ delivered' = delivered
        /\ unit'[u].has_input = unit[u].has_input
    BY <1>7 DEF DestroyProgress, DestroyStep, DestroyWait, DestroyStop, DestroyJoin,
                ClientType, UnitRecord, history
  <2>2. worker'[u].at \in Busy <=> worker[u].at \in Busy
    BY <1>7 DEF DestroyProgress, DestroyStep, DestroyWait, DestroyStop, DestroyJoin,
                Wake, ClientType, WorkerRecord, Busy
  <2>3. QED
    BY <2>1, <2>2 DEF Accounted, Pending
<1>8. QED
  BY <1>2, <1>3, <1>4, <1>5, <1>6, <1>7 DEF UnitStep, Worker

-----------------------------------------------------------------------------

LEMMA NextUnitInv == UnitInv /\ [Next]_vars => UnitInv'
<1> SUFFICES ASSUME UnitInv, [Next]_vars PROVE UnitInv'
  OBVIOUS
<1>1. ASSUME NEW u \in Units, UnitStep(u) PROVE UnitInv'
  <2>1. ClientType /\ ClientType'
    BY <1>1, StepKeepsType DEF UnitInv
  <2>2. Protocol(u)' /\ Accounted(u)'
    BY <1>1, StepKeepsProtocol, StepKeepsAccount DEF UnitInv
  <2>3. ASSUME NEW v \in Units, v # u PROVE Protocol(v)' /\ Accounted(v)'
    <3>1. Protocol(v) /\ Accounted(v)
      BY DEF UnitInv
    <3>2. /\ unit'[v] = unit[v] /\ worker'[v] = worker[v]
          /\ destroyer'[v] = destroyer[v] /\ accepted'[v] = accepted[v]
          /\ delivered'[v] = delivered[v]
      BY <1>1, <2>1, <2>3, OtherUnits
    <3>3. QED
      BY <3>1, <3>2 DEF Protocol, Accounted
  <2>4. QED
    BY <2>1, <2>2, <2>3 DEF UnitInv
<1>2. CASE UNCHANGED vars
  BY <1>2 DEF vars, unitVars, UnitInv, ClientType, Protocol, Accounted
<1>3. QED
  BY <1>1, <1>2 DEF Next, UnitStep

LEMMA UnitInvariant == Spec => []UnitInv
  BY InitUnitInv, NextUnitInv, PTL DEF Spec

(* No input a Mock Unit accepted is dropped, overwritten or executed       *)
(* twice, however write, register, destroy and the worker interleave.      *)
THEOREM InputsAccounted == Spec => []EveryInputAccounted
<1>1. UnitInv => EveryInputAccounted
  BY TypeIsUnitType DEF UnitInv, EveryInputAccounted, Accounted, Busy
<1>2. QED
  BY <1>1, UnitInvariant, PTL

(* When unit_mock_destroy() frees the unit, its worker has exited and      *)
(* every accepted input was reported.                                      *)
THEOREM DestroyIsLast == Spec => []DestroyAfterLastResult
<1>1. UnitInv => DestroyAfterLastResult
  <2> SUFFICES ASSUME UnitInv, NEW u \in Units, destroyer[u] = "freed"
               PROVE  /\ worker[u].at = "exited"
                      /\ Len(delivered[u]) = Cardinality(accepted[u])
    BY DEF DestroyAfterLastResult
  <2>1. Protocol(u) /\ Accounted(u) /\ Len(delivered[u]) \in Nat
    BY LenProperties DEF UnitInv, ClientType
  <2>2. worker[u].at = "exited" /\ ~unit[u].has_input
    BY <2>1 DEF Protocol
  <2>3. QED
    BY <2>1, <2>2 DEF Accounted, Pending, Busy
<1>2. QED
  BY <1>1, UnitInvariant, PTL

-----------------------------------------------------------------------------

(* What the worker is about to report under the id of the unit's output.   *)
Attributed(u) ==
  /\ worker[u].at = "finished" => unit[u].request_id \in finished[u]
  /\ worker[u].at = "notifying" => worker[u].result.request_id \in finished[u]
  /\ \A i \in 1 .. Len(delivered[u]) : delivered[u][i].request_id \in finished[u]

AttributedInv == UnitInv /\ \A u \in Units : Attributed(u)

LEMMA StepKeepsAttribution ==
  ASSUME WaitForResult, ClientType, NEW u \in Units, Accounted(u), Attributed(u),
         UnitStep(u)
  PROVE  Attributed(u)'
<1> USE DEF ClientType
<1>1. Len(delivered[u]) \in Nat
  BY LenProperties
<1>2. CASE Write(u)
  <2>1. /\ Len(delivered[u]) = Cardinality(accepted[u])
        /\ finished' = finished /\ delivered' = delivered
    BY <1>2 DEF Write
  <2>2. worker[u].at \notin Busy
    <3>1. /\ Pending(unit[u].has_input) \in Nat /\ Pending(worker[u].at \in Busy) \in Nat
          /\ worker[u].at \in Busy => Pending(worker[u].at \in Busy) = 1
      BY DEF Pending
    <3>2. QED
      BY <1>1, <2>1, <3>1 DEF Accounted
  <2>3. worker'[u].at \notin Busy
    BY <1>2, <2>2 DEF Write, WriteInput, Wake, WorkerRecord, Busy
  <2>4. QED
    BY <2>1, <2>3 DEF Attributed, Busy
<1>3. CASE Register(u) \/ Destroy(u)
  <2>1. /\ unit'[u].request_id = unit[u].request_id /\ worker' = worker
        /\ finished' = finished /\ delivered' = delivered
    BY <1>3 DEF Register, SetResultOutput, Destroy, DestroyCall, UnitRecord, history
  <2>2. QED
    BY <2>1 DEF Attributed
<1>4. CASE WorkerOther(u)
  <2>1. finished' = finished /\ delivered' = delivered
    BY <1>4 DEF WorkerOther, history
  <2>2. CASE WorkerReadId(u)
    <3>1. /\ worker[u].at = "finished" /\ worker'[u].at = "notifying"
          /\ worker'[u].result.request_id = unit[u].request_id
      BY <2>2 DEF WorkerReadId, WorkerRecord, Result
    <3>2. QED
      BY <2>1, <3>1 DEF Attributed
  <2>3. CASE WorkerWait(u) \/ WorkerExit(u) \/ WorkerTake(u)
    <3>1. worker'[u].at \notin {"finished", "notifying"}
      BY <2>3 DEF WorkerWait, WorkerExit, WorkerTake, MoveWorker, WorkerRecord
    <3>2. QED
      BY <2>1, <3>1 DEF Attributed
  <2>4. QED
    BY <1>4, <2>2, <2>3 DEF WorkerOther
<1>5. CASE Finish(u)
  <2>1. /\ worker'[u].at = "finished" /\ delivered' = delivered
        /\ unit'[u].request_id = unit[u].request_id
        /\ finished'[u] = finished[u] \cup {unit[u].request_id}
    BY <1>5 DEF Finish, WorkerFinish, WorkerRecord, UnitRecord
  <2>2. QED
    BY <2>1 DEF Attributed
<1>6. CASE Deliver(u)
  <2>1. /\ worker[u].at = "notifying" /\ worker'[u].at = "ready"
        /\ finished' = finished
        /\ delivered'[u] = Append(delivered[u], worker[u].result)
        /\ worker[u].result \in Result
    BY <1>6 DEF Deliver, WorkerNotify, WorkerRecord
  <2>2. /\ Len(delivered'[u]) = Len(delivered[u]) + 1
        /\ \A i \in 1 .. Len(delivered[u]) : delivered'[u][i] = delivered[u][i]
        /\ delivered'[u][Len(delivered[u]) + 1] = worker[u].result
    BY <2>1, AppendProperties
  <2>3. ASSUME NEW i \in 1 .. Len(delivered'[u])
        PROVE  delivered'[u][i].request_id \in finished[u]
    BY <1>1, <2>1, <2>2 DEF Attributed
  <2>4. QED
    BY <2>1, <2>3 DEF Attributed
<1>7. CASE SpuriousWake(u) \/ DestroyProgress(u)
  <2>1. /\ finished' = finished /\ delivered' = delivered
        /\ unit'[u].request_id = unit[u].request_id
    BY <1>7 DEF SpuriousWake, WorkerWakeSpurious, DestroyProgress, DestroyStep,
                DestroyWait, DestroyStop, DestroyJoin, UnitRecord, history
  <2>2. worker'[u] = worker[u] \/ worker'[u].at = "ready"
    BY <1>7 DEF SpuriousWake, WorkerWakeSpurious, MoveWorker, DestroyProgress,
                DestroyStep, DestroyWait, DestroyStop, DestroyJoin, Wake, WorkerRecord
  <2>3. QED
    BY <2>1, <2>2 DEF Attributed
<1>8. QED
  BY <1>2, <1>3, <1>4, <1>5, <1>6, <1>7 DEF UnitStep, Worker

LEMMA NextAttributed ==
  ASSUME WaitForResult, AttributedInv, [Next]_vars
  PROVE  AttributedInv'
<1>1. ClientType /\ UnitInv'
  BY NextUnitInv DEF AttributedInv, UnitInv
<1>2. ASSUME NEW u \in Units, UnitStep(u), NEW v \in Units PROVE Attributed(v)'
  <2>1. CASE v = u
    BY <1>1, <1>2, <2>1, StepKeepsAttribution DEF AttributedInv, UnitInv
  <2>2. CASE v # u
    <3>1. /\ unit'[v] = unit[v] /\ worker'[v] = worker[v]
          /\ finished'[v] = finished[v] /\ delivered'[v] = delivered[v]
      BY <1>1, <1>2, <2>2, OtherUnits
    <3>2. QED
      BY <3>1 DEF Attributed, AttributedInv
  <2>3. QED
    BY <2>1, <2>2
<1>3. CASE UNCHANGED vars
  BY <1>1, <1>3 DEF vars, unitVars, AttributedInv, Attributed
<1>4. QED
  BY <1>1, <1>2, <1>3 DEF Next, UnitStep, AttributedInv

(* unit_mock_result_t.request_id is "the request that completed or failed" *)
(* if the caller writes the next input only after the callback for the     *)
(* previous one; UnitMock_stale shows that otherwise it need not be.       *)
THEOREM ResultsAreAttributed ==
  ASSUME WaitForResult
  PROVE  Spec => []ResultNamesFinishedRequest
<1>1. Init => AttributedInv
  <2> SUFFICES ASSUME Init, NEW u \in Units PROVE Attributed(u)
    BY InitUnitInv DEF AttributedInv
  <2>1. worker[u].at = "ready" /\ delivered[u] = << >>
    BY DEF Init, UnitInit
  <2>2. QED
    BY <2>1, EmptySeq DEF Attributed
<1>2. AttributedInv /\ [Next]_vars => AttributedInv'
  BY NextAttributed
<1>3. AttributedInv => ResultNamesFinishedRequest
  BY DEF AttributedInv, Attributed, ResultNamesFinishedRequest
<1>4. QED
  BY <1>1, <1>2, <1>3, PTL DEF Spec
=============================================================================
