--------------------------- MODULE EventStateMachine ---------------------------
(***************************************************************************)
(* ut_event_state_machine_t and the trace it reports transitions to. A     *)
(* step is the code between two callbacks: lookup up to a guard, exit      *)
(* hook, action, entry hook, trace sink, return. Callbacks may call the    *)
(* machine back: hooks and actions are answered BUSY without effect, but a *)
(* sink runs after dispatching was reset and a guard before it is set, so  *)
(* their calls go through. A guard gets a const machine, whose             *)
(* user_context may still lead it there: GuardsDispatch says whether it    *)
(* does. What a guard answers is free.                                     *)
(***************************************************************************)
EXTENDS Naturals, Sequences

CONSTANTS
  States,          \* the state table
  Transitions,     \* the transition table, a sequence of records
  InitialState,
  AnyState,        \* UT_EVENT_STATE_ID_ANY
  AnyEvent,        \* UT_EVENT_ID_ANY
  MachineEvent,    \* ids of the events dispatched
  GuardsDispatch,  \* whether guards dispatch and set the trace as well
  MaxNesting       \* bound of the model: dispatches under way at a time

Transition ==
  [from_state : States \cup {AnyState}, event_id : MachineEvent \cup {AnyEvent},
   to_state : States, guarded : BOOLEAN, internal : BOOLEAN]

(* The ids of a state table are unique, as States is a set.                *)
StatesAreValid == States # {} /\ AnyState \notin States
TransitionsAreValid == Transitions # << >> /\ Transitions \in Seq(Transition)

(* An internal transition skips the hooks, so one that changes the state   *)
(* hides the change from them: the tables of this program have none.       *)
ASSUME MachineAssumption ==
  /\ StatesAreValid /\ TransitionsAreValid /\ InitialState \in States
  /\ \A k \in DOMAIN Transitions :
       Transitions[k].internal => Transitions[k].from_state = Transitions[k].to_state
  /\ GuardsDispatch \in BOOLEAN /\ MaxNesting \in Nat \ {0}

VARIABLES
  machine,   \* current_state, dispatching and whether a trace is set
  frames,    \* dispatch calls under way, outermost first
  entered,   \* history: states whose entry came and whose exit did not
  told,      \* history: the state the sink was told last, AnyState if none
  unbroken   \* history: each record told began where the one before ended

machineVars == <<machine, frames, entered, told, unbroken>>

(* ut_event_state_machine_init(), which calls no entry hook: the initial   *)
(* state counts as entered.                                                *)
MachineInit ==
  /\ machine = [current_state |-> InitialState, dispatching |-> FALSE, trace |-> FALSE]
  /\ frames = << >>
  /\ entered = {InitialState}
  /\ told = AnyState /\ unbroken = TRUE

Top == frames[Len(frames)]
TopIs(phase) == frames # << >> /\ Top.phase = phase
Step(phase) == [frames EXCEPT ![Len(frames)].phase = phase]

Matches(k, id) ==
  /\ Transitions[k].from_state \in {machine.current_state, AnyState}
  /\ Transitions[k].event_id \in {id, AnyEvent}

(* The next row to try for id, from row first on.                          *)
Candidate(id, first, k) ==
  k >= first /\ Matches(k, id) /\ \A j \in first .. k - 1 : ~Matches(j, id)

(* The lookup is at row k: its guard is called or, if it has none, the     *)
(* exit hook. dispatching is set in between.                               *)
Tried(k, id, previous_state) ==
  [row |-> k, phase |-> IF Transitions[k].guarded THEN "guard" ELSE "exit",
   event |-> id, previous_state |-> previous_state]

(* Mistake: a dispatch from a callback is let in.                          *)
AlwaysIdle == TRUE

NotDispatching == ~machine.dispatching

(* A call from the application or from the callback under way.             *)
Callable == NotDispatching /\ (TopIs("guard") => GuardsDispatch)

(* ut_event_state_machine_dispatch() up to its first callback. BUSY and    *)
(* NOT_FOUND change nothing.                                               *)
Dispatch(id) ==
  /\ Callable /\ Len(frames) < MaxNesting
  /\ \E k \in DOMAIN Transitions :
       /\ Candidate(id, 1, k)
       /\ frames' = Append(frames, Tried(k, id, machine.current_state))
       /\ machine' = [machine EXCEPT !.dispatching = ~Transitions[k].guarded]
  /\ UNCHANGED <<entered, told, unbroken>>

(* The guard said yes; dispatching is set and the exit hook called.        *)
GuardAllows ==
  /\ TopIs("guard")
  /\ machine' = [machine EXCEPT !.dispatching = TRUE]
  /\ frames' = Step("exit")
  /\ UNCHANGED <<entered, told, unbroken>>

(* The guard said no; the rows below are compared with the state the       *)
(* machine is in now.                                                      *)
GuardRefuses ==
  /\ TopIs("guard")
  /\ \E k \in DOMAIN Transitions :
       /\ Candidate(Top.event, Top.row + 1, k)
       /\ frames' = [frames EXCEPT ![Len(frames)] = Tried(k, Top.event, Top.previous_state)]
       /\ machine' = [machine EXCEPT !.dispatching = ~Transitions[k].guarded]
  /\ UNCHANGED <<entered, told, unbroken>>

(* No row is left: NOT_FOUND.                                              *)
NoTransition ==
  /\ TopIs("guard")
  /\ \A k \in DOMAIN Transitions : ~Candidate(Top.event, Top.row + 1, k)
  /\ frames' = SubSeq(frames, 1, Len(frames) - 1)
  /\ UNCHANGED <<machine, entered, told, unbroken>>

Row == Transitions[Top.row]

ExitState ==
  /\ TopIs("exit")
  /\ entered' = IF Row.internal THEN entered ELSE entered \ {Top.previous_state}
  /\ frames' = Step("action")
  /\ UNCHANGED <<machine, told, unbroken>>

(* The action returned: the machine is in the new state.                   *)
TakeTransition ==
  /\ TopIs("action")
  /\ machine' = [machine EXCEPT !.current_state = Row.to_state]
  /\ frames' = Step("entry")
  /\ UNCHANGED <<entered, told, unbroken>>

(* trace_transition(), a record of the previous and the current state.     *)
TraceTransition ==
  /\ told' = IF machine.trace THEN machine.current_state ELSE told
  /\ unbroken' =
       (unbroken /\ (machine.trace => told \in {Top.previous_state, AnyState}))

(* The entry hook returned; dispatching is reset and the sink called.      *)
EnterState ==
  /\ TopIs("entry")
  /\ entered' = IF Row.internal THEN entered ELSE entered \cup {Row.to_state}
  /\ machine' = [machine EXCEPT !.dispatching = FALSE]
  /\ TraceTransition
  /\ frames' = Step("traced")

(* The sink returned, and so does the dispatch.                            *)
Return ==
  /\ TopIs("traced")
  /\ frames' = SubSeq(frames, 1, Len(frames) - 1)
  /\ UNCHANGED <<machine, entered, told, unbroken>>

(* ut_event_state_machine_set_trace(), with a trace or NULL.               *)
SetTrace(attached) ==
  /\ Callable
  /\ machine' = [machine EXCEPT !.trace = attached]
  /\ told' = AnyState
  /\ UNCHANGED <<frames, entered, unbroken>>

MachineNext ==
  \/ \E id \in MachineEvent : Dispatch(id)
  \/ GuardAllows \/ GuardRefuses \/ NoTransition
  \/ ExitState \/ TakeTransition \/ EnterState \/ Return
  \/ \E attached \in BOOLEAN : SetTrace(attached)

MachineSpec == MachineInit /\ [][MachineNext]_machineVars

-----------------------------------------------------------------------------

Phase == {"guard", "exit", "action", "entry", "traced"}
Frame ==
  [row : DOMAIN Transitions, phase : Phase, event : MachineEvent,
   previous_state : States]

MachineType ==
  /\ machine \in [current_state : States, dispatching : BOOLEAN, trace : BOOLEAN]
  /\ frames \in Seq(Frame)
  /\ entered \subseteq States
  /\ told \in States \cup {AnyState}
  /\ unbroken \in BOOLEAN

(* Between two transitions every observer has the same picture: one state  *)
(* was entered and not left, it is the current one, and the transitions a  *)
(* connected trace was told of form one chain that ends in it. Dispatches  *)
(* from hooks, actions and the sink do not disturb it; those of a guard    *)
(* would, so the tables have none.                                         *)
MachineAsObserved ==
  ~machine.dispatching =>
    /\ entered = {machine.current_state}
    /\ unbroken /\ told \in {machine.current_state, AnyState}
=============================================================================
