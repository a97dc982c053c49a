------------------------ MODULE DomainServiceProofs ------------------------
(***************************************************************************)
(* For every set of units, every workflow catalog the loader accepts and   *)
(* every behaviour of Control, the units and the clock: as long as the     *)
(* event queue never fills up, a workflow is moved on by exactly one thing *)
(* at a time, the three runners agree, what Control reads at the end is    *)
(* the truth and stays so, every accepted request is reported once, and no *)
(* runner points into a destroyed catalog. It never fills up when it and   *)
(* the dispatch budget are above twice the units plus five; and then units *)
(* work one at a time until a step times out.                              *)
(***************************************************************************)
EXTENDS DomainService, FiniteSetTheorems, SequenceTheorems, TLAPS

-----------------------------------------------------------------------------
(* The inductive invariant, over the values of the variables.              *)

NoChain(c) == \A i \in DOMAIN c.pending : c.pending[i].id \notin ChainEvents

(* e is the only event from one runner to the next.                        *)
OneChain(c, e) ==
  /\ e.id \in ChainEvents
  /\ \E i \in DOMAIN c.pending :
       /\ c.pending[i] = e
       /\ \A j \in DOMAIN c.pending : j # i => c.pending[j].id \notin ChainEvents

InstalledIn(cat) == {cat[k] : k \in DOMAIN cat}

MachinesOf(m) == <<m.feature, m.scenario, m.sequence>>

AllRunning == <<"RUNNING", "RUNNING", "RUNNING">>

(* The steps before step k + 1 of sequence i + 1.                          *)
Before(d, i, k) ==
  {p \in Positions(d) : p[1] <= i \/ (p[1] = i + 1 /\ p[2] <= k)}

(* The counted steps are those before the sequence runner's place.         *)
Standing(s, q, out) ==
  /\ s.sequence_index + 1 \in DOMAIN s.definition.sequences
  /\ q.definition = s.definition.sequences[s.sequence_index + 1]
  /\ q.step_index <= Len(q.definition)
  /\ out.completed_step_count
       = Cardinality(Before(s.definition, s.sequence_index, q.step_index))

Completions == {"SEQUENCE_COMPLETED", "SCENARIO_COMPLETED", "FEATURE_COMPLETED"}
Failures    == {"SEQUENCE_ERROR", "SCENARIO_ERROR", "FEATURE_ERROR"}

Agrees(e, m, s, q, out) ==
  /\ MachinesOf(m) = ExpectedMachines(e.id)
  /\ e.feature_request_id = out.request_id
  /\ e.id = "SEQUENCE_COMPLETED" =>
       Standing(s, q, out) /\ q.step_index = Len(q.definition)
  /\ e.id \in {"SCENARIO_COMPLETED", "FEATURE_COMPLETED"} =>
       out.completed_step_count = s.definition.total_step_count
  /\ e.id \in Completions => e.error = "NONE"
  /\ e.id \in Failures =>
       /\ e.error \notin {"NONE", "INTERNAL"}
       /\ out.completed_step_count < s.definition.total_step_count

Fresh(c, m, s, q, out) ==
  /\ NoChain(c) /\ ~q.step_running
  /\ m.feature = "RUNNING" /\ m.scenario = "RUNNING"
  /\ s.sequence_index = 0 /\ out.completed_step_count = 0

Waiting(c, m, s, q, out) ==
  /\ NoChain(c) /\ q.step_running
  /\ MachinesOf(m) = AllRunning
  /\ Standing(s, q, out) /\ q.step_index < Len(q.definition)

UnderWay(c, m, s, q, out) ==
  /\ ~q.step_running
  /\ \E e \in DomainEvent : OneChain(c, e) /\ Agrees(e, m, s, q, out)

Over(c, m, q, out) ==
  /\ NoChain(c) /\ ~q.step_running
  /\ out.status = "COMPLETED" =>
       /\ out.error = "NONE"
       /\ out.completed_step_count = out.total_step_count
       /\ MachinesOf(m) = ExpectedMachines("FEATURE_COMPLETED")
  /\ out.status = "ERROR" =>
       /\ out.error \notin {"NONE", "INTERNAL"}
       /\ out.completed_step_count < out.total_step_count
       /\ MachinesOf(m) = ExpectedMachines("FEATURE_ERROR")

Moving(c, m, s, q, out) == Waiting(c, m, s, q, out) \/ UnderWay(c, m, s, q, out)

Progress(c, m, s, q, out, started) ==
  IF out.status # "RUNNING" THEN Over(c, m, q, out)
  ELSE IF started THEN Moving(c, m, s, q, out)
  ELSE Fresh(c, m, s, q, out)

Pointers(s, q, cat) ==
  /\ s.definition # Null => s.definition \in InstalledIn(cat)
  /\ q.definition # Null =>
       /\ s.definition \in InstalledIn(cat)
       /\ \E i \in DOMAIN s.definition.sequences :
            q.definition = s.definition.sequences[i]

(* The request that runs.                                                  *)
Requested(s, q, out, started, asked) ==
  out.status = "RUNNING" =>
    /\ s.definition # Null /\ (started => q.definition # Null)
    /\ out.total_step_count = s.definition.total_step_count
    /\ asked # << >> /\ asked[Len(asked)] = out.request_id

Reported(out, asked, told) ==
  /\ Len(asked) = Len(told) + IF out.status = "RUNNING" THEN 1 ELSE 0
  /\ \A i \in DOMAIN told : told[i].request_id = asked[i]

Report == [request_id : RequestId, error : DomainError]

MachineRec  == [{"feature", "scenario", "sequence"} -> Status]
ScenarioRec == [definition : Scenarios \cup {Null}, sequence_index : Nat]
SequenceRec ==
  [definition : SequenceDefinitions \cup {Null}, step_index : Nat,
   unit_request_id : RequestId, step_deadline_ms : Nat,
   step_running : BOOLEAN, timeout_published : BOOLEAN]
OutputRec ==
  [status : Status, request_id : RequestId, completed_step_count : Nat,
   total_step_count : Nat, error : DomainError]
ControlRec ==
  [at : {"idle", "dispatch", "callback", "release"}, dispatched : 0 .. Budget]
ChannelRec == [pending : Seq(DomainEvent), held : Seq(DomainEvent)]

Bounded(c) == Len(c.pending) <= QueueCapacity /\ Len(c.held) <= 1

(* What the handlers and process() work on.                                *)
RunnersType ==
  /\ channel \in ChannelRec /\ Bounded(channel)
  /\ machine \in MachineRec /\ scenario \in ScenarioRec
  /\ sequence \in SequenceRec /\ output \in OutputRec

(* The event being handled is one the budget allowed.                      *)
WithinBudget == control.at \in {"callback", "release"} => control.dispatched < Budget

RestType ==
  /\ workflow_started \in BOOLEAN /\ current_time_ms \in Nat /\ clock \in Nat
  /\ catalog \in Catalogs /\ alive \in {"no", "yes", "destroyed"}
  /\ control \in ControlRec /\ WithinBudget
  /\ requests \in Seq(RequestId) /\ reports \in Seq(Report)

RunnersInv ==
  /\ RunnersType
  /\ Progress(channel, machine, scenario, sequence, output, workflow_started)
  /\ Pointers(scenario, sequence, catalog)
  /\ Requested(scenario, sequence, output, workflow_started, requests)
  /\ Reported(output, requests, reports)

Reports == \A u \in Units : unit[u].result_output = Publisher

UnitInv == UnitType /\ (alive = "yes" => Reports)

DomainInv == UnitInv /\ RestType /\ RunnersInv

LEMMA TypesAreTypeOK == UnitType /\ RunnersType /\ RestType => TypeOK
<1> SUFFICES ASSUME UnitType, RunnersType, RestType PROVE TypeOK
  OBVIOUS
<1>1. Channel!ChannelType
  BY DEF RunnersType, ChannelRec, Bounded, Channel!ChannelType, Channel!Event
<1>2. QED
  BY <1>1 DEF TypeOK, RunnersType, RestType, MachineRec, ScenarioRec, SequenceRec,
              OutputRec, ControlRec

-----------------------------------------------------------------------------
(* What the assumptions say of the workflows.                              *)

LEMMA DefinitionFacts ==
  ASSUME NEW d \in Scenarios
  PROVE  /\ d # Null /\ d.sequences \in Seq(Seq(Step)) /\ d.sequences # << >>
         /\ d.total_step_count = Cardinality(Positions(d))
         /\ \A i \in DOMAIN d.sequences :
              /\ d.sequences[i] \in SequenceDefinitions
              /\ d.sequences[i] \in Seq(Step) /\ d.sequences[i] # << >>
              /\ d.sequences[i] # Null
<1>1. /\ d # Null /\ d.sequences \in Seq(Seq(Step)) /\ d.sequences # << >>
      /\ d.total_step_count = Cardinality(Positions(d))
  BY DomainAssumption
<1>2. ASSUME NEW i \in DOMAIN d.sequences
      PROVE  /\ d.sequences[i] \in SequenceDefinitions
             /\ d.sequences[i] \in Seq(Step) /\ d.sequences[i] # << >>
             /\ d.sequences[i] # Null
  <2>1. d.sequences[i] \in SequenceDefinitions
    BY DEF SequenceDefinitions
  <2>2. d.sequences[i] \in Seq(Step)
    BY <1>1, LenProperties, ElementOfSeq
  <2>3. QED
    BY <2>1, <2>2, DomainAssumption
<1>3. QED
  BY <1>1, <1>2

LEMMA InstalledAreScenarios ==
  ASSUME NEW cat \in Catalogs, NEW d \in InstalledIn(cat)
  PROVE  d \in Scenarios
  BY DEF InstalledIn, Scenarios

LEMMA PositionsFinite ==
  ASSUME NEW d \in Scenarios
  PROVE  IsFiniteSet(Positions(d)) /\ Cardinality(Positions(d)) \in Nat
<1>1. /\ d.sequences \in Seq(Seq(Step))
      /\ \A i \in DOMAIN d.sequences : d.sequences[i] \in Seq(Step)
  BY DefinitionFacts
<1>2. Len(d.sequences) \in Nat /\ DOMAIN d.sequences = 1 .. Len(d.sequences)
  BY <1>1, LenProperties
<1>3. IsFiniteSet(DOMAIN d.sequences)
  BY <1>2, FS_Interval
<1> DEFINE rows == {{i} \X DOMAIN d.sequences[i] : i \in DOMAIN d.sequences}
           row == [i \in DOMAIN d.sequences |-> {i} \X DOMAIN d.sequences[i]]
<1>4. row \in Surjection(DOMAIN d.sequences, rows)
  BY DEF Surjection
<1>5. IsFiniteSet(rows)
  BY <1>3, <1>4, FS_Surjection
<1>6. ASSUME NEW i \in DOMAIN d.sequences
      PROVE  IsFiniteSet({i} \X DOMAIN d.sequences[i])
  <2>1. IsFiniteSet(DOMAIN d.sequences[i])
    BY <1>1, LenProperties, FS_Interval
  <2>2. QED
    BY <2>1, FS_Singleton, FS_Product
<1>7. IsFiniteSet(UNION rows)
  BY <1>5, <1>6, FS_UNION
<1>8. QED
  BY <1>7, FS_CardinalityType DEF Positions

LEMMA PositionIsPair ==
  ASSUME NEW d \in Scenarios, NEW p \in Positions(d)
  PROVE  /\ p[1] \in 1 .. Len(d.sequences) /\ p[2] \in 1 .. Len(d.sequences[p[1]])
         /\ p = <<p[1], p[2]>>
<1>1. /\ d.sequences \in Seq(Seq(Step))
      /\ \A i \in DOMAIN d.sequences : d.sequences[i] \in Seq(Step)
  BY DefinitionFacts
<1>2. PICK i \in DOMAIN d.sequences : p \in {i} \X DOMAIN d.sequences[i]
  BY DEF Positions
<1>3. p = <<p[1], p[2]>> /\ p[1] = i /\ p[2] \in DOMAIN d.sequences[i]
  BY <1>2
<1>4. QED
  BY <1>1, <1>3, LenProperties

LEMMA PairIsPosition ==
  ASSUME NEW d \in Scenarios, NEW i \in DOMAIN d.sequences,
         NEW k \in DOMAIN d.sequences[i]
  PROVE  <<i, k>> \in Positions(d)
  BY DEF Positions

LEMMA BeforeFinite ==
  ASSUME NEW d \in Scenarios, NEW i \in Nat, NEW k \in Nat
  PROVE  /\ IsFiniteSet(Before(d, i, k)) /\ Cardinality(Before(d, i, k)) \in Nat
         /\ Cardinality(Before(d, i, k)) <= Cardinality(Positions(d))
<1>1. Before(d, i, k) \in SUBSET Positions(d)
  BY DEF Before
<1>2. QED
  BY <1>1, PositionsFinite, FS_Subset, FS_CardinalityType

LEMMA NothingBefore ==
  ASSUME NEW d \in Scenarios
  PROVE  Cardinality(Before(d, 0, 0)) = 0
<1>1. ASSUME NEW p \in Before(d, 0, 0) PROVE FALSE
  <2>1. /\ p \in Positions(d)
        /\ p[1] <= 0 \/ (p[1] = 0 + 1 /\ p[2] <= 0)
    BY DEF Before
  <2>2. p[1] \in 1 .. Len(d.sequences) /\ p[2] \in 1 .. Len(d.sequences[p[1]])
    BY <2>1, PositionIsPair
  <2>3. QED
    BY <2>1, <2>2
<1>2. Before(d, 0, 0) = {}
  BY <1>1
<1>3. QED
  BY <1>2, FS_EmptySet

(* A step that is next is one more, and was not counted yet.               *)
LEMMA OneMoreBefore ==
  ASSUME NEW d \in Scenarios, NEW i \in Nat, i + 1 \in DOMAIN d.sequences,
         NEW k \in Nat, k < Len(d.sequences[i + 1])
  PROVE  /\ Cardinality(Before(d, i, k + 1)) = Cardinality(Before(d, i, k)) + 1
         /\ Cardinality(Before(d, i, k)) < Cardinality(Positions(d))
<1> DEFINE next == <<i + 1, k + 1>>
<1>1. d.sequences[i + 1] \in Seq(Step)
  BY DefinitionFacts
<1>2. Len(d.sequences[i + 1]) \in Nat /\ k + 1 \in DOMAIN d.sequences[i + 1]
  BY <1>1, LenProperties
<1>3. next \in Positions(d)
  BY <1>2, PairIsPosition
<1>4. next \notin Before(d, i, k)
  BY DEF Before
<1>5. ASSUME NEW p PROVE p \in Before(d, i, k + 1) <=> p \in Before(d, i, k) \cup {next}
  <2>1. CASE p \in Positions(d)
    <3>1. p[1] \in Nat /\ p[2] \in Nat /\ p = <<p[1], p[2]>>
      BY <2>1, PositionIsPair, DefinitionFacts, LenProperties
    <3>2. p = next <=> p[1] = i + 1 /\ p[2] = k + 1
      BY <3>1
    <3>3. QED
      BY <2>1, <3>1, <3>2 DEF Before
  <2>2. CASE p \notin Positions(d)
    BY <2>2, <1>3 DEF Before
  <2>3. QED
    BY <2>1, <2>2
<1>6. Before(d, i, k + 1) = Before(d, i, k) \cup {next}
  BY <1>5
<1>7. Cardinality(Before(d, i, k + 1)) = Cardinality(Before(d, i, k)) + 1
  BY <1>4, <1>6, BeforeFinite, FS_AddElement
<1>8. \A n \in Nat : Cardinality(Before(d, i, n)) <= Cardinality(Positions(d))
  BY BeforeFinite
<1>9. PICK n \in Nat : n = k + 1
  OBVIOUS
<1>10. Cardinality(Before(d, i, k + 1)) <= Cardinality(Positions(d))
  BY <1>8, <1>9
<1>11. Cardinality(Before(d, i, k)) \in Nat
  BY BeforeFinite
<1>12. QED
  BY <1>7, <1>10, <1>11, PositionsFinite

LEMMA BeforeNextSequence ==
  ASSUME NEW d \in Scenarios, NEW i \in Nat, i + 1 \in DOMAIN d.sequences,
         NEW k, k = Len(d.sequences[i + 1])
  PROVE  /\ Before(d, i, k) = Before(d, i + 1, 0)
         /\ i + 1 = Len(d.sequences) => Before(d, i, k) = Positions(d)
<1>1. d.sequences \in Seq(Seq(Step)) /\ d.sequences[i + 1] \in Seq(Step)
  BY DefinitionFacts
<1>2. Len(d.sequences) \in Nat /\ k \in Nat
  BY <1>1, LenProperties
<1>3. ASSUME NEW p \in Positions(d)
      PROVE  /\ p \in Before(d, i, k) <=> p[1] <= i + 1
             /\ p \in Before(d, i + 1, 0) <=> p[1] <= i + 1
             /\ i + 1 = Len(d.sequences) => p[1] <= i + 1
  <2>1. p[1] \in 1 .. Len(d.sequences) /\ p[2] \in 1 .. Len(d.sequences[p[1]])
    BY PositionIsPair
  <2>2. p[1] = i + 1 => p[2] <= k
    BY <1>2, <2>1
  <2>3. p[2] \in Nat /\ p[2] # 0
    BY <2>1
  <2>4. QED
    BY <1>2, <2>1, <2>2, <2>3 DEF Before
<1>4. Before(d, i, k) \subseteq Positions(d) /\ Before(d, i + 1, 0) \subseteq Positions(d)
  BY DEF Before
<1>5. QED
  BY <1>3, <1>4

-----------------------------------------------------------------------------
(* The channel.                                                            *)

LEMMA SameCardinality ==
  ASSUME NEW S
  PROVE  Channel!Cardinality(S) = Cardinality(S)
  BY DEF Channel!Cardinality, Cardinality

LEMMA SlotsAreEvents ==
  ASSUME NEW c \in ChannelRec
  PROVE  Channel!SlotsInUse(c) = Len(c.pending) + Len(c.held)
<1>1. c.pending \in Seq(DomainEvent) /\ c.held \in Seq(DomainEvent)
  BY DEF ChannelRec
<1>2. ASSUME NEW s \in Seq(DomainEvent)
      PROVE  Cardinality({k \in DOMAIN s : s[k] \in DomainEvent}) = Len(s)
  <2>1. Len(s) \in Nat /\ DOMAIN s = 1 .. Len(s) /\ \A k \in DOMAIN s : s[k] \in DomainEvent
    BY LenProperties, ElementOfSeq
  <2>2. {k \in DOMAIN s : s[k] \in DomainEvent} = 1 .. Len(s)
    BY <2>1
  <2>3. \A n \in Nat : Cardinality(1 .. n) = n
    BY FS_Interval
  <2>4. QED
    BY <2>1, <2>2, <2>3
<1>3. QED
  BY <1>1, <1>2, SameCardinality DEF Channel!SlotsInUse

LEMMA RoomForEvent ==
  ASSUME NEW c \in ChannelRec, NEW e,
         Len(c.pending) + Len(c.held) < QueueCapacity
  PROVE  Channel!HasRoom(c, e)
<1>1. Len(c.pending) \in Nat /\ Len(c.held) \in Nat /\ QueueCapacity \in Nat
  BY LenProperties, DomainAssumption DEF ChannelRec
<1>2. Len(c.pending) < QueueCapacity
  <2>1. PICK m \in Nat, n \in Nat, k \in Nat :
          m = Len(c.pending) /\ n = Len(c.held) /\ k = QueueCapacity
    BY <1>1
  <2>2. m + n < k
    BY <2>1
  <2>3. m < k
    BY <2>2
  <2>4. QED
    BY <2>1, <2>3
<1>3. Channel!SlotsInUse(c) < QueueCapacity
  BY SlotsAreEvents
<1>4. QED
  BY <1>2, <1>3 DEF Channel!HasRoom

(* What publish() does to the pending events.                              *)
LEMMA PublishedFields ==
  ASSUME NEW c \in ChannelRec, Bounded(c), NEW e \in DomainEvent,
         NEW f, f = Channel!Published(c, e)
  PROVE  /\ f \in ChannelRec /\ Bounded(f) /\ f.held = c.held
         /\ f = c \/ f.pending = Append(c.pending, e)
         /\ Channel!HasRoom(c, e) => f.pending = Append(c.pending, e)
<1>1. c.pending \in Seq(DomainEvent) /\ c.held \in Seq(DomainEvent)
  BY DEF ChannelRec
<1>2. Append(c.pending, e) \in Seq(DomainEvent)
      /\ Len(Append(c.pending, e)) = Len(c.pending) + 1 /\ Len(c.pending) \in Nat
  BY <1>1, AppendProperties, LenProperties
<1>3. CASE Channel!HasRoom(c, e)
  <2>1. f = [c EXCEPT !.pending = Append(c.pending, e)]
    BY <1>3 DEF Channel!Published
  <2>2. f \in ChannelRec /\ f.pending = Append(c.pending, e) /\ f.held = c.held
    BY <1>2, <2>1 DEF ChannelRec
  <2>3. Len(c.pending) < QueueCapacity
    BY <1>3 DEF Channel!HasRoom
  <2>4. Bounded(f)
    BY <1>2, <2>2, <2>3, DomainAssumption DEF Bounded
  <2>5. QED
    BY <2>2, <2>4
<1>4. CASE ~Channel!HasRoom(c, e)
  <2>1. f = c
    BY <1>4 DEF Channel!Published
  <2>2. QED
    BY <1>4, <2>1
<1>5. QED
  BY <1>3, <1>4

LEMMA TakenFields ==
  ASSUME NEW c \in ChannelRec, Bounded(c), c.pending # << >>,
         NEW f, f = Channel!Taken(c)
  PROVE  /\ f \in ChannelRec /\ Bounded(f)
         /\ f.pending = Tail(c.pending) /\ Len(f.held) = 1
         /\ Len(f.pending) + 1 = Len(c.pending)
         /\ Head(c.pending) \in DomainEvent /\ Head(c.pending) = c.pending[1]
<1>1. c.pending \in Seq(DomainEvent)
  BY DEF ChannelRec
<1>2. /\ Head(c.pending) \in DomainEvent /\ Tail(c.pending) \in Seq(DomainEvent)
      /\ Len(Tail(c.pending)) = Len(c.pending) - 1 /\ Len(c.pending) \in Nat
  BY <1>1, HeadTailProperties, LenProperties
<1>3. << Head(c.pending) >> \in Seq(DomainEvent) /\ Len(<< Head(c.pending) >>) = 1
  BY <1>2
<1>4. f = [pending |-> Tail(c.pending), held |-> << Head(c.pending) >>]
  BY DEF Channel!Taken
<1>5. f \in ChannelRec /\ f.pending = Tail(c.pending) /\ Len(f.held) = 1
  BY <1>2, <1>3, <1>4 DEF ChannelRec
<1>6. Bounded(f)
  BY <1>2, <1>5, DomainAssumption DEF Bounded
<1>7. QED
  BY <1>1, <1>2, <1>5, <1>6

LEMMA ReleasedFields ==
  ASSUME NEW c \in ChannelRec, Bounded(c), NEW f, f = Channel!Released(c)
  PROVE  f \in ChannelRec /\ Bounded(f) /\ f.pending = c.pending
<1>1. f = [c EXCEPT !.held = << >>]
  BY DEF Channel!Released
<1>2. << >> \in Seq(DomainEvent) /\ Len(<< >>) = 0
  BY EmptySeq
<1>3. f \in ChannelRec /\ f.pending = c.pending /\ f.held = << >>
  BY <1>1, <1>2 DEF ChannelRec
<1>4. QED
  BY <1>2, <1>3 DEF Bounded

LEMMA ChainTaken ==
  ASSUME NEW c \in ChannelRec, c.pending # << >>,
         NEW f, f.pending = Tail(c.pending)
  PROVE  /\ NoChain(c) => Head(c.pending).id \notin ChainEvents /\ NoChain(f)
         /\ \A e : OneChain(c, e) =>
              IF Head(c.pending).id \in ChainEvents
              THEN e = Head(c.pending) /\ NoChain(f)
              ELSE OneChain(f, e)
<1>1. c.pending \in Seq(DomainEvent)
  BY DEF ChannelRec
<1>2. PICK n \in Nat : n = Len(c.pending)
  BY <1>1, LenProperties
<1>3. n # 0 /\ Head(c.pending) = c.pending[1] /\ DOMAIN c.pending = 1 .. n
  BY <1>1, <1>2, EmptySeq, LenProperties
<1>4. DOMAIN f.pending = 1 .. n - 1 /\ \A i \in 1 .. n - 1 : f.pending[i] = c.pending[i + 1]
  BY <1>1, <1>2, HeadTailProperties, LenProperties
<1>5. NoChain(c) => Head(c.pending).id \notin ChainEvents /\ NoChain(f)
  BY <1>3, <1>4 DEF NoChain
<1>6. ASSUME NEW e, OneChain(c, e)
      PROVE  IF Head(c.pending).id \in ChainEvents
             THEN e = Head(c.pending) /\ NoChain(f)
             ELSE OneChain(f, e)
  <2>1. PICK i \in 1 .. n :
          /\ c.pending[i] = e
          /\ \A j \in 1 .. n : j # i => c.pending[j].id \notin ChainEvents
    BY <1>3, <1>6 DEF OneChain
  <2>2. CASE i = 1
    <3>1. e = Head(c.pending) /\ NoChain(f)
      BY <1>3, <1>4, <2>1, <2>2 DEF NoChain
    <3>2. QED
      BY <3>1, <1>6 DEF OneChain
  <2>3. CASE i # 1
    <3>1. Head(c.pending).id \notin ChainEvents
      BY <1>3, <2>1, <2>3
    <3>2. PICK k \in 1 .. n - 1 : k + 1 = i
      BY <2>3
    <3>3. f.pending[k] = e
      BY <1>4, <2>1, <3>2
    <3>4. \A j \in 1 .. n - 1 : j # k => f.pending[j].id \notin ChainEvents
      BY <1>4, <2>1, <3>2
    <3>5. e.id \in ChainEvents
      BY <1>6 DEF OneChain
    <3>6. OneChain(f, e)
      BY <1>4, <3>3, <3>4, <3>5 DEF OneChain
    <3>7. QED
      BY <3>1, <3>6
  <2>4. QED
    BY <2>2, <2>3
<1>7. QED
  BY <1>5, <1>6

LEMMA ChainAppended ==
  ASSUME NEW c \in ChannelRec, NEW e \in DomainEvent,
         NEW f, f.pending = Append(c.pending, e)
  PROVE  /\ NoChain(c) /\ e.id \notin ChainEvents => NoChain(f)
         /\ NoChain(c) /\ e.id \in ChainEvents => OneChain(f, e)
         /\ \A g : OneChain(c, g) /\ e.id \notin ChainEvents => OneChain(f, g)
<1>1. c.pending \in Seq(DomainEvent)
  BY DEF ChannelRec
<1>2. PICK n \in Nat : n = Len(c.pending)
  BY <1>1, LenProperties
<1>3. DOMAIN c.pending = 1 .. n
  BY <1>1, <1>2, LenProperties
<1>4. /\ DOMAIN f.pending = 1 .. n + 1 /\ f.pending[n + 1] = e
      /\ \A i \in 1 .. n : f.pending[i] = c.pending[i]
  BY <1>1, <1>2, AppendProperties, LenProperties
<1>5. ASSUME NoChain(c)
      PROVE  /\ e.id \notin ChainEvents => NoChain(f)
             /\ e.id \in ChainEvents => OneChain(f, e)
  <2>1. \A i \in 1 .. n : f.pending[i].id \notin ChainEvents
    BY <1>3, <1>4, <1>5 DEF NoChain
  <2>2. \A j \in 1 .. n + 1 : j # n + 1 => j \in 1 .. n
    OBVIOUS
  <2>3. e.id \notin ChainEvents => NoChain(f)
    BY <1>4, <2>1, <2>2 DEF NoChain
  <2>4. n + 1 \in DOMAIN f.pending
    BY <1>4
  <2>5. \A j \in DOMAIN f.pending : j # n + 1 => f.pending[j].id \notin ChainEvents
    BY <1>4, <2>1, <2>2
  <2>6. e.id \in ChainEvents => OneChain(f, e)
    BY <1>4, <2>4, <2>5 DEF OneChain
  <2>7. QED
    BY <2>3, <2>6
<1>6. ASSUME NEW g, OneChain(c, g), e.id \notin ChainEvents
      PROVE  OneChain(f, g)
  <2>1. PICK i \in 1 .. n :
          /\ c.pending[i] = g
          /\ \A j \in 1 .. n : j # i => c.pending[j].id \notin ChainEvents
    BY <1>3, <1>6 DEF OneChain
  <2>2. i \in 1 .. n + 1 /\ f.pending[i] = g
    BY <1>4, <2>1
  <2>3. \A j \in 1 .. n + 1 : j # i => f.pending[j].id \notin ChainEvents
    <3> SUFFICES ASSUME NEW j \in 1 .. n + 1, j # i
                 PROVE  f.pending[j].id \notin ChainEvents
      OBVIOUS
    <3>1. j = n + 1 \/ j \in 1 .. n
      OBVIOUS
    <3>2. QED
      BY <3>1, <1>4, <1>6, <2>1
  <2>4. QED
    BY <1>4, <1>6, <2>2, <2>3 DEF OneChain
<1>7. QED
  BY <1>5, <1>6

LEMMA ChainSame ==
  ASSUME NEW c, NEW f, f.pending = c.pending
  PROVE  /\ NoChain(c) => NoChain(f)
         /\ \A e : OneChain(c, e) => OneChain(f, e)
  BY DEF NoChain, OneChain

-----------------------------------------------------------------------------
(* What an assignment to a field leaves of the other fields.               *)

LEMMA SequenceMachine ==
  ASSUME NEW m \in MachineRec, NEW v \in Status, NEW x, x = [m EXCEPT !.sequence = v]
  PROVE  /\ x \in MachineRec /\ x.sequence = v
         /\ x.feature = m.feature /\ x.scenario = m.scenario
  BY DEF MachineRec

LEMMA ScenarioMachine ==
  ASSUME NEW m \in MachineRec, NEW v \in Status, NEW x, x = [m EXCEPT !.scenario = v]
  PROVE  /\ x \in MachineRec /\ x.scenario = v
         /\ x.feature = m.feature /\ x.sequence = m.sequence
  BY DEF MachineRec

LEMMA FeatureMachine ==
  ASSUME NEW m \in MachineRec, NEW v \in Status, NEW x, x = [m EXCEPT !.feature = v]
  PROVE  /\ x \in MachineRec /\ x.feature = v
         /\ x.scenario = m.scenario /\ x.sequence = m.sequence
  BY DEF MachineRec

LEMMA SequenceFields ==
  ASSUME NEW q \in SequenceRec
  PROVE  /\ q.definition \in SequenceDefinitions \cup {Null} /\ q.step_index \in Nat
         /\ q.unit_request_id \in RequestId /\ q.step_deadline_ms \in Nat
         /\ q.step_running \in BOOLEAN /\ q.timeout_published \in BOOLEAN
  BY DEF SequenceRec

LEMMA StepStops ==
  ASSUME NEW q \in SequenceRec, NEW x, x = [q EXCEPT !.step_running = FALSE]
  PROVE  /\ x \in SequenceRec /\ ~x.step_running
         /\ x.definition = q.definition /\ x.step_index = q.step_index
         /\ x.unit_request_id = q.unit_request_id
  BY DEF SequenceRec

LEMMA StepCounts ==
  ASSUME NEW q \in SequenceRec, NEW x,
         x = [q EXCEPT !.step_index = @ + 1, !.step_running = FALSE]
  PROVE  /\ x \in SequenceRec /\ ~x.step_running
         /\ x.definition = q.definition /\ x.step_index = q.step_index + 1
<1>1. PICK n \in Nat : n = q.step_index + 1
  BY DEF SequenceRec
<1>2. x = [q EXCEPT !.step_index = n, !.step_running = FALSE]
  BY <1>1
<1>3. x \in SequenceRec /\ ~x.step_running
      /\ x.definition = q.definition /\ x.step_index = n
  BY <1>2 DEF SequenceRec
<1>4. QED
  BY <1>1, <1>3

LEMMA SequenceForgets ==
  ASSUME NEW q \in SequenceRec, NEW x, x = [q EXCEPT !.definition = Null]
  PROVE  /\ x \in SequenceRec /\ x.definition = Null
         /\ x.step_running = q.step_running
  BY DEF SequenceRec

LEMMA TimeoutMarked ==
  ASSUME NEW q \in SequenceRec, NEW x, x = [q EXCEPT !.timeout_published = TRUE]
  PROVE  /\ x \in SequenceRec /\ x.step_running = q.step_running
         /\ x.definition = q.definition /\ x.step_index = q.step_index
  BY DEF SequenceRec

LEMMA UnitRequestIdType ==
  ASSUME NEW out \in OutputRec
  PROVE  UnitRequestId(out) \in RequestId
<1>1. RequestId = 0 .. IdSpace - 1 /\ IdSpace \in Nat \ {0}
  BY DomainAssumption
<1>2. out.request_id \in Nat /\ out.completed_step_count \in Nat
  BY <1>1 DEF OutputRec
<1>3. PICK n \in Nat : n = out.request_id + out.completed_step_count + 1
  BY <1>2
<1>4. n % IdSpace \in 0 .. IdSpace - 1
  BY <1>1
<1>5. QED
  BY <1>1, <1>3, <1>4 DEF UnitRequestId

LEMMA StepStarts ==
  ASSUME NEW q \in SequenceRec, NEW out \in OutputRec, NEW step \in Step,
         NEW now \in Nat, NEW x, x = StepStarted(q, out, step, now)
  PROVE  /\ x \in SequenceRec /\ x.step_running
         /\ x.definition = q.definition /\ x.step_index = q.step_index
<1>1. UnitRequestId(out) \in RequestId
  BY UnitRequestIdType
<1>2. PICK n \in Nat : n = now + step.timeout_ms
  BY DEF Step
<1>3. n % ClockSpace \in Nat
  BY DomainAssumption
<1>4. Deadline(step, now) \in Nat
  BY <1>2, <1>3 DEF Deadline
<1>5. QED
  BY <1>1, <1>4 DEF StepStarted, SequenceRec

LEMMA OutputFields ==
  ASSUME NEW out \in OutputRec
  PROVE  /\ out.status \in Status /\ out.request_id \in RequestId
         /\ out.completed_step_count \in Nat /\ out.total_step_count \in Nat
         /\ out.error \in DomainError
  BY DEF OutputRec

LEMMA OutputCounts ==
  ASSUME NEW out \in OutputRec, NEW x, x = [out EXCEPT !.completed_step_count = @ + 1]
  PROVE  /\ x \in OutputRec /\ x.status = out.status
         /\ x.completed_step_count = out.completed_step_count + 1
         /\ x.request_id = out.request_id /\ x.error = out.error
         /\ x.total_step_count = out.total_step_count
  BY DEF OutputRec

LEMMA ScenarioAdvances ==
  ASSUME NEW s \in ScenarioRec, NEW x, x = [s EXCEPT !.sequence_index = @ + 1]
  PROVE  /\ x \in ScenarioRec /\ x.definition = s.definition
         /\ x.sequence_index = s.sequence_index + 1 /\ s.sequence_index \in Nat
  BY DEF ScenarioRec

LEMMA ScenarioForgets ==
  ASSUME NEW s \in ScenarioRec, NEW x, x = [s EXCEPT !.definition = Null]
  PROVE  x \in ScenarioRec /\ x.definition = Null
  BY DEF ScenarioRec

EventIds == UnitEvents \cup {"STEP_TIMEOUT"} \cup ChainEvents

LEMMA EventFields ==
  ASSUME NEW e \in DomainEvent
  PROVE  e.id \in EventIds /\ e.error \in DomainError
  BY DEF DomainEvent, EventIds

LEMMA EventRenamed ==
  ASSUME NEW e \in DomainEvent, NEW id \in EventIds, NEW x, x = [e EXCEPT !.id = id]
  PROVE  /\ x \in DomainEvent /\ x.id = id /\ x.error = e.error
         /\ x.feature_request_id = e.feature_request_id
  BY DEF DomainEvent, EventIds

LEMMA PayloadFields ==
  ASSUME NEW id \in EventIds, NEW q \in SequenceRec, NEW out \in OutputRec,
         NEW error \in DomainError, NEW x, x = Payload(id, q, out, error)
  PROVE  /\ x \in DomainEvent /\ x.id = id /\ x.error = error
         /\ x.feature_request_id = out.request_id
  BY DEF Payload, DomainEvent, EventIds, SequenceRec, OutputRec

-----------------------------------------------------------------------------
(* What the handlers are made of.                                          *)

HasSpace(c) == Len(c.pending) + Len(c.held) < QueueCapacity

(* A channel without an event between runners that takes one.              *)
Ready(c) == c \in ChannelRec /\ Bounded(c) /\ HasSpace(c) /\ NoChain(c)

(* The workflow of scenario s stands at a step of the sequence d, or an    *)
(* event tells of its end; the output is out.                              *)
Moved(s, d, out) ==
  /\ channel' \in ChannelRec /\ Bounded(channel')
  /\ machine' \in MachineRec /\ sequence' \in SequenceRec
  /\ output' = out /\ sequence'.definition = d
  /\ Moving(channel', machine', s, sequence', out)

LEMMA EventPublished ==
  ASSUME NEW c \in ChannelRec, Bounded(c), HasSpace(c), NEW out,
         NEW e \in DomainEvent, DomainPublish(c, out, e)
  PROVE  /\ channel' \in ChannelRec /\ Bounded(channel') /\ output' = out
         /\ channel'.pending = Append(c.pending, e)
<1>1. Channel!HasRoom(c, e)
  BY RoomForEvent DEF HasSpace
<1>2. channel' = Channel!Published(c, e) /\ output' = out
  BY <1>1 DEF DomainPublish
<1>3. QED
  BY <1>1, <1>2, PublishedFields

LEMMA ChainPublished ==
  ASSUME NEW c, Ready(c), NEW out, NEW e \in DomainEvent, e.id \in ChainEvents,
         DomainPublish(c, out, e)
  PROVE  /\ channel' \in ChannelRec /\ Bounded(channel') /\ output' = out
         /\ OneChain(channel', e)
<1>1. c \in ChannelRec /\ Bounded(c) /\ HasSpace(c) /\ NoChain(c)
  BY DEF Ready
<1>2. /\ channel' \in ChannelRec /\ Bounded(channel') /\ output' = out
      /\ channel'.pending = Append(c.pending, e)
  BY <1>1, EventPublished
<1>3. QED
  BY <1>1, <1>2, ChainAppended

LEMMA ErrorPublished ==
  ASSUME NEW m \in MachineRec, MachinesOf(m) = AllRunning,
         NEW q \in SequenceRec, NEW out \in OutputRec, NEW c, Ready(c),
         NEW error \in DomainError, error \notin {"NONE", "INTERNAL"},
         NEW s, out.completed_step_count < s.definition.total_step_count,
         PublishSequenceError(m, q, out, c, error)
  PROVE  Moved(s, q.definition, out)
<1> DEFINE e == Payload("SEQUENCE_ERROR", q, out, error)
<1>1. m.feature = "RUNNING" /\ m.scenario = "RUNNING" /\ m.sequence = "RUNNING"
  BY DEF MachinesOf, AllRunning
<1>2. "ERROR" \in Status /\ "SEQUENCE_ERROR" \in EventIds /\ "SEQUENCE_ERROR" \in ChainEvents
  BY DEF Status, EventIds, ChainEvents, SequenceEvents
<1>3. machine' = [m EXCEPT !.sequence = "ERROR"]
  BY <1>1 DEF PublishSequenceError, MachineRec
<1>4. /\ machine' \in MachineRec /\ machine'.sequence = "ERROR"
      /\ machine'.feature = "RUNNING" /\ machine'.scenario = "RUNNING"
  BY <1>1, <1>2, <1>3, SequenceMachine
<1>5. /\ sequence' \in SequenceRec /\ ~sequence'.step_running
      /\ sequence'.definition = q.definition
  BY StepStops DEF PublishSequenceError
<1>6. e \in DomainEvent /\ e.id = "SEQUENCE_ERROR" /\ e.error = error
      /\ e.feature_request_id = out.request_id
  BY <1>2, PayloadFields
<1>7. DomainPublish(c, out, e)
  BY DEF PublishSequenceError
<1> HIDE DEF e
<1>8. /\ channel' \in ChannelRec /\ Bounded(channel') /\ output' = out
      /\ OneChain(channel', e)
  BY <1>2, <1>6, <1>7, ChainPublished
<1>9. MachinesOf(machine') = ExpectedMachines(e.id)
  BY <1>4, <1>6 DEF MachinesOf, ExpectedMachines
<1>10. Agrees(e, machine', s, sequence', out)
  BY <1>6, <1>9 DEF Agrees, Completions
<1>11. UnderWay(channel', machine', s, sequence', out)
  BY <1>5, <1>6, <1>8, <1>10 DEF UnderWay
<1>12. QED
  BY <1>4, <1>5, <1>8, <1>11 DEF Moved, Moving

LEMMA StepLeads ==
  ASSUME NEW m \in MachineRec, MachinesOf(m) = AllRunning,
         NEW q \in SequenceRec, NEW out \in OutputRec, NEW c, Ready(c),
         NEW now \in Nat, NEW s \in ScenarioRec, s.definition \in Scenarios,
         Standing(s, q, out), q.step_index < Len(q.definition),
         StartStep(m, q, out, c, now)
  PROVE  Moved(s, q.definition, out)
<1> DEFINE step == q.definition[q.step_index + 1]
<1>1. /\ s.sequence_index \in Nat /\ s.sequence_index + 1 \in DOMAIN s.definition.sequences
      /\ q.definition = s.definition.sequences[s.sequence_index + 1]
      /\ q.step_index \in Nat
      /\ out.completed_step_count
           = Cardinality(Before(s.definition, s.sequence_index, q.step_index))
  BY SequenceFields DEF Standing, ScenarioRec
<1>2. q.definition \in Seq(Step)
  BY <1>1, DefinitionFacts
<1>3. step \in Step
  <2>1. Len(q.definition) \in Nat /\ q.step_index + 1 \in 1 .. Len(q.definition)
    BY <1>1, <1>2, LenProperties
  <2>2. QED
    BY <1>2, <2>1, ElementOfSeq
<1>4. out.completed_step_count < s.definition.total_step_count
  BY <1>1, OneMoreBefore, DefinitionFacts
<1> HIDE DEF step
<1>5. CASE sequence' = StepStarted(q, out, step, now)
           /\ machine' = m /\ output' = out /\ channel' = c
  <2>1. /\ sequence' \in SequenceRec /\ sequence'.step_running
        /\ sequence'.definition = q.definition /\ sequence'.step_index = q.step_index
    BY <1>3, <1>5, StepStarts
  <2>2. Standing(s, sequence', out)
    BY <2>1 DEF Standing
  <2>3. Waiting(channel', machine', s, sequence', out)
    BY <1>5, <2>1, <2>2 DEF Waiting, Ready
  <2>4. QED
    BY <1>5, <2>1, <2>3 DEF Moved, Moving, Ready
<1>6. CASE PublishSequenceError(m, q, out, c, "UNIT_REJECTED")
  <2>1. "UNIT_REJECTED" \in DomainError
    BY DEF DomainError
  <2>2. QED
    BY <1>4, <1>6, <2>1, ErrorPublished
<1>7. QED
  BY <1>5, <1>6 DEF StartStep, step

LEMMA SequenceLeads ==
  ASSUME NEW s \in ScenarioRec, s.definition \in Scenarios,
         s.sequence_index + 1 \in DOMAIN s.definition.sequences,
         machine \in MachineRec, sequence \in SequenceRec, output \in OutputRec,
         machine.feature = "RUNNING", machine.scenario = "RUNNING",
         output.completed_step_count
           = Cardinality(Before(s.definition, s.sequence_index, 0)),
         NEW c, Ready(c), NEW now \in Nat, StartSequence(s, c, now)
  PROVE  /\ scenario' = s
         /\ Moved(s, s.definition.sequences[s.sequence_index + 1], output)
<1> DEFINE d == s.definition.sequences[s.sequence_index + 1]
           m == [machine EXCEPT !.sequence = "RUNNING"]
           q == [sequence EXCEPT !.definition = d, !.step_index = 0,
                                 !.step_running = FALSE]
<1>1. scenario' = s /\ StartStep(m, q, output, c, now)
  BY DEF StartSequence
<1>2. m \in MachineRec /\ MachinesOf(m) = AllRunning
  BY SequenceMachine DEF Status, MachinesOf, AllRunning
<1>3. d \in SequenceDefinitions /\ d \in Seq(Step) /\ d # << >>
  BY DefinitionFacts
<1>4. Len(d) \in Nat /\ 0 < Len(d)
  BY <1>3, EmptySeq
<1> HIDE DEF d, m
<1>5. q \in SequenceRec /\ q.definition = d /\ q.step_index = 0
  <2>1. d \in SequenceDefinitions
    BY <1>3
  <2>2. q \in SequenceRec
    BY <2>1 DEF SequenceRec
  <2>3. q.definition = d /\ q.step_index = 0
    BY <2>1 DEF SequenceRec
  <2>4. QED
    BY <2>2, <2>3
<1> HIDE DEF q
<1>6. Standing(s, q, output) /\ q.step_index < Len(q.definition)
  BY <1>4, <1>5 DEF Standing, d
<1>7. Moved(s, q.definition, output)
  BY <1>1, <1>2, <1>5, <1>6, StepLeads
<1>8. QED
  BY <1>1, <1>5, <1>7 DEF d

LEMMA PoppedFacts ==
  ASSUME RunnersType, QueueHasRoom, channel.pending # << >>
  PROVE  /\ popped \in ChannelRec /\ Bounded(popped) /\ HasSpace(popped)
         /\ popped.pending = Tail(channel.pending)
         /\ event \in DomainEvent
<1>1. channel \in ChannelRec /\ Bounded(channel)
  BY DEF RunnersType
<1>2. /\ popped \in ChannelRec /\ Bounded(popped)
      /\ popped.pending = Tail(channel.pending) /\ Len(popped.held) = 1
      /\ Len(popped.pending) + 1 = Len(channel.pending)
      /\ event \in DomainEvent
  BY <1>1, TakenFields DEF popped, event
<1>3. /\ Len(channel.pending) \in Nat /\ Len(channel.held) \in Nat
      /\ Len(popped.pending) \in Nat
  BY <1>1, <1>2, LenProperties DEF ChannelRec
<1>4. PICK k \in Nat, l \in Nat, n \in Nat :
        k = Len(channel.pending) /\ l = Len(channel.held) /\ n = QueueCapacity
  BY <1>3, DomainAssumption
<1>5. k < n
  <2>1. k + l < n
    BY <1>4 DEF QueueHasRoom
  <2>2. QED
    BY <2>1
<1>6. HasSpace(popped)
  BY <1>2, <1>4, <1>5 DEF HasSpace
<1>7. QED
  BY <1>2, <1>6

LEMMA ProgressTransfers ==
  ASSUME NEW c, NEW f, NoChain(c) => NoChain(f),
         \A e : OneChain(c, e) => OneChain(f, e),
         NEW m, NEW s, NEW q, NEW out, NEW started,
         Progress(c, m, s, q, out, started)
  PROVE  Progress(f, m, s, q, out, started)
<1>1. Waiting(c, m, s, q, out) => Waiting(f, m, s, q, out)
  BY DEF Waiting
<1>2. UnderWay(c, m, s, q, out) => UnderWay(f, m, s, q, out)
  BY DEF UnderWay
<1>3. Over(c, m, q, out) => Over(f, m, q, out)
  BY DEF Over
<1>4. Fresh(c, m, s, q, out) => Fresh(f, m, s, q, out)
  BY DEF Fresh
<1>5. QED
  BY <1>1, <1>2, <1>3, <1>4 DEF Progress, Moving

LEMMA RunningFacts ==
  ASSUME RunnersInv, RestType, output.status = "RUNNING"
  PROVE  /\ scenario.definition \in InstalledIn(catalog)
         /\ scenario.definition \in Scenarios
         /\ output.total_step_count = scenario.definition.total_step_count
<1>1. /\ scenario.definition # Null
      /\ output.total_step_count = scenario.definition.total_step_count
  BY DEF RunnersInv, Requested
<1>2. scenario.definition \in InstalledIn(catalog)
  BY <1>1 DEF RunnersInv, Pointers
<1>3. QED
  BY <1>1, <1>2, InstalledAreScenarios DEF RestType

(* An event from one runner to the next is the one under way, whenever the *)
(* dispatcher takes it.                                                    *)
LEMMA HeadIsUnderWay ==
  ASSUME RunnersInv, channel.pending # << >>, event.id \in ChainEvents,
         popped.pending = Tail(channel.pending)
  PROVE  /\ output.status = "RUNNING" /\ workflow_started
         /\ ~sequence.step_running /\ NoChain(popped)
         /\ Agrees(event, machine, scenario, sequence, output)
<1>1. channel \in ChannelRec
  BY DEF RunnersInv, RunnersType
<1>2. ~NoChain(channel)
  BY <1>1, ChainTaken DEF event
<1>3. /\ output.status = "RUNNING" /\ workflow_started
      /\ UnderWay(channel, machine, scenario, sequence, output)
  BY <1>2 DEF RunnersInv, Progress, Over, Fresh, Moving, Waiting
<1>4. PICK e \in DomainEvent :
        OneChain(channel, e) /\ Agrees(e, machine, scenario, sequence, output)
  BY <1>3 DEF UnderWay
<1>5. e = event /\ NoChain(popped)
  BY <1>1, <1>4, ChainTaken DEF event
<1>6. QED
  BY <1>3, <1>4, <1>5 DEF UnderWay

(* The handlers leave a workflow that is under way in one of its states.   *)
LEMMA MovedKeeps ==
  ASSUME RunnersInv, RestType, output.status = "RUNNING", workflow_started,
         scenario' \in ScenarioRec, scenario'.definition = scenario.definition,
         NEW i \in DOMAIN scenario.definition.sequences,
         Moved(scenario', scenario.definition.sequences[i], output'),
         output' \in OutputRec, output'.status = "RUNNING",
         output'.request_id = output.request_id,
         output'.total_step_count = output.total_step_count,
         UNCHANGED <<workflow_started, catalog, requests, reports>>
  PROVE  RunnersInv'
<1>1. /\ channel' \in ChannelRec /\ Bounded(channel')
      /\ machine' \in MachineRec /\ sequence' \in SequenceRec
      /\ sequence'.definition = scenario.definition.sequences[i]
      /\ Moving(channel', machine', scenario', sequence', output')
  BY DEF Moved
<1>2. RunnersType'
  BY <1>1 DEF RunnersType
<1>3. Progress(channel, machine, scenario, sequence, output, workflow_started)'
  BY <1>1 DEF Progress
<1>4. /\ scenario.definition \in InstalledIn(catalog)
      /\ scenario.definition \in Scenarios
  BY RunningFacts
<1>5. Pointers(scenario, sequence, catalog)'
  BY <1>1, <1>4 DEF Pointers
<1>6. Requested(scenario, sequence, output, workflow_started, requests)'
  <2>1. scenario.definition.sequences[i] # Null
    BY <1>4, DefinitionFacts
  <2>2. QED
    BY <1>1, <2>1 DEF Requested, RunnersInv
<1>7. Reported(output, requests, reports)'
  BY DEF Reported, RunnersInv
<1>8. QED
  BY <1>2, <1>3, <1>5, <1>6, <1>7 DEF RunnersInv

(* A step that leaves the runners alone and adds and removes no event      *)
(* between them.                                                           *)
LEMMA OthersKeep ==
  ASSUME RunnersInv, channel' \in ChannelRec, Bounded(channel'),
         NoChain(channel) => NoChain(channel'),
         \A e : OneChain(channel, e) => OneChain(channel', e),
         UNCHANGED <<machine, scenario, sequence, output, workflow_started,
                     catalog, requests, reports>>
  PROVE  RunnersInv'
<1>1. Progress(channel', machine, scenario, sequence, output, workflow_started)
  BY ProgressTransfers DEF RunnersInv
<1>2. RunnersType'
  BY DEF RunnersInv, RunnersType
<1>3. QED
  BY <1>1, <1>2 DEF RunnersInv

LEMMA IgnoredKeeps ==
  ASSUME RunnersInv, QueueHasRoom, channel.pending # << >>,
         event.id \notin ChainEvents, channel' = popped,
         UNCHANGED <<machine, scenario, sequence, output, workflow_started,
                     catalog, requests, reports>>
  PROVE  RunnersInv'
<1>1. /\ channel \in ChannelRec /\ channel' \in ChannelRec /\ Bounded(channel')
      /\ channel'.pending = Tail(channel.pending)
  BY PoppedFacts DEF RunnersInv, RunnersType
<1>2. /\ NoChain(channel) => NoChain(channel')
      /\ \A e : OneChain(channel, e) => OneChain(channel', e)
  BY <1>1, ChainTaken DEF event
<1>3. QED
  BY <1>1, <1>2, OthersKeep

-----------------------------------------------------------------------------
(* The handlers.                                                           *)

LEMMA WaitingFacts ==
  ASSUME RunnersInv, RestType, output.status = "RUNNING", sequence.step_running
  PROVE  /\ workflow_started /\ Waiting(channel, machine, scenario, sequence, output)
         /\ scenario.sequence_index \in Nat
         /\ scenario.sequence_index + 1 \in DOMAIN scenario.definition.sequences
         /\ sequence.definition
              = scenario.definition.sequences[scenario.sequence_index + 1]
         /\ sequence.definition \in Seq(Step) /\ Len(sequence.definition) \in Nat
         /\ sequence.step_index \in Nat
         /\ output.completed_step_count \in Nat
         /\ output.completed_step_count
              = Cardinality(Before(scenario.definition, scenario.sequence_index,
                                   sequence.step_index))
         /\ output.completed_step_count < scenario.definition.total_step_count
         /\ Cardinality(Before(scenario.definition, scenario.sequence_index,
                               sequence.step_index + 1))
              = output.completed_step_count + 1
<1>1. workflow_started /\ Waiting(channel, machine, scenario, sequence, output)
  BY DEF RunnersInv, Progress, Fresh, Moving, UnderWay
<1>2. /\ scenario.sequence_index \in Nat /\ sequence.step_index \in Nat
      /\ output.completed_step_count \in Nat
  BY SequenceFields, OutputFields DEF RunnersInv, RunnersType, ScenarioRec
<1>3. /\ scenario.sequence_index + 1 \in DOMAIN scenario.definition.sequences
      /\ sequence.definition
           = scenario.definition.sequences[scenario.sequence_index + 1]
      /\ sequence.step_index < Len(sequence.definition)
      /\ output.completed_step_count
              = Cardinality(Before(scenario.definition, scenario.sequence_index,
                                   sequence.step_index))
  BY <1>1 DEF Waiting, Standing
<1>4. scenario.definition \in Scenarios
  BY RunningFacts
<1>5. sequence.definition \in Seq(Step) /\ Len(sequence.definition) \in Nat
  BY <1>3, <1>4, DefinitionFacts, LenProperties
<1>6. /\ output.completed_step_count < scenario.definition.total_step_count
      /\ Cardinality(Before(scenario.definition, scenario.sequence_index,
                            sequence.step_index + 1))
           = output.completed_step_count + 1
  <2>1. PICK d \in Scenarios, i \in Nat, k \in Nat :
          /\ d = scenario.definition /\ i = scenario.sequence_index
          /\ k = sequence.step_index
    BY <1>2, <1>4
  <2>2. i + 1 \in DOMAIN d.sequences /\ k < Len(d.sequences[i + 1])
    BY <1>3, <2>1
  <2>3. /\ Cardinality(Before(d, i, k + 1)) = Cardinality(Before(d, i, k)) + 1
        /\ Cardinality(Before(d, i, k)) < Cardinality(Positions(d))
    BY <2>2, OneMoreBefore
  <2>4. d.total_step_count = Cardinality(Positions(d))
    BY DefinitionFacts
  <2>5. QED
    BY <1>3, <2>1, <2>3, <2>4
<1>7. QED
  BY <1>1, <1>2, <1>3, <1>5, <1>6

LEMMA PoppedWhileWaiting ==
  ASSUME RunnersInv, QueueHasRoom, channel.pending # << >>,
         Waiting(channel, machine, scenario, sequence, output)
  PROVE  Ready(popped) /\ event \in DomainEvent
<1>1. channel \in ChannelRec /\ NoChain(channel)
  BY DEF RunnersInv, RunnersType, Waiting
<1>2. /\ popped \in ChannelRec /\ Bounded(popped) /\ HasSpace(popped)
      /\ popped.pending = Tail(channel.pending) /\ event \in DomainEvent
  BY PoppedFacts DEF RunnersInv
<1>3. NoChain(popped)
  BY <1>1, <1>2, ChainTaken
<1>4. QED
  BY <1>2, <1>3 DEF Ready

LEMMA UnitCompletedKeeps ==
  ASSUME RunnersInv, RestType, QueueHasRoom, OnUnitCompleted
  PROVE  RunnersInv'
<1>1. /\ channel.pending # << >> /\ event.id = "UNIT_COMPLETED"
      /\ UNCHANGED <<workflow_started, catalog, requests, scenario, reports>>
  BY DEF OnUnitCompleted, HandlerRuns
<1>2. event.id \notin ChainEvents
  BY <1>1 DEF ChainEvents, SequenceEvents, ScenarioEvents, FeatureEvents
<1>3. CASE ~Awaited /\ Ignored
  BY <1>1, <1>2, <1>3, IgnoredKeeps DEF Ignored, runners
<1>4. CASE Awaited /\ StepCompleted
  <2> DEFINE i == scenario.sequence_index + 1
  <2>1. output.status = "RUNNING" /\ sequence.step_running
    BY <1>4 DEF Awaited
  <2>2. PICK out : out = [output EXCEPT !.completed_step_count = @ + 1]
    OBVIOUS
  <2>3. PICK q : q = [sequence EXCEPT !.step_index = @ + 1, !.step_running = FALSE]
    OBVIOUS
  <2>4. /\ sequence \in SequenceRec /\ output \in OutputRec /\ machine \in MachineRec
        /\ scenario \in ScenarioRec /\ current_time_ms \in Nat
    BY DEF RunnersInv, RunnersType, RestType
  <2>5. /\ out \in OutputRec /\ out.status = "RUNNING"
        /\ out.completed_step_count = output.completed_step_count + 1
        /\ out.request_id = output.request_id
        /\ out.total_step_count = output.total_step_count
    BY <2>1, <2>2, <2>4, OutputCounts
  <2>6. /\ q \in SequenceRec /\ ~q.step_running
        /\ q.definition = sequence.definition /\ q.step_index = sequence.step_index + 1
    BY <2>3, <2>4, StepCounts
  <2>7. /\ workflow_started /\ Waiting(channel, machine, scenario, sequence, output)
        /\ i \in DOMAIN scenario.definition.sequences
        /\ sequence.definition = scenario.definition.sequences[i]
        /\ Len(sequence.definition) \in Nat /\ sequence.step_index \in Nat
        /\ Cardinality(Before(scenario.definition, scenario.sequence_index,
                              sequence.step_index + 1))
             = output.completed_step_count + 1
    BY <2>1, WaitingFacts
  <2>8. MachinesOf(machine) = AllRunning /\ sequence.step_index < Len(sequence.definition)
    BY <2>7 DEF Waiting
  <2>9. Ready(popped)
    BY <1>1, <2>7, PoppedWhileWaiting
  <2>10. q.step_index <= Len(q.definition)
    BY <2>6, <2>7, <2>8
  <2>11. Standing(scenario, q, out)
    BY <2>5, <2>6, <2>7, <2>10 DEF Standing
  <2> DEFINE last == q.step_index >= Len(q.definition)
             e == Payload("SEQUENCE_COMPLETED", q, out, "NONE")
  <2>12. \/ /\ last /\ machine.sequence = "RUNNING"
            /\ machine' = [machine EXCEPT !.sequence = "COMPLETED"]
            /\ sequence' = q
            /\ DomainPublish(popped, out, e)
         \/ /\ last /\ machine.sequence # "RUNNING"
         \/ ~last /\ StartStep(machine, q, out, popped, current_time_ms)
    BY <1>4, <2>2, <2>3 DEF StepCompleted
  <2>13. machine.sequence = "RUNNING" /\ machine.feature = "RUNNING"
         /\ machine.scenario = "RUNNING"
    BY <2>8 DEF MachinesOf, AllRunning
  <2>14. Moved(scenario, q.definition, out)
    <3>1. CASE /\ last
               /\ machine' = [machine EXCEPT !.sequence = "COMPLETED"]
               /\ sequence' = q
               /\ DomainPublish(popped, out, e)
      <4>1. q.step_index = Len(q.definition)
        BY <2>6, <2>7, <2>10, <3>1
      <4>2. /\ machine' \in MachineRec /\ machine'.sequence = "COMPLETED"
            /\ machine'.feature = "RUNNING" /\ machine'.scenario = "RUNNING"
        BY <2>4, <2>13, <3>1, SequenceMachine DEF Status
      <4>3. /\ "SEQUENCE_COMPLETED" \in EventIds /\ "SEQUENCE_COMPLETED" \in ChainEvents
            /\ "NONE" \in DomainError
        BY DEF EventIds, ChainEvents, SequenceEvents, DomainError
      <4>4. /\ e \in DomainEvent /\ e.id = "SEQUENCE_COMPLETED" /\ e.error = "NONE"
            /\ e.feature_request_id = out.request_id
        BY <2>5, <2>6, <4>3, PayloadFields
      <4>5. DomainPublish(popped, out, e)
        BY <3>1
      <4> HIDE DEF e
      <4>6. /\ channel' \in ChannelRec /\ Bounded(channel') /\ output' = out
            /\ OneChain(channel', e)
        BY <2>9, <4>3, <4>4, <4>5, ChainPublished
      <4>7. MachinesOf(machine') = ExpectedMachines(e.id)
        BY <4>2, <4>4 DEF MachinesOf, ExpectedMachines
      <4>8. Agrees(e, machine', scenario, q, out)
        BY <2>11, <4>1, <4>4, <4>7 DEF Agrees, Failures
      <4>9. UnderWay(channel', machine', scenario, q, out)
        BY <2>6, <4>4, <4>6, <4>8 DEF UnderWay
      <4>10. QED
        BY <2>6, <3>1, <4>2, <4>6, <4>9 DEF Moved, Moving
    <3>2. CASE ~last /\ StartStep(machine, q, out, popped, current_time_ms)
      <4>1. q.step_index < Len(q.definition)
        BY <2>6, <2>7, <3>2
      <4>2. scenario.definition \in Scenarios
        BY <2>1, RunningFacts
      <4>3. QED
        BY <2>4, <2>5, <2>6, <2>8, <2>9, <2>11, <3>2, <4>1, <4>2, StepLeads
    <3>3. QED
      BY <2>12, <2>13, <3>1, <3>2
  <2>15. output' = out /\ scenario' = scenario
    BY <1>1, <2>14 DEF Moved
  <2>16. Moved(scenario', scenario.definition.sequences[i], output')
    BY <2>6, <2>7, <2>14, <2>15
  <2> HIDE DEF i
  <2>17. QED
    BY <1>1, <2>1, <2>4, <2>5, <2>7, <2>15, <2>16, MovedKeeps
<1>5. QED
  BY <1>3, <1>4 DEF OnUnitCompleted

LEMMA FailureKeeps ==
  ASSUME RunnersInv, RestType, QueueHasRoom, OnFailure
  PROVE  RunnersInv'
<1>1. /\ channel.pending # << >> /\ event.id \in {"UNIT_ERROR", "STEP_TIMEOUT"}
      /\ UNCHANGED <<workflow_started, catalog, requests, scenario, reports>>
  BY DEF OnFailure, HandlerRuns
<1>2. event.id \notin ChainEvents
  BY <1>1 DEF ChainEvents, SequenceEvents, ScenarioEvents, FeatureEvents
<1>3. CASE ~FailsStep /\ Ignored
  BY <1>1, <1>2, <1>3, IgnoredKeeps DEF Ignored, runners
<1>4. ASSUME FailsStep,
             NEW error \in {"STEP_TIMEOUT", "UNIT_FAILED"},
             PublishSequenceError(machine, sequence, output, popped, error)
      PROVE  RunnersInv'
  <2>1. output.status = "RUNNING" /\ sequence.step_running
    BY <1>4 DEF FailsStep
  <2>2. /\ sequence \in SequenceRec /\ output \in OutputRec /\ machine \in MachineRec
        /\ scenario \in ScenarioRec
    BY DEF RunnersInv, RunnersType
  <2>3. /\ workflow_started /\ Waiting(channel, machine, scenario, sequence, output)
        /\ scenario.sequence_index + 1 \in DOMAIN scenario.definition.sequences
        /\ sequence.definition
             = scenario.definition.sequences[scenario.sequence_index + 1]
        /\ output.completed_step_count < scenario.definition.total_step_count
    BY <2>1, WaitingFacts
  <2>4. MachinesOf(machine) = AllRunning
    BY <2>3 DEF Waiting
  <2>5. Ready(popped)
    BY <1>1, <2>3, PoppedWhileWaiting
  <2>6. error \in DomainError /\ error \notin {"NONE", "INTERNAL"}
    BY DEF DomainError
  <2>7. Moved(scenario, sequence.definition, output)
    BY <1>4, <2>2, <2>3, <2>4, <2>5, <2>6, ErrorPublished
  <2>8. PICK i \in DOMAIN scenario.definition.sequences :
          sequence.definition = scenario.definition.sequences[i]
    BY <2>3
  <2>9. output' = output /\ scenario' = scenario
    BY <1>1, <2>7 DEF Moved
  <2>10. Moved(scenario', scenario.definition.sequences[i], output')
    BY <2>7, <2>8, <2>9
  <2>11. QED
    BY <1>1, <2>1, <2>2, <2>3, <2>9, <2>10, MovedKeeps
<1>5. QED
  BY <1>3, <1>4 DEF OnFailure

LEMMA PoppedUnderWay ==
  ASSUME RunnersInv, QueueHasRoom, channel.pending # << >>, event.id \in ChainEvents
  PROVE  /\ output.status = "RUNNING" /\ workflow_started
         /\ ~sequence.step_running /\ Ready(popped)
         /\ event \in DomainEvent
         /\ Agrees(event, machine, scenario, sequence, output)
<1>1. /\ popped \in ChannelRec /\ Bounded(popped) /\ HasSpace(popped)
      /\ popped.pending = Tail(channel.pending)
      /\ event \in DomainEvent
  BY PoppedFacts DEF RunnersInv
<1>2. QED
  BY <1>1, HeadIsUnderWay DEF Ready

(* A runner publishes what the next one handles.                           *)
LEMMA PassedOn ==
  ASSUME RunnersInv, RestType, output.status = "RUNNING", workflow_started,
         ~sequence.step_running, Ready(popped),
         NEW e \in DomainEvent, e.id \in ChainEvents,
         DomainPublish(popped, output, e), machine' \in MachineRec,
         Agrees(e, machine', scenario', sequence, output),
         scenario' \in ScenarioRec, scenario'.definition = scenario.definition,
         UNCHANGED <<sequence, workflow_started, catalog, requests, reports>>
  PROVE  RunnersInv'
<1>1. /\ channel' \in ChannelRec /\ Bounded(channel') /\ output' = output
      /\ OneChain(channel', e)
  BY ChainPublished
<1>2. UnderWay(channel', machine', scenario', sequence', output')
  BY <1>1 DEF UnderWay
<1>3. sequence.definition # Null
  BY DEF RunnersInv, Requested
<1>4. PICK i \in DOMAIN scenario.definition.sequences :
        sequence.definition = scenario.definition.sequences[i]
  BY <1>3 DEF RunnersInv, Pointers
<1>5. sequence \in SequenceRec /\ output \in OutputRec
  BY DEF RunnersInv, RunnersType
<1>6. Moved(scenario', scenario.definition.sequences[i], output')
  BY <1>1, <1>2, <1>4, <1>5 DEF Moved, Moving
<1>7. QED
  BY <1>1, <1>5, <1>6, MovedKeeps

LEMMA SequenceCompletedKeeps ==
  ASSUME RunnersInv, RestType, QueueHasRoom, OnSequenceCompleted
  PROVE  RunnersInv'
<1>1. /\ channel.pending # << >> /\ event.id = "SEQUENCE_COMPLETED"
      /\ UNCHANGED <<workflow_started, catalog, requests, reports>>
  BY DEF OnSequenceCompleted, HandlerRuns
<1>2. event.id \in ChainEvents
  BY <1>1 DEF ChainEvents, SequenceEvents
<1>3. /\ output.status = "RUNNING" /\ workflow_started
      /\ ~sequence.step_running /\ Ready(popped)
      /\ Agrees(event, machine, scenario, sequence, output)
  BY <1>1, <1>2, PoppedUnderWay
<1>4. PICK s : s = [scenario EXCEPT !.sequence_index = @ + 1]
  OBVIOUS
<1>5. /\ sequence \in SequenceRec /\ output \in OutputRec /\ machine \in MachineRec
      /\ scenario \in ScenarioRec /\ current_time_ms \in Nat
  BY DEF RunnersInv, RunnersType, RestType
<1>6. /\ s \in ScenarioRec /\ s.definition = scenario.definition
      /\ s.sequence_index = scenario.sequence_index + 1
      /\ scenario.sequence_index \in Nat
  BY <1>4, <1>5, ScenarioAdvances
<1>7. scenario.definition \in Scenarios
  BY <1>3, RunningFacts
<1>8. /\ scenario.sequence_index + 1 \in DOMAIN scenario.definition.sequences
      /\ sequence.definition
           = scenario.definition.sequences[scenario.sequence_index + 1]
      /\ sequence.step_index = Len(sequence.definition)
      /\ output.completed_step_count
           = Cardinality(Before(scenario.definition, scenario.sequence_index,
                                sequence.step_index))
  BY <1>1, <1>3 DEF Agrees, Standing
<1>9. /\ machine.feature = "RUNNING" /\ machine.scenario = "RUNNING"
      /\ machine.sequence = "COMPLETED"
  BY <1>1, <1>3 DEF Agrees, MachinesOf, ExpectedMachines
<1>10. PICK n \in Nat : /\ n = Len(scenario.definition.sequences)
                        /\ DOMAIN scenario.definition.sequences = 1 .. n
  BY <1>7, DefinitionFacts, LenProperties
<1>11. /\ Before(scenario.definition, scenario.sequence_index, sequence.step_index)
            = Before(scenario.definition, scenario.sequence_index + 1, 0)
       /\ scenario.sequence_index + 1 = n =>
            output.completed_step_count = scenario.definition.total_step_count
  BY <1>6, <1>7, <1>8, <1>10, BeforeNextSequence, DefinitionFacts
<1> DEFINE e == Payload("SCENARIO_COMPLETED", sequence, output, "NONE")
<1>12. \/ /\ s.sequence_index >= n
          /\ scenario' = s /\ sequence' = sequence
          /\ machine' = [machine EXCEPT !.scenario = "COMPLETED"]
          /\ DomainPublish(popped, output, e)
       \/ /\ ~(s.sequence_index >= n)
          /\ StartSequence(s, popped, current_time_ms)
  BY <1>4, <1>6, <1>9, <1>10 DEF OnSequenceCompleted
<1>13. CASE /\ s.sequence_index >= n
            /\ scenario' = s /\ sequence' = sequence
            /\ machine' = [machine EXCEPT !.scenario = "COMPLETED"]
            /\ DomainPublish(popped, output, e)
  <2>1. output.completed_step_count = scenario.definition.total_step_count
    BY <1>6, <1>8, <1>10, <1>11, <1>13
  <2>2. /\ machine' \in MachineRec /\ machine'.scenario = "COMPLETED"
        /\ machine'.feature = "RUNNING" /\ machine'.sequence = "COMPLETED"
    BY <1>5, <1>9, <1>13, ScenarioMachine DEF Status
  <2>3. /\ "SCENARIO_COMPLETED" \in EventIds /\ "SCENARIO_COMPLETED" \in ChainEvents
        /\ "NONE" \in DomainError
    BY DEF EventIds, ChainEvents, ScenarioEvents, DomainError
  <2>4. /\ e \in DomainEvent /\ e.id = "SCENARIO_COMPLETED" /\ e.error = "NONE"
        /\ e.feature_request_id = output.request_id
    BY <1>5, <2>3, PayloadFields
  <2>5. DomainPublish(popped, output, e)
    BY <1>13
  <2> HIDE DEF e
  <2>6. MachinesOf(machine') = ExpectedMachines(e.id)
    BY <2>2, <2>4 DEF MachinesOf, ExpectedMachines
  <2>7. Agrees(e, machine', scenario', sequence, output)
    BY <1>6, <1>13, <2>1, <2>4, <2>6 DEF Agrees, Failures
  <2>8. scenario' \in ScenarioRec /\ scenario'.definition = scenario.definition
        /\ UNCHANGED sequence
    BY <1>6, <1>13
  <2>9. QED
    BY <1>1, <1>3, <2>2, <2>3, <2>4, <2>5, <2>7, <2>8, PassedOn
<1>14. CASE /\ ~(s.sequence_index >= n)
            /\ StartSequence(s, popped, current_time_ms)
  <2>1. s.sequence_index + 1 \in DOMAIN s.definition.sequences
    BY <1>6, <1>10, <1>14
  <2>2. output.completed_step_count
          = Cardinality(Before(s.definition, s.sequence_index, 0))
    BY <1>6, <1>8, <1>11
  <2>3. /\ scenario' = s
        /\ Moved(s, s.definition.sequences[s.sequence_index + 1], output)
    BY <1>3, <1>5, <1>6, <1>7, <1>9, <1>14, <2>1, <2>2, SequenceLeads
  <2>4. PICK i \in DOMAIN scenario.definition.sequences : i = s.sequence_index + 1
    BY <1>6, <2>1
  <2>5. output' = output
    BY <2>3 DEF Moved
  <2>6. Moved(scenario', scenario.definition.sequences[i], output')
    BY <1>6, <2>3, <2>4, <2>5
  <2>7. scenario' \in ScenarioRec /\ scenario'.definition = scenario.definition
    BY <1>6, <2>3
  <2>8. QED
    BY <1>1, <1>3, <1>5, <2>5, <2>6, <2>7, MovedKeeps
<1>15. QED
  BY <1>12, <1>13, <1>14

(* An error, and what the last runner completes, passes on its cause.      *)
LEMMA SequenceErrorKeeps ==
  ASSUME RunnersInv, RestType, QueueHasRoom, OnSequenceError
  PROVE  RunnersInv'
<1>1. /\ channel.pending # << >> /\ event.id = "SEQUENCE_ERROR"
      /\ machine' = [machine EXCEPT !.scenario = IF @ = "RUNNING" THEN "ERROR" ELSE @]
      /\ DomainPublish(popped, output, [event EXCEPT !.id = "SCENARIO_ERROR"])
      /\ UNCHANGED <<workflow_started, catalog, requests, reports, scenario, sequence>>
  BY DEF OnSequenceError, HandlerRuns
<1>2. event.id \in ChainEvents
  BY <1>1 DEF ChainEvents, SequenceEvents
<1>3. /\ output.status = "RUNNING" /\ workflow_started
      /\ ~sequence.step_running /\ Ready(popped) /\ event \in DomainEvent
      /\ Agrees(event, machine, scenario, sequence, output)
  BY <1>1, <1>2, PoppedUnderWay
<1>4. machine \in MachineRec /\ scenario \in ScenarioRec
  BY DEF RunnersInv, RunnersType
<1>5. /\ machine.feature = "RUNNING" /\ machine.scenario = "RUNNING"
      /\ machine.sequence = "ERROR"
  BY <1>1, <1>3 DEF Agrees, MachinesOf, ExpectedMachines
<1>6. machine' = [machine EXCEPT !.scenario = "ERROR"]
  BY <1>1, <1>4, <1>5 DEF MachineRec
<1>7. /\ machine' \in MachineRec /\ machine'.scenario = "ERROR"
      /\ machine'.feature = "RUNNING" /\ machine'.sequence = "ERROR"
  BY <1>4, <1>5, <1>6, ScenarioMachine DEF Status
<1>8. PICK e : e = [event EXCEPT !.id = "SCENARIO_ERROR"]
  OBVIOUS
<1>9. "SCENARIO_ERROR" \in EventIds /\ "SCENARIO_ERROR" \in ChainEvents
  BY DEF EventIds, ChainEvents, ScenarioEvents
<1>10. /\ e \in DomainEvent /\ e.id = "SCENARIO_ERROR" /\ e.error = event.error
       /\ e.feature_request_id = event.feature_request_id
  BY <1>3, <1>8, <1>9, EventRenamed
<1>11. MachinesOf(machine') = ExpectedMachines(e.id)
  BY <1>7, <1>10 DEF MachinesOf, ExpectedMachines
<1>12. Agrees(e, machine', scenario', sequence, output)
  BY <1>1, <1>3, <1>10, <1>11 DEF Agrees, Completions, Failures
<1>13. QED
  BY <1>1, <1>3, <1>4, <1>7, <1>8, <1>9, <1>10, <1>12, PassedOn

LEMMA ScenarioErrorKeeps ==
  ASSUME RunnersInv, RestType, QueueHasRoom, OnScenarioError
  PROVE  RunnersInv'
<1>1. /\ channel.pending # << >> /\ event.id = "SCENARIO_ERROR"
      /\ machine' = [machine EXCEPT !.feature = IF @ = "RUNNING" THEN "ERROR" ELSE @]
      /\ DomainPublish(popped, output, [event EXCEPT !.id = "FEATURE_ERROR"])
      /\ UNCHANGED <<workflow_started, catalog, requests, reports, scenario, sequence>>
  BY DEF OnScenarioError, HandlerRuns
<1>2. event.id \in ChainEvents
  BY <1>1 DEF ChainEvents, ScenarioEvents
<1>3. /\ output.status = "RUNNING" /\ workflow_started
      /\ ~sequence.step_running /\ Ready(popped) /\ event \in DomainEvent
      /\ Agrees(event, machine, scenario, sequence, output)
  BY <1>1, <1>2, PoppedUnderWay
<1>4. machine \in MachineRec /\ scenario \in ScenarioRec
  BY DEF RunnersInv, RunnersType
<1>5. /\ machine.feature = "RUNNING" /\ machine.scenario = "ERROR"
      /\ machine.sequence = "ERROR"
  BY <1>1, <1>3 DEF Agrees, MachinesOf, ExpectedMachines
<1>6. machine' = [machine EXCEPT !.feature = "ERROR"]
  BY <1>1, <1>4, <1>5 DEF MachineRec
<1>7. /\ machine' \in MachineRec /\ machine'.feature = "ERROR"
      /\ machine'.scenario = "ERROR" /\ machine'.sequence = "ERROR"
  BY <1>4, <1>5, <1>6, FeatureMachine DEF Status
<1>8. PICK e : e = [event EXCEPT !.id = "FEATURE_ERROR"]
  OBVIOUS
<1>9. "FEATURE_ERROR" \in EventIds /\ "FEATURE_ERROR" \in ChainEvents
  BY DEF EventIds, ChainEvents, FeatureEvents
<1>10. /\ e \in DomainEvent /\ e.id = "FEATURE_ERROR" /\ e.error = event.error
       /\ e.feature_request_id = event.feature_request_id
  BY <1>3, <1>8, <1>9, EventRenamed
<1>11. MachinesOf(machine') = ExpectedMachines(e.id)
  BY <1>7, <1>10 DEF MachinesOf, ExpectedMachines
<1>12. Agrees(e, machine', scenario', sequence, output)
  BY <1>1, <1>3, <1>10, <1>11 DEF Agrees, Completions, Failures
<1>13. QED
  BY <1>1, <1>3, <1>4, <1>7, <1>8, <1>9, <1>10, <1>12, PassedOn

LEMMA ScenarioCompletedKeeps ==
  ASSUME RunnersInv, RestType, QueueHasRoom, OnScenarioCompleted
  PROVE  RunnersInv'
<1>1. /\ channel.pending # << >> /\ event.id = "SCENARIO_COMPLETED"
      /\ UNCHANGED <<workflow_started, catalog, requests, reports, scenario, sequence>>
  BY DEF OnScenarioCompleted, HandlerRuns
<1>2. event.id \in ChainEvents
  BY <1>1 DEF ChainEvents, ScenarioEvents
<1>3. /\ output.status = "RUNNING" /\ workflow_started
      /\ ~sequence.step_running /\ Ready(popped) /\ event \in DomainEvent
      /\ Agrees(event, machine, scenario, sequence, output)
  BY <1>1, <1>2, PoppedUnderWay
<1>4. machine \in MachineRec /\ scenario \in ScenarioRec
  BY DEF RunnersInv, RunnersType
<1>5. /\ machine.feature = "RUNNING" /\ machine.scenario = "COMPLETED"
      /\ machine.sequence = "COMPLETED"
  BY <1>1, <1>3 DEF Agrees, MachinesOf, ExpectedMachines
<1>6. /\ machine' = [machine EXCEPT !.feature = "COMPLETED"]
      /\ DomainPublish(popped, output, [event EXCEPT !.id = "FEATURE_COMPLETED"])
  BY <1>5 DEF OnScenarioCompleted
<1>7. /\ machine' \in MachineRec /\ machine'.feature = "COMPLETED"
      /\ machine'.scenario = "COMPLETED" /\ machine'.sequence = "COMPLETED"
  BY <1>4, <1>5, <1>6, FeatureMachine DEF Status
<1>8. PICK e : e = [event EXCEPT !.id = "FEATURE_COMPLETED"]
  OBVIOUS
<1>9. "FEATURE_COMPLETED" \in EventIds /\ "FEATURE_COMPLETED" \in ChainEvents
  BY DEF EventIds, ChainEvents, FeatureEvents
<1>10. /\ e \in DomainEvent /\ e.id = "FEATURE_COMPLETED" /\ e.error = event.error
       /\ e.feature_request_id = event.feature_request_id
  BY <1>3, <1>8, <1>9, EventRenamed
<1>11. MachinesOf(machine') = ExpectedMachines(e.id)
  BY <1>7, <1>10 DEF MachinesOf, ExpectedMachines
<1>12. Agrees(e, machine', scenario', sequence, output)
  BY <1>1, <1>3, <1>10, <1>11 DEF Agrees, Completions, Failures
<1>13. QED
  BY <1>1, <1>3, <1>4, <1>6, <1>7, <1>8, <1>9, <1>10, <1>12, PassedOn

LEMMA FeatureEventKeeps ==
  ASSUME RunnersInv, RestType, QueueHasRoom, OnFeatureEvent
  PROVE  RunnersInv' /\ reports' \in Seq(Report)
<1> DEFINE status == IF event.id = "FEATURE_COMPLETED" THEN "COMPLETED" ELSE "ERROR"
<1>1. /\ channel.pending # << >> /\ event.id \in {"FEATURE_COMPLETED", "FEATURE_ERROR"}
      /\ output' = [output EXCEPT !.status = status, !.error = event.error]
      /\ reports' = Append(reports, [request_id |-> output'.request_id,
                                     error |-> output'.error])
      /\ channel' = popped
      /\ UNCHANGED <<workflow_started, catalog, requests, machine, scenario, sequence>>
  BY DEF OnFeatureEvent, HandlerRuns, FeatureEvents, runners
<1>2. event.id \in ChainEvents
  BY <1>1 DEF ChainEvents, FeatureEvents
<1>3. /\ output.status = "RUNNING" /\ workflow_started
      /\ ~sequence.step_running /\ Ready(popped) /\ event \in DomainEvent
      /\ Agrees(event, machine, scenario, sequence, output)
  BY <1>1, <1>2, PoppedUnderWay
<1>4. output \in OutputRec /\ status \in Status /\ event.error \in DomainError
  BY <1>3, EventFields DEF RunnersInv, RunnersType, Status
<1> HIDE DEF status
<1>5. /\ output' \in OutputRec /\ output'.status = status /\ output'.error = event.error
      /\ output'.completed_step_count = output.completed_step_count
      /\ output'.total_step_count = output.total_step_count
      /\ output'.request_id = output.request_id
  <2>1. PICK v \in Status, cause \in DomainError : v = status /\ cause = event.error
    BY <1>4
  <2>2. output' = [output EXCEPT !.status = v, !.error = cause]
    BY <1>1, <2>1
  <2>3. output \in OutputRec
    BY <1>4
  <2>4. output' \in OutputRec
    BY <2>2, <2>3 DEF OutputRec
  <2>5. /\ output'.status = v /\ output'.error = cause
        /\ output'.completed_step_count = output.completed_step_count
        /\ output'.total_step_count = output.total_step_count
        /\ output'.request_id = output.request_id
    BY <2>2, <2>3 DEF OutputRec
  <2>6. QED
    BY <2>1, <2>4, <2>5
<1>6. /\ output'.total_step_count = scenario.definition.total_step_count
      /\ output'.status # "RUNNING"
  BY <1>3, <1>5, RunningFacts DEF status
<1>7. Over(channel', machine', sequence', output')
  <2>1. NoChain(channel') /\ ~sequence'.step_running
    BY <1>1, <1>3 DEF Ready
  <2>2. CASE event.id = "FEATURE_COMPLETED"
    <3>1. output'.status = "COMPLETED"
      BY <1>5, <2>2 DEF status
    <3>2. /\ output'.error = "NONE"
          /\ output'.completed_step_count = output'.total_step_count
          /\ MachinesOf(machine') = ExpectedMachines("FEATURE_COMPLETED")
      BY <1>1, <1>3, <1>5, <1>6, <2>2 DEF Agrees, Completions
    <3>3. QED
      BY <2>1, <3>1, <3>2 DEF Over
  <2>3. CASE event.id = "FEATURE_ERROR"
    <3>1. output'.status = "ERROR"
      BY <1>5, <2>3 DEF status
    <3>2. /\ output'.error \notin {"NONE", "INTERNAL"}
          /\ output'.completed_step_count < output'.total_step_count
          /\ MachinesOf(machine') = ExpectedMachines("FEATURE_ERROR")
      BY <1>1, <1>3, <1>5, <1>6, <2>3 DEF Agrees, Failures
    <3>3. QED
      BY <2>1, <3>1, <3>2 DEF Over
  <2>4. QED
    BY <1>1, <2>2, <2>3
<1>8. Progress(channel, machine, scenario, sequence, output, workflow_started)'
  BY <1>6, <1>7 DEF Progress
<1>9. RunnersType'
  BY <1>1, <1>3, <1>5 DEF RunnersInv, RunnersType, Ready
<1>10. Pointers(scenario, sequence, catalog)'
  BY <1>1 DEF RunnersInv, Pointers
<1>11. Requested(scenario, sequence, output, workflow_started, requests)'
  BY <1>6 DEF Requested
<1> DEFINE report == [request_id |-> output'.request_id, error |-> output'.error]
<1>12. report \in Report /\ report.request_id = output.request_id
  BY <1>4, <1>5, OutputFields DEF Report
<1>13. reports \in Seq(Report) /\ requests \in Seq(RequestId)
  BY DEF RestType
<1> HIDE DEF report
<1>14. reports' = Append(reports, report)
  BY <1>1 DEF report
<1>15. PICK n \in Nat : n = Len(reports)
  BY <1>13, LenProperties
<1>16. /\ reports' \in Seq(Report) /\ Len(reports') = n + 1
       /\ DOMAIN reports' = 1 .. n + 1 /\ reports'[n + 1] = report
       /\ \A k \in 1 .. n : reports'[k] = reports[k]
  BY <1>12, <1>13, <1>14, <1>15, AppendProperties, LenProperties
<1>17. Len(requests) = n + 1 /\ \A k \in 1 .. n : reports[k].request_id = requests[k]
  BY <1>3, <1>13, <1>15, LenProperties DEF RunnersInv, Reported
<1>18. requests[n + 1] = output.request_id
  BY <1>3, <1>17 DEF RunnersInv, Requested
<1>19. \A k \in 1 .. n + 1 : reports'[k].request_id = requests[k]
  <2> SUFFICES ASSUME NEW k \in 1 .. n + 1
               PROVE  reports'[k].request_id = requests[k]
    OBVIOUS
  <2>1. CASE k = n + 1
    BY <2>1, <1>12, <1>16, <1>18
  <2>2. CASE k \in 1 .. n
    BY <2>2, <1>16, <1>17
  <2>3. QED
    BY <2>1, <2>2
<1>20. Reported(output, requests, reports)'
  <2>1. Len(requests') = Len(reports') + 0
    BY <1>1, <1>16, <1>17
  <2>2. QED
    BY <1>1, <1>6, <1>16, <1>19, <2>1 DEF Reported
<1>21. QED
  BY <1>8, <1>9, <1>10, <1>11, <1>16, <1>20 DEF RunnersInv

-----------------------------------------------------------------------------
(* The calls, the dispatcher's own steps and the units.                    *)

LEMMA SubmitKeeps ==
  ASSUME RunnersInv, RestType, NEW id \in RequestId, NEW condition,
         ServiceWriteInput(id, condition)
  PROVE  RunnersInv' /\ requests' \in Seq(RequestId)
<1> DEFINE found == catalog[condition]
<1>1. /\ output.status # "RUNNING" /\ condition \in DOMAIN catalog
      /\ machine' = [machine EXCEPT !.feature = "RUNNING", !.scenario = "RUNNING"]
      /\ scenario' = [definition |-> found, sequence_index |-> 0]
      /\ sequence' = [sequence EXCEPT !.definition = Null]
      /\ output' = [status |-> "RUNNING", request_id |-> id,
                    completed_step_count |-> 0,
                    total_step_count |-> found.total_step_count, error |-> "NONE"]
      /\ workflow_started' = FALSE
      /\ requests' = Append(requests, id)
      /\ UNCHANGED <<channel, catalog, reports>>
  BY DEF ServiceWriteInput
<1>2. found \in InstalledIn(catalog) /\ found \in Scenarios /\ found # Null
  BY <1>1, InstalledAreScenarios, DefinitionFacts DEF RestType, InstalledIn
<1>3. found.total_step_count \in Nat
  BY <1>2, DefinitionFacts, PositionsFinite
<1> HIDE DEF found
<1>4. /\ channel \in ChannelRec /\ Bounded(channel) /\ machine \in MachineRec
      /\ sequence \in SequenceRec
  BY DEF RunnersInv, RunnersType
<1>5. NoChain(channel) /\ ~sequence.step_running
  BY <1>1 DEF RunnersInv, Progress, Over
<1>6. /\ machine' \in MachineRec /\ machine'.feature = "RUNNING"
      /\ machine'.scenario = "RUNNING"
  BY <1>1, <1>4 DEF MachineRec, Status
<1>7. /\ scenario' \in ScenarioRec /\ scenario'.definition = found
      /\ scenario'.sequence_index = 0
  BY <1>1, <1>2 DEF ScenarioRec
<1>8. sequence' \in SequenceRec /\ sequence'.definition = Null
      /\ ~sequence'.step_running
  BY <1>1, <1>4, <1>5, SequenceForgets
<1>9. /\ output' \in OutputRec /\ output'.status = "RUNNING" /\ output'.request_id = id
      /\ output'.completed_step_count = 0
      /\ output'.total_step_count = found.total_step_count
  BY <1>1, <1>3 DEF OutputRec, Status, DomainError
<1>10. RunnersType'
  BY <1>1, <1>4, <1>6, <1>7, <1>8, <1>9 DEF RunnersType
<1>11. Progress(channel, machine, scenario, sequence, output, workflow_started)'
  <2>1. Fresh(channel', machine', scenario', sequence', output')
    BY <1>1, <1>5, <1>6, <1>7, <1>8, <1>9 DEF Fresh
  <2>2. QED
    BY <1>1, <1>9, <2>1 DEF Progress
<1>12. Pointers(scenario, sequence, catalog)'
  BY <1>1, <1>2, <1>7, <1>8 DEF Pointers
<1>13. requests \in Seq(RequestId) /\ reports \in Seq(Report)
  BY DEF RestType
<1>14. PICK n \in Nat : n = Len(requests)
  BY <1>13, LenProperties
<1>15. /\ requests' \in Seq(RequestId) /\ Len(requests') = n + 1
       /\ requests'[n + 1] = id /\ \A k \in 1 .. n : requests'[k] = requests[k]
       /\ requests' # << >>
  BY <1>1, <1>13, <1>14, AppendProperties, EmptySeq
<1>16. Requested(scenario, sequence, output, workflow_started, requests)'
  BY <1>1, <1>2, <1>7, <1>9, <1>15 DEF Requested
<1>17. Len(reports) = n /\ \A k \in 1 .. n : reports[k].request_id = requests[k]
  <2>1. Len(reports) \in Nat /\ DOMAIN reports = 1 .. Len(reports)
    BY <1>13, LenProperties
  <2>2. Len(requests) = Len(reports) + 0
    BY <1>1 DEF RunnersInv, Reported
  <2>3. Len(reports) = n
    BY <1>14, <2>1, <2>2
  <2>4. QED
    BY <2>1, <2>3 DEF RunnersInv, Reported
<1>18. Reported(output, requests, reports)'
  <2>1. DOMAIN reports = 1 .. n
    BY <1>13, <1>17, LenProperties
  <2>2. QED
    BY <1>1, <1>9, <1>15, <1>17, <2>1 DEF Reported
<1>19. QED
  BY <1>10, <1>11, <1>12, <1>15, <1>16, <1>18 DEF RunnersInv

LEMMA LoadKeeps ==
  ASSUME RunnersInv, RestType, NEW loaded \in Catalogs, LoadWorkflows(loaded)
  PROVE  RunnersInv'
<1>1. /\ output.status # "RUNNING"
      /\ scenario' = [scenario EXCEPT !.definition = Null]
      /\ sequence' = [sequence EXCEPT !.definition = Null]
      /\ UNCHANGED <<channel, machine, output, workflow_started, requests, reports>>
  BY DEF LoadWorkflows, history
<1>2. scenario \in ScenarioRec /\ sequence \in SequenceRec
  BY DEF RunnersInv, RunnersType
<1>3. scenario' \in ScenarioRec /\ scenario'.definition = Null
  BY <1>1, <1>2, ScenarioForgets
<1>4. /\ sequence' \in SequenceRec /\ sequence'.definition = Null
      /\ sequence'.step_running = sequence.step_running
  BY <1>1, <1>2, SequenceForgets
<1>5. RunnersType'
  BY <1>1, <1>3, <1>4 DEF RunnersInv, RunnersType
<1>6. Progress(channel, machine, scenario, sequence, output, workflow_started)'
  BY <1>1, <1>4 DEF RunnersInv, Progress, Over
<1>7. /\ Pointers(scenario, sequence, catalog)'
      /\ Requested(scenario, sequence, output, workflow_started, requests)'
      /\ Reported(output, requests, reports)'
  BY <1>1, <1>3, <1>4 DEF RunnersInv, Pointers, Requested, Reported
<1>8. QED
  BY <1>5, <1>6, <1>7 DEF RunnersInv

LEMMA StartKeeps ==
  ASSUME RunnersInv, RestType, QueueHasRoom, StartWorkflow,
         UNCHANGED <<catalog, requests, reports>>
  PROVE  RunnersInv'
<1>1. /\ output.status = "RUNNING" /\ ~workflow_started /\ workflow_started' = TRUE
      /\ StartSequence(scenario, channel, clock)
  BY DEF StartWorkflow
<1>2. Fresh(channel, machine, scenario, sequence, output)
  BY <1>1 DEF RunnersInv, Progress
<1>3. /\ channel \in ChannelRec /\ Bounded(channel) /\ machine \in MachineRec
      /\ scenario \in ScenarioRec /\ sequence \in SequenceRec /\ output \in OutputRec
      /\ clock \in Nat
  BY DEF RunnersInv, RunnersType, RestType
<1>4. Ready(channel)
  BY <1>2, <1>3 DEF Ready, Fresh, HasSpace, QueueHasRoom
<1>5. scenario.definition \in InstalledIn(catalog) /\ scenario.definition \in Scenarios
  BY <1>1, RunningFacts
<1>6. PICK i \in DOMAIN scenario.definition.sequences : i = scenario.sequence_index + 1
  <2>1. scenario.sequence_index = 0
    BY <1>2 DEF Fresh
  <2>2. 1 \in DOMAIN scenario.definition.sequences
    BY <1>5, DefinitionFacts, EmptySeq, LenProperties
  <2>3. QED
    BY <2>1, <2>2
<1>7. output.completed_step_count
        = Cardinality(Before(scenario.definition, scenario.sequence_index, 0))
  BY <1>2, <1>5, NothingBefore DEF Fresh
<1>8. /\ scenario' = scenario
      /\ Moved(scenario, scenario.definition.sequences[i], output)
  BY <1>1, <1>2, <1>3, <1>4, <1>5, <1>6, <1>7, SequenceLeads DEF Fresh
<1>9. /\ channel' \in ChannelRec /\ Bounded(channel')
      /\ machine' \in MachineRec /\ sequence' \in SequenceRec
      /\ sequence'.definition = scenario.definition.sequences[i] /\ output' = output
      /\ Moving(channel', machine', scenario', sequence', output')
  BY <1>8 DEF Moved
<1>10. RunnersType'
  BY <1>3, <1>8, <1>9 DEF RunnersType
<1>11. Progress(channel, machine, scenario, sequence, output, workflow_started)'
  BY <1>1, <1>9 DEF Progress
<1>12. Pointers(scenario, sequence, catalog)'
  BY <1>5, <1>8, <1>9 DEF Pointers
<1>13. Requested(scenario, sequence, output, workflow_started, requests)'
  <2>1. scenario.definition.sequences[i] # Null
    BY <1>5, DefinitionFacts
  <2>2. QED
    BY <1>8, <1>9, <2>1 DEF RunnersInv, Requested
<1>14. Reported(output, requests, reports)'
  BY <1>9 DEF RunnersInv, Reported
<1>15. QED
  BY <1>10, <1>11, <1>12, <1>13, <1>14 DEF RunnersInv

LEMMA TimeoutKeeps ==
  ASSUME RunnersInv, RestType, QueueHasRoom, PublishTimeout,
         UNCHANGED <<catalog, requests, reports>>
  PROVE  RunnersInv'
<1> DEFINE e == Payload("STEP_TIMEOUT", sequence, output, "STEP_TIMEOUT")
<1>1. /\ output.status = "RUNNING" /\ workflow_started
      /\ DomainPublish(channel, output, e)
      /\ sequence' = [sequence EXCEPT !.timeout_published = TRUE]
      /\ UNCHANGED <<machine, scenario, workflow_started>>
  BY DEF PublishTimeout
<1>2. /\ channel \in ChannelRec /\ Bounded(channel) /\ HasSpace(channel)
      /\ sequence \in SequenceRec /\ output \in OutputRec
  BY DEF RunnersInv, RunnersType, QueueHasRoom, HasSpace
<1>3. "STEP_TIMEOUT" \in EventIds /\ "STEP_TIMEOUT" \in DomainError
      /\ "STEP_TIMEOUT" \notin ChainEvents
  BY DEF EventIds, DomainError, ChainEvents, SequenceEvents, ScenarioEvents, FeatureEvents
<1>4. e \in DomainEvent /\ e.id = "STEP_TIMEOUT"
  BY <1>2, <1>3, PayloadFields
<1> HIDE DEF e
<1>5. /\ channel' \in ChannelRec /\ Bounded(channel') /\ output' = output
      /\ channel'.pending = Append(channel.pending, e)
  BY <1>1, <1>2, <1>4, EventPublished
<1>6. /\ NoChain(channel) => NoChain(channel')
      /\ \A g : OneChain(channel, g) => OneChain(channel', g)
  BY <1>2, <1>3, <1>4, <1>5, ChainAppended
<1>7. /\ sequence' \in SequenceRec /\ sequence'.step_running = sequence.step_running
      /\ sequence'.definition = sequence.definition
      /\ sequence'.step_index = sequence.step_index
  BY <1>1, <1>2, TimeoutMarked
<1>8. RunnersType'
  BY <1>1, <1>5, <1>7 DEF RunnersInv, RunnersType
<1>9. Progress(channel, machine, scenario, sequence, output, workflow_started)'
  <2>1. Moving(channel, machine, scenario, sequence, output)
    BY <1>1 DEF RunnersInv, Progress
  <2>2. CASE Waiting(channel, machine, scenario, sequence, output)
    <3>1. Waiting(channel', machine, scenario, sequence', output)
      BY <1>6, <1>7, <2>2 DEF Waiting, Standing
    <3>2. QED
      BY <1>1, <1>5, <3>1 DEF Progress, Moving
  <2>3. CASE UnderWay(channel, machine, scenario, sequence, output)
    <3>1. PICK g \in DomainEvent :
            OneChain(channel, g) /\ Agrees(g, machine, scenario, sequence, output)
      BY <2>3 DEF UnderWay
    <3>2. Agrees(g, machine, scenario, sequence', output)
      BY <1>7, <3>1 DEF Agrees, Standing
    <3>3. ~sequence'.step_running
      BY <1>7, <2>3 DEF UnderWay
    <3>4. UnderWay(channel', machine, scenario, sequence', output)
      BY <1>6, <3>1, <3>2, <3>3 DEF UnderWay
    <3>5. QED
      BY <1>1, <1>5, <3>4 DEF Progress, Moving
  <2>4. QED
    BY <2>1, <2>2, <2>3 DEF Moving
<1>10. /\ Pointers(scenario, sequence, catalog)'
       /\ Requested(scenario, sequence, output, workflow_started, requests)'
       /\ Reported(output, requests, reports)'
  BY <1>1, <1>5, <1>7 DEF RunnersInv, Pointers, Requested, Reported
<1>11. QED
  BY <1>8, <1>9, <1>10 DEF RunnersInv

LEMMA NotifyKeeps ==
  ASSUME RunnersInv, UnitType, NEW u \in Units, Notify(u)
  PROVE  RunnersInv'
<1> DEFINE r == worker[u].result
           e == [id |-> UnitEvent(r), feature_request_id |-> 0,
                 unit_request_id |-> r.request_id, unit_number |-> u,
                 error |-> IF r.error = "NONE" THEN "NONE" ELSE "UNIT_FAILED"]
<1>1. channel' = Channel!Published(channel, e)
      /\ UNCHANGED <<machine, scenario, sequence, output, workflow_started,
                     catalog, requests, reports>>
  BY DEF Notify, service, runners, history
<1>2. r \in Result
  BY DEF UnitType
<1>3. UnitEvent(r) \in UnitEvents /\ UnitEvent(r) \notin ChainEvents
  BY DEF UnitEvent, UnitEvents, ChainEvents, SequenceEvents, ScenarioEvents, FeatureEvents
<1>4. r.request_id \in RequestId /\ 0 \in RequestId
  BY <1>2, UnitAssumption DEF Result
<1>5. (IF r.error = "NONE" THEN "NONE" ELSE "UNIT_FAILED") \in DomainError
  BY DEF DomainError
<1> HIDE DEF r
<1>6. e \in DomainEvent
  BY <1>3, <1>4, <1>5 DEF DomainEvent
<1>7. e.id \notin ChainEvents
  BY <1>3
<1> HIDE DEF e
<1>8. channel \in ChannelRec /\ Bounded(channel)
  BY DEF RunnersInv, RunnersType
<1>9. /\ channel' \in ChannelRec /\ Bounded(channel')
      /\ channel' = channel \/ channel'.pending = Append(channel.pending, e)
  BY <1>1, <1>6, <1>8, PublishedFields
<1>10. /\ NoChain(channel) => NoChain(channel')
       /\ \A g : OneChain(channel, g) => OneChain(channel', g)
  <2>1. CASE channel' = channel
    BY <2>1
  <2>2. CASE channel'.pending = Append(channel.pending, e)
    BY <2>2, <1>6, <1>7, <1>8, ChainAppended
  <2>3. QED
    BY <1>9, <2>1, <2>2
<1>11. QED
  BY <1>1, <1>9, <1>10, OthersKeep

LEMMA ReleaseKeeps ==
  ASSUME RunnersInv, ReleaseSlot
  PROVE  RunnersInv'
<1>1. channel' = Channel!Released(channel)
      /\ UNCHANGED <<machine, scenario, sequence, output, workflow_started,
                     catalog, requests, reports>>
  BY DEF ReleaseSlot, service, runners, history
<1>2. channel \in ChannelRec /\ Bounded(channel)
  BY DEF RunnersInv, RunnersType
<1>3. channel' \in ChannelRec /\ Bounded(channel') /\ channel'.pending = channel.pending
  BY <1>1, <1>2, ReleasedFields
<1>4. /\ NoChain(channel) => NoChain(channel')
      /\ \A g : OneChain(channel, g) => OneChain(channel', g)
  BY <1>3, ChainSame
<1>5. QED
  BY <1>1, <1>3, <1>4, OthersKeep

UnitRec ==
  [status : Status, request_id : RequestId, error : Error,
   result_output : Handler \cup {Null}, has_input : BOOLEAN, stop_requested : BOOLEAN]
WorkerRec ==
  [at : {"ready", "waiting", "operating", "finished", "notifying", "exited"},
   result : Result]

OutputsKept == \A v \in Units : unit'[v].result_output = unit[v].result_output

LEMMA InputKeepsUnits ==
  ASSUME UnitType, NEW u \in Units, NEW id \in RequestId, WriteInput(u, id)
  PROVE  UnitType' /\ OutputsKept
<1>1. /\ unit' = [unit EXCEPT ![u].status = "RUNNING", ![u].request_id = id,
                              ![u].error = "NONE", ![u].has_input = TRUE]
      /\ worker' = [worker EXCEPT ![u] = Wake(@)]
      /\ destroyer' = destroyer
  BY DEF WriteInput
<1>2. unit \in [Units -> UnitRec] /\ worker \in [Units -> WorkerRec]
  BY DEF UnitType, UnitRec, WorkerRec
<1>3. ASSUME NEW r \in UnitRec
      PROVE  /\ [r EXCEPT !.status = "RUNNING", !.request_id = id, !.error = "NONE",
                          !.has_input = TRUE] \in UnitRec
             /\ [r EXCEPT !.status = "RUNNING", !.request_id = id, !.error = "NONE",
                          !.has_input = TRUE].result_output = r.result_output
  BY DEF UnitRec, Status, Error
<1>4. unit' \in [Units -> UnitRec] /\ OutputsKept
  BY <1>1, <1>2, <1>3 DEF OutputsKept
<1>5. \A w \in WorkerRec : Wake(w) \in WorkerRec
  BY DEF Wake, WorkerRec
<1>6. worker' \in [Units -> WorkerRec]
  BY <1>1, <1>2, <1>5
<1>7. QED
  BY <1>1, <1>4, <1>6 DEF UnitType, UnitRec, WorkerRec

LEMMA WorkKeepsUnits ==
  ASSUME UnitType, NEW u \in Units,
         WorkerTake(u) \/ WorkerReadId(u) \/ WorkerFinish(u) \/ WorkerNotify(u)
  PROVE  UnitType' /\ OutputsKept
<1>1. /\ unit \in [Units -> UnitRec] /\ worker \in [Units -> WorkerRec]
      /\ destroyer \in [Units -> {"none", "checking", "waiting", "joining", "freed"}]
  BY DEF UnitType, UnitRec, WorkerRec
<1>2. CASE WorkerTake(u)
  <2>1. unit' \in [Units -> UnitRec] /\ OutputsKept
    BY <1>1, <1>2 DEF WorkerTake, UnitRec, OutputsKept
  <2>2. worker' \in [Units -> WorkerRec]
    BY <1>1, <1>2 DEF WorkerTake, MoveWorker, WorkerRec
  <2>3. QED
    BY <1>1, <1>2, <2>1, <2>2 DEF WorkerTake, UnitType, UnitRec, WorkerRec
<1>3. CASE WorkerReadId(u)
  <2>1. unit[u].request_id \in RequestId
    BY <1>1 DEF UnitRec
  <2>2. ASSUME NEW w \in WorkerRec, NEW id \in RequestId
        PROVE  [w EXCEPT !.at = "notifying", !.result.request_id = id] \in WorkerRec
    BY DEF WorkerRec, Result
  <2>3. worker' \in [Units -> WorkerRec]
    BY <1>1, <1>3, <2>1, <2>2 DEF WorkerReadId
  <2>4. QED
    BY <1>1, <1>3, <2>3 DEF WorkerReadId, UnitType, UnitRec, WorkerRec, OutputsKept
<1>4. CASE WorkerFinish(u)
  <2>1. PICK error \in Error :
          /\ unit' = [unit EXCEPT ![u].error = error,
               ![u].status = IF error = "NONE" THEN "COMPLETED" ELSE "ERROR"]
          /\ worker' = [worker EXCEPT ![u].at = "finished", ![u].result.error = error]
    BY <1>4 DEF WorkerFinish
  <2>2. ASSUME NEW r \in UnitRec, NEW status \in Status
        PROVE  /\ [r EXCEPT !.error = error, !.status = status] \in UnitRec
               /\ [r EXCEPT !.error = error, !.status = status].result_output
                    = r.result_output
    BY DEF UnitRec
  <2>3. (IF error = "NONE" THEN "COMPLETED" ELSE "ERROR") \in Status
    BY DEF Status
  <2>4. unit' \in [Units -> UnitRec] /\ OutputsKept
    BY <1>1, <2>1, <2>2, <2>3 DEF OutputsKept
  <2>5. worker' \in [Units -> WorkerRec]
    <3>1. ASSUME NEW w \in WorkerRec
          PROVE  [w EXCEPT !.at = "finished", !.result.error = error] \in WorkerRec
      <4>1. w.result \in Result /\ [w.result EXCEPT !.error = error] \in Result
        BY DEF WorkerRec, Result
      <4>2. QED
        BY <4>1 DEF WorkerRec
    <3>2. QED
      BY <1>1, <2>1, <3>1
  <2>6. destroyer' \in [Units -> {"none", "checking", "waiting", "joining", "freed"}]
    BY <1>1, <1>4 DEF WorkerFinish
  <2>7. QED
    BY <2>4, <2>5, <2>6 DEF UnitType, UnitRec, WorkerRec
<1>5. CASE WorkerNotify(u)
  <2>1. [request_id |-> 0, error |-> "NONE"] \in Result
    BY UnitAssumption DEF Result, Error
  <2>2. worker' \in [Units -> WorkerRec]
    BY <1>1, <1>5, <2>1 DEF WorkerNotify, WorkerRec
  <2>3. QED
    BY <1>1, <1>5, <2>2 DEF WorkerNotify, UnitType, UnitRec, WorkerRec, OutputsKept
<1>6. QED
  BY <1>2, <1>3, <1>4, <1>5

LEMMA RegisterKeepsUnits ==
  ASSUME UnitType, NEW S \in SUBSET Units, NEW publisher \in Handler,
         unit' = Registered(S, publisher), UNCHANGED <<worker, destroyer>>
  PROVE  UnitType' /\ \A u \in S : unit'[u].result_output = publisher
<1>1. unit \in [Units -> UnitRec]
  BY DEF UnitType, UnitRec
<1>2. ASSUME NEW r \in UnitRec
      PROVE  /\ [r EXCEPT !.result_output = publisher] \in UnitRec
             /\ [r EXCEPT !.result_output = publisher].result_output = publisher
  BY DEF UnitRec
<1>3. unit' \in [Units -> UnitRec] /\ \A u \in S : unit'[u].result_output = publisher
  BY <1>1, <1>2 DEF Registered
<1>4. QED
  BY <1>3 DEF UnitType, UnitRec

-----------------------------------------------------------------------------
(* Every step keeps the invariant, as long as the queue has room.          *)

LEMMA OutputsKeepInv ==
  ASSUME UnitInv, UnitType', OutputsKept, alive' = alive
  PROVE  UnitInv'
  BY DEF UnitInv, Reports, OutputsKept

LEMMA UnitsUntouchedKeep ==
  ASSUME UnitInv, UNCHANGED unitVars, alive' = alive \/ alive' # "yes"
  PROVE  UnitInv'
  BY DEF UnitInv, UnitType, Reports, unitVars

LEMMA StartStepUnits ==
  ASSUME UnitInv, alive' = alive, NEW m, NEW q, NEW out \in OutputRec, NEW c, NEW now,
         StartStep(m, q, out, c, now),
         q.definition \in Seq(Step), q.step_index + 1 \in 1 .. Len(q.definition)
  PROVE  UnitInv'
<1> DEFINE step == q.definition[q.step_index + 1]
<1>1. CASE WriteInput(step.unit, UnitRequestId(out))
  <2>1. step \in Step
    BY ElementOfSeq
  <2>2. step.unit \in Units /\ UnitRequestId(out) \in RequestId
    BY <2>1, UnitRequestIdType DEF Step
  <2> HIDE DEF step
  <2>3. UnitType' /\ OutputsKept
    BY <1>1, <2>2, InputKeepsUnits DEF UnitInv
  <2>4. QED
    BY <2>3, OutputsKeepInv
<1>2. CASE UnitsUntouched
  BY <1>2, UnitsUntouchedKeep DEF UnitsUntouched
<1>3. QED
  BY <1>1, <1>2 DEF StartStep

LEMMA StartSequenceUnits ==
  ASSUME UnitInv, alive' = alive, sequence \in SequenceRec, output \in OutputRec,
         NEW s, s.definition \in Scenarios,
         s.sequence_index + 1 \in DOMAIN s.definition.sequences,
         NEW c, NEW now, StartSequence(s, c, now)
  PROVE  UnitInv'
<1> DEFINE d == s.definition.sequences[s.sequence_index + 1]
<1>1. d \in SequenceDefinitions /\ d \in Seq(Step) /\ d # << >>
  BY DefinitionFacts
<1>2. 1 \in 1 .. Len(d)
  BY <1>1, EmptySeq
<1> HIDE DEF d
<1>3. PICK m, q : /\ q = [sequence EXCEPT !.definition = d, !.step_index = 0,
                                          !.step_running = FALSE]
                  /\ StartStep(m, q, output, c, now)
  BY DEF StartSequence, d
<1>4. q.definition = d /\ q.step_index = 0
  BY <1>3 DEF SequenceRec
<1>5. q.definition \in Seq(Step) /\ q.step_index + 1 \in 1 .. Len(q.definition)
  BY <1>1, <1>2, <1>4
<1>6. QED
  BY <1>3, <1>5, StartStepUnits

LEMMA HandlerRest ==
  ASSUME RestType, NEW ids, NEW next \in {"release", "callback"},
         HandlerRuns(ids, next), reports' \in Seq(Report)
  PROVE  RestType' /\ alive' = alive
<1>1. /\ control.at = "dispatch" /\ control' = [control EXCEPT !.at = next]
      /\ control.dispatched < Budget
      /\ UNCHANGED <<workflow_started, current_time_ms, catalog, alive, clock, requests>>
  BY DEF HandlerRuns
<1>2. control' \in ControlRec /\ WithinBudget'
  BY <1>1 DEF RestType, ControlRec, WithinBudget
<1>3. QED
  BY <1>1, <1>2 DEF RestType

LEMMA HandlerKeeps ==
  ASSUME DomainInv, QueueHasRoom, RunHandler
  PROVE  DomainInv'
<1> USE DEF DomainInv
<1>1. /\ sequence \in SequenceRec /\ output \in OutputRec /\ scenario \in ScenarioRec
      /\ reports \in Seq(Report)
  BY DEF RunnersInv, RunnersType, RestType
<1>2. CASE OnUnitCompleted
  <2>1. RunnersInv'
    BY <1>2, UnitCompletedKeeps
  <2>2. RestType' /\ alive' = alive
    BY <1>1, <1>2, HandlerRest DEF OnUnitCompleted
  <2>3. CASE UnitsUntouched
    BY <2>1, <2>2, <2>3, UnitsUntouchedKeep DEF UnitsUntouched
  <2>4. CASE ~UnitsUntouched
    <3>1. Awaited /\ StepCompleted
      BY <1>2, <2>4 DEF OnUnitCompleted, Ignored
    <3>2. PICK out : out = [output EXCEPT !.completed_step_count = @ + 1]
      OBVIOUS
    <3>3. PICK q : q = [sequence EXCEPT !.step_index = @ + 1, !.step_running = FALSE]
      OBVIOUS
    <3>4. out \in OutputRec
      BY <1>1, <3>2, OutputCounts
    <3>5. q.definition = sequence.definition /\ q.step_index = sequence.step_index + 1
      BY <1>1, <3>3, StepCounts
    <3>6. /\ ~(q.step_index >= Len(q.definition))
          /\ StartStep(machine, q, out, popped, current_time_ms)
      BY <2>4, <3>1, <3>2, <3>3 DEF StepCompleted
    <3>7. output.status = "RUNNING" /\ sequence.step_running
      BY <3>1 DEF Awaited
    <3>8. /\ sequence.definition \in Seq(Step) /\ Len(sequence.definition) \in Nat
          /\ sequence.step_index \in Nat
      BY <3>7, WaitingFacts
    <3>9. q.definition \in Seq(Step) /\ q.step_index + 1 \in 1 .. Len(q.definition)
      BY <3>5, <3>6, <3>8
    <3>10. UnitInv'
      BY <2>2, <3>4, <3>6, <3>9, StartStepUnits
    <3>11. QED
      BY <2>1, <2>2, <3>10
  <2>5. QED
    BY <2>3, <2>4
<1>3. CASE OnFailure
  <2>1. RunnersInv'
    BY <1>3, FailureKeeps
  <2>2. RestType' /\ alive' = alive
    BY <1>1, <1>3, HandlerRest DEF OnFailure
  <2>3. UnitsUntouched
    BY <1>3 DEF OnFailure, Ignored
  <2>4. QED
    BY <2>1, <2>2, <2>3, UnitsUntouchedKeep DEF UnitsUntouched
<1>4. CASE OnSequenceCompleted
  <2>1. RunnersInv'
    BY <1>4, SequenceCompletedKeeps
  <2>2. RestType' /\ alive' = alive
    BY <1>1, <1>4, HandlerRest DEF OnSequenceCompleted
  <2>3. CASE UnitsUntouched
    BY <2>1, <2>2, <2>3, UnitsUntouchedKeep DEF UnitsUntouched
  <2>4. CASE ~UnitsUntouched
    <3>1. PICK s : s = [scenario EXCEPT !.sequence_index = @ + 1]
      OBVIOUS
    <3>2. /\ s.definition = scenario.definition
          /\ s.sequence_index = scenario.sequence_index + 1
          /\ scenario.sequence_index \in Nat
      BY <1>1, <3>1, ScenarioAdvances
    <3>3. /\ ~(s.sequence_index >= Len(s.definition.sequences))
          /\ StartSequence(s, popped, current_time_ms)
      BY <1>4, <2>4, <3>1 DEF OnSequenceCompleted
    <3>4. channel.pending # << >> /\ event.id \in ChainEvents
      BY <1>4 DEF OnSequenceCompleted, HandlerRuns, ChainEvents, SequenceEvents
    <3>5. output.status = "RUNNING"
      BY <3>4, PoppedUnderWay
    <3>6. scenario.definition \in Scenarios
      BY <3>5, RunningFacts
    <3>7. /\ Len(scenario.definition.sequences) \in Nat
          /\ DOMAIN scenario.definition.sequences
               = 1 .. Len(scenario.definition.sequences)
      BY <3>6, DefinitionFacts, LenProperties
    <3>8. s.sequence_index + 1 \in DOMAIN s.definition.sequences
      BY <3>2, <3>3, <3>7
    <3>9. UnitInv'
      BY <1>1, <2>2, <3>2, <3>3, <3>6, <3>8, StartSequenceUnits
    <3>10. QED
      BY <2>1, <2>2, <3>9
  <2>5. QED
    BY <2>3, <2>4
<1>5. CASE OnSequenceError
  <2>1. RunnersInv'
    BY <1>5, SequenceErrorKeeps
  <2>2. RestType' /\ alive' = alive
    BY <1>1, <1>5, HandlerRest DEF OnSequenceError
  <2>3. QED
    BY <1>5, <2>1, <2>2, UnitsUntouchedKeep DEF OnSequenceError, UnitsUntouched
<1>6. CASE OnScenarioCompleted
  <2>1. RunnersInv'
    BY <1>6, ScenarioCompletedKeeps
  <2>2. RestType' /\ alive' = alive
    BY <1>1, <1>6, HandlerRest DEF OnScenarioCompleted
  <2>3. QED
    BY <1>6, <2>1, <2>2, UnitsUntouchedKeep DEF OnScenarioCompleted, UnitsUntouched
<1>7. CASE OnScenarioError
  <2>1. RunnersInv'
    BY <1>7, ScenarioErrorKeeps
  <2>2. RestType' /\ alive' = alive
    BY <1>1, <1>7, HandlerRest DEF OnScenarioError
  <2>3. QED
    BY <1>7, <2>1, <2>2, UnitsUntouchedKeep DEF OnScenarioError, UnitsUntouched
<1>8. CASE OnFeatureEvent
  <2>1. RunnersInv' /\ reports' \in Seq(Report)
    BY <1>8, FeatureEventKeeps
  <2>2. RestType' /\ alive' = alive
    BY <1>8, <2>1, HandlerRest DEF OnFeatureEvent
  <2>3. QED
    BY <1>8, <2>1, <2>2, UnitsUntouchedKeep DEF OnFeatureEvent, UnitsUntouched
<1>9. QED
  BY <1>2, <1>3, <1>4, <1>5, <1>6, <1>7, <1>8 DEF RunHandler

LEMMA ProcessKeeps ==
  ASSUME DomainInv, QueueHasRoom, Process
  PROVE  DomainInv'
<1> USE DEF DomainInv
<1>1. /\ current_time_ms' = clock
      /\ control' = IF control.at = "callback" THEN control
                    ELSE [at |-> "dispatch", dispatched |-> 0]
      /\ UNCHANGED <<catalog, alive, clock, requests, reports>>
  BY DEF Process
<1>2. control' \in ControlRec /\ WithinBudget'
  <2>1. 0 \in 0 .. Budget
    BY DomainAssumption
  <2>2. QED
    BY <1>1, <2>1 DEF RestType, ControlRec, WithinBudget
<1>3. workflow_started' \in BOOLEAN
  BY DEF Process, StartWorkflow, PublishTimeout, NothingDue, RestType
<1>4. RestType'
  BY <1>1, <1>2, <1>3 DEF RestType
<1>5. CASE StartWorkflow
  <2>1. RunnersInv'
    BY <1>1, <1>5, StartKeeps
  <2>2. /\ output.status = "RUNNING" /\ ~workflow_started
        /\ StartSequence(scenario, channel, clock)
    BY <1>5 DEF StartWorkflow
  <2>3. Fresh(channel, machine, scenario, sequence, output)
    BY <2>2 DEF RunnersInv, Progress
  <2>4. scenario.definition \in Scenarios
    BY <2>2, RunningFacts
  <2>5. scenario.sequence_index + 1 \in DOMAIN scenario.definition.sequences
    <3>1. 1 \in DOMAIN scenario.definition.sequences
      BY <2>4, DefinitionFacts, EmptySeq, LenProperties
    <3>2. QED
      BY <2>3, <3>1 DEF Fresh
  <2>6. sequence \in SequenceRec /\ output \in OutputRec
    BY DEF RunnersInv, RunnersType
  <2>7. UnitInv'
    BY <1>1, <2>2, <2>4, <2>5, <2>6, StartSequenceUnits
  <2>8. QED
    BY <1>4, <2>1, <2>7
<1>6. CASE PublishTimeout
  <2>1. RunnersInv'
    BY <1>1, <1>6, TimeoutKeeps
  <2>2. QED
    BY <1>1, <1>4, <1>6, <2>1, UnitsUntouchedKeep DEF PublishTimeout, UnitsUntouched
<1>7. CASE NothingDue
  <2>1. RunnersInv'
    <3>1. channel \in ChannelRec /\ Bounded(channel)
      BY DEF RunnersInv, RunnersType
    <3>2. QED
      BY <1>1, <1>7, <3>1, OthersKeep DEF NothingDue, runners
  <2>2. QED
    BY <1>1, <1>4, <1>7, <2>1, UnitsUntouchedKeep DEF NothingDue, UnitsUntouched
<1>8. QED
  BY <1>5, <1>6, <1>7 DEF Process

LEMMA DispatcherKeeps ==
  ASSUME DomainInv, CallbackReturns \/ ReleaseSlot \/ DispatchEnds
  PROVE  DomainInv'
<1> USE DEF DomainInv
<1>1. /\ UNCHANGED <<unitVars, machine, scenario, sequence, output, workflow_started,
                     current_time_ms, catalog, alive, clock, requests, reports>>
  BY DEF CallbackReturns, ReleaseSlot, DispatchEnds, service, runners, history
<1>2. UnitInv'
  BY <1>1, UnitsUntouchedKeep
<1>3. control' \in ControlRec /\ WithinBudget'
  <2>1. control \in ControlRec /\ WithinBudget
    BY DEF RestType
  <2>2. CASE CallbackReturns
    BY <2>1, <2>2 DEF CallbackReturns, ControlRec, WithinBudget
  <2>3. CASE ReleaseSlot
    <3>1. PICK n \in Nat : n = control.dispatched
      BY <2>1, DomainAssumption DEF ControlRec
    <3>2. n < Budget
      BY <2>1, <2>3, <3>1 DEF ReleaseSlot, WithinBudget
    <3>3. n + 1 \in 0 .. Budget
      BY <3>1, <3>2, DomainAssumption
    <3>4. control' = [at |-> "dispatch", dispatched |-> n + 1]
      BY <2>3, <3>1 DEF ReleaseSlot
    <3>5. QED
      BY <3>3, <3>4 DEF ControlRec, WithinBudget
  <2>4. CASE DispatchEnds
    <3>1. control' = [at |-> "idle", dispatched |-> 0]
      BY <2>4 DEF DispatchEnds
    <3>2. 0 \in 0 .. Budget
      BY DomainAssumption
    <3>3. QED
      BY <3>1, <3>2 DEF ControlRec, WithinBudget
  <2>5. QED
    BY <2>2, <2>3, <2>4
<1>4. RestType'
  BY <1>1, <1>3 DEF RestType
<1>5. RunnersInv'
  <2>1. CASE channel' = channel
    <3>1. channel \in ChannelRec /\ Bounded(channel)
      BY DEF RunnersInv, RunnersType
    <3>2. QED
      BY <1>1, <2>1, <3>1, OthersKeep
  <2>2. CASE ReleaseSlot
    BY <2>2, ReleaseKeeps
  <2>3. QED
    BY <2>1, <2>2 DEF CallbackReturns, DispatchEnds
<1>6. QED
  BY <1>2, <1>4, <1>5

(* A step that leaves the runners, their events and the history alone.     *)
LEMMA RunnersUntouchedKeep ==
  ASSUME RunnersInv,
         UNCHANGED <<channel, machine, scenario, sequence, output, workflow_started,
                     catalog, requests, reports>>
  PROVE  RunnersInv'
<1>1. channel \in ChannelRec /\ Bounded(channel)
  BY DEF RunnersInv, RunnersType
<1>2. QED
  BY <1>1, OthersKeep

LEMMA CreateKeeps ==
  ASSUME DomainInv, Create \/ CreateFails
  PROVE  DomainInv'
<1> USE DEF DomainInv
<1>1. CASE Create
  <2>1. /\ alive' = "yes" /\ unit' = Registered(Units, Publisher)
        /\ UNCHANGED <<worker, destroyer>>
        /\ UNCHANGED <<channel, machine, scenario, sequence, output, workflow_started,
                       current_time_ms, catalog, control, clock, requests, reports>>
    BY <1>1 DEF Create, runners, history
  <2>2. UnitInv'
    <3>1. Publisher \in Handler
      BY DomainAssumption
    <3>2. QED
      BY <2>1, <3>1, RegisterKeepsUnits DEF UnitInv, Reports
  <2>3. RunnersInv'
    BY <2>1, RunnersUntouchedKeep
  <2>4. RestType'
    BY <2>1 DEF RestType, WithinBudget
  <2>5. QED
    BY <2>2, <2>3, <2>4
<1>2. CASE CreateFails
  <2>1. PICK S \in SUBSET Units : unit' = Registered(S, FreedPublisher)
    BY <1>2 DEF CreateFails
  <2>2. /\ alive = "no" /\ UNCHANGED <<worker, destroyer, alive>>
        /\ UNCHANGED <<channel, machine, scenario, sequence, output, workflow_started,
                       current_time_ms, catalog, control, clock, requests, reports>>
    BY <1>2 DEF CreateFails, service, runners, history
  <2>3. UnitInv'
    <3>1. FreedPublisher \in Handler
      BY DomainAssumption
    <3>2. UnitType'
      BY <2>1, <2>2, <3>1, RegisterKeepsUnits DEF UnitInv
    <3>3. QED
      BY <2>2, <3>2 DEF UnitInv
  <2>4. RunnersInv'
    BY <2>2, RunnersUntouchedKeep
  <2>5. RestType'
    BY <2>2 DEF RestType, WithinBudget
  <2>6. QED
    BY <2>3, <2>4, <2>5
<1>3. QED
  BY <1>1, <1>2

LEMMA CallsKeep ==
  ASSUME DomainInv, Submit \/ Load \/ Destroy
  PROVE  DomainInv'
<1> USE DEF DomainInv
<1>1. CASE Submit
  <2>1. PICK id \in ControlIds, condition \in UNION {DOMAIN c : c \in Catalogs} :
          ServiceWriteInput(id, condition)
    BY <1>1 DEF Submit
  <2>2. id \in RequestId
    BY DomainAssumption
  <2>3. RunnersInv' /\ requests' \in Seq(RequestId)
    BY <2>1, <2>2, SubmitKeeps
  <2>4. /\ current_time_ms' = 0 /\ workflow_started' = FALSE
        /\ UNCHANGED <<unitVars, catalog, alive, control, clock, reports>>
    BY <2>1 DEF ServiceWriteInput
  <2>5. RestType'
    BY <2>3, <2>4 DEF RestType, WithinBudget
  <2>6. QED
    BY <2>3, <2>4, <2>5, UnitsUntouchedKeep
<1>2. CASE Load
  <2>1. PICK loaded \in Catalogs : LoadWorkflows(loaded)
    BY <1>2 DEF Load
  <2>2. RunnersInv'
    BY <2>1, LoadKeeps
  <2>3. /\ catalog' = loaded
        /\ UNCHANGED <<unitVars, workflow_started, current_time_ms, alive, control,
                       clock, requests, reports>>
    BY <2>1 DEF LoadWorkflows, history
  <2>4. RestType'
    BY <2>3 DEF RestType, WithinBudget
  <2>5. QED
    BY <2>2, <2>3, <2>4, UnitsUntouchedKeep
<1>3. CASE Destroy
  <2>1. /\ alive' = "destroyed"
        /\ UNCHANGED <<unitVars, channel, machine, scenario, sequence, output,
                       workflow_started, current_time_ms, catalog, control, clock,
                       requests, reports>>
    BY <1>3 DEF Destroy, runners, history
  <2>2. UnitInv'
    BY <2>1, UnitsUntouchedKeep
  <2>3. RunnersInv'
    BY <2>1, RunnersUntouchedKeep
  <2>4. RestType'
    BY <2>1 DEF RestType, WithinBudget
  <2>5. QED
    BY <2>2, <2>3, <2>4
<1>4. QED
  BY <1>1, <1>2, <1>3

LEMMA UnitsKeep ==
  ASSUME DomainInv, NEW u \in Units, Work(u) \/ Finish(u) \/ Notify(u) \/ NotifyFreed(u)
  PROVE  DomainInv'
<1> USE DEF DomainInv
<1>1. /\ WorkerTake(u) \/ WorkerReadId(u) \/ WorkerFinish(u) \/ WorkerNotify(u)
      /\ UNCHANGED <<machine, scenario, sequence, output, workflow_started,
                     current_time_ms, catalog, alive, control, clock, requests, reports>>
  BY DEF Work, Finish, Notify, NotifyFreed, service, runners, history
<1>2. UnitType' /\ OutputsKept
  BY <1>1, WorkKeepsUnits DEF UnitInv
<1>3. UnitInv'
  BY <1>1, <1>2, OutputsKeepInv
<1>4. RestType'
  BY <1>1 DEF RestType, WithinBudget
<1>5. RunnersInv'
  <2>1. CASE Notify(u)
    BY <2>1, NotifyKeeps DEF UnitInv
  <2>2. CASE channel' = channel
    BY <1>1, <2>2, RunnersUntouchedKeep
  <2>3. QED
    BY <2>1, <2>2 DEF Work, Finish, NotifyFreed
<1>6. QED
  BY <1>3, <1>4, <1>5

LEMMA TickKeeps ==
  ASSUME DomainInv, Tick
  PROVE  DomainInv'
<1> USE DEF DomainInv
<1>1. /\ clock' = clock + 1
      /\ UNCHANGED <<unitVars, channel, machine, scenario, sequence, output,
                     workflow_started, current_time_ms, catalog, alive, control,
                     requests, reports>>
  BY DEF Tick, service, runners, history
<1>2. UnitInv'
  BY <1>1, UnitsUntouchedKeep
<1>3. RunnersInv'
  BY <1>1, RunnersUntouchedKeep
<1>4. RestType'
  BY <1>1 DEF RestType, WithinBudget
<1>5. QED
  BY <1>2, <1>3, <1>4

LEMMA StepKeeps == DomainInv /\ QueueHasRoom /\ [Next]_vars => DomainInv'
<1> SUFFICES ASSUME DomainInv, QueueHasRoom, [Next]_vars PROVE DomainInv'
  OBVIOUS
<1>1. CASE Create \/ CreateFails
  BY <1>1, CreateKeeps
<1>2. CASE Submit \/ Load \/ Destroy
  BY <1>2, CallsKeep
<1>3. CASE Process
  BY <1>3, ProcessKeeps
<1>4. CASE RunHandler
  BY <1>4, HandlerKeeps
<1>5. CASE CallbackReturns \/ ReleaseSlot \/ DispatchEnds
  BY <1>5, DispatcherKeeps
<1>6. ASSUME NEW u \in Units, Work(u) \/ Finish(u) \/ Notify(u) \/ NotifyFreed(u)
      PROVE  DomainInv'
  BY <1>6, UnitsKeep
<1>7. CASE Tick
  BY <1>7, TickKeeps
<1>8. CASE UNCHANGED vars
  <2> USE DEF DomainInv
  <2>1. UNCHANGED <<unitVars, channel, machine, scenario, sequence, output,
                    workflow_started, current_time_ms, catalog, alive, control,
                    clock, requests, reports>>
    BY <1>8 DEF vars, service, runners, history
  <2>2. UnitInv'
    BY <2>1, UnitsUntouchedKeep
  <2>3. RunnersInv'
    BY <2>1, RunnersUntouchedKeep
  <2>4. RestType'
    BY <2>1 DEF RestType, WithinBudget
  <2>5. QED
    BY <2>2, <2>3, <2>4
<1>9. QED
  BY <1>1, <1>2, <1>3, <1>4, <1>5, <1>6, <1>7, <1>8 DEF Next, Dispatching

LEMMA InitInv == Init => DomainInv
<1> SUFFICES ASSUME Init PROVE DomainInv
  OBVIOUS
<1> USE DEF Init
<1>1. UnitInv
  <2>1. 0 \in RequestId
    BY UnitAssumption
  <2>2. UnitType
    BY <2>1 DEF UnitInit, UnitType, Status, Error, Result
  <2>3. QED
    BY <2>2 DEF UnitInv
<1>2. requests = << >> /\ reports = << >> /\ Len(requests) = 0 /\ Len(reports) = 0
  BY EmptySeq
<1>3. RestType
  <2>1. control \in ControlRec /\ WithinBudget
    <3>1. 0 \in 0 .. Budget
      BY DomainAssumption
    <3>2. QED
      BY <3>1 DEF ControlRec, WithinBudget
  <2>2. requests \in Seq(RequestId) /\ reports \in Seq(Report)
    BY <1>2, EmptySeq
  <2>3. QED
    BY <2>1, <2>2, DomainAssumption DEF RestType, WithinBudget
<1>4. channel.pending = << >> /\ channel.held = << >> /\ channel \in ChannelRec
  BY EmptySeq DEF Channel!EmptyChannel, ChannelRec
<1>5. Bounded(channel) /\ NoChain(channel)
  <2>1. Len(channel.pending) = 0 /\ Len(channel.held) = 0
    BY <1>4, EmptySeq
  <2>2. QED
    BY <1>4, <2>1, DomainAssumption DEF Bounded, NoChain
<1>6. RunnersType
  <2>1. machine \in MachineRec
    BY DEF MachineRec, Status
  <2>2. scenario \in ScenarioRec
    BY DEF ScenarioRec
  <2>3. sequence \in SequenceRec
    BY UnitAssumption DEF SequenceRec
  <2>4. output \in OutputRec
    BY UnitAssumption DEF OutputRec, Status, DomainError
  <2>5. QED
    BY <1>4, <1>5, <2>1, <2>2, <2>3, <2>4 DEF RunnersType
<1>7. Progress(channel, machine, scenario, sequence, output, workflow_started)
  BY <1>5 DEF Progress, Over
<1>8. Pointers(scenario, sequence, catalog)
  BY DEF Pointers
<1>9. Requested(scenario, sequence, output, workflow_started, requests)
  BY DEF Requested
<1>10. Reported(output, requests, reports)
  BY <1>2 DEF Reported
<1>11. QED
  BY <1>1, <1>3, <1>6, <1>7, <1>8, <1>9, <1>10 DEF DomainInv, RunnersInv

-----------------------------------------------------------------------------
(* What the invariant says in the terms of the properties.                 *)

LEMMA InFlightIsMoving ==
  ASSUME RunnersInv
  PROVE  /\ InFlight => Moving(channel, machine, scenario, sequence, output)
         /\ ~InFlight => NoChain(channel) /\ ~sequence.step_running
<1>1. Progress(channel, machine, scenario, sequence, output, workflow_started)
  BY DEF RunnersInv
<1>2. QED
  BY <1>1 DEF Progress, InFlight, Over, Fresh

LEMMA NoChainIsEmpty == NoChain(channel) => Chain = {}
  BY DEF NoChain, Chain

LEMMA ChainIsSingle ==
  ASSUME NEW e, OneChain(channel, e)
  PROVE  \E i \in DOMAIN channel.pending : Chain = {i} /\ channel.pending[i] = e
  BY DEF OneChain, Chain

LEMMA TokenFromInv == DomainInv => WorkflowToken
<1> SUFFICES ASSUME DomainInv PROVE WorkflowToken
  OBVIOUS
<1>1. RunnersInv
  BY DEF DomainInv
<1>2. CASE ~InFlight
  <2>1. Chain = {} /\ ~sequence.step_running
    BY <1>1, <1>2, InFlightIsMoving, NoChainIsEmpty
  <2>2. Cardinality(Chain) = 0
    BY <2>1, FS_EmptySet
  <2>3. QED
    BY <1>2, <2>1, <2>2 DEF WorkflowToken
<1>3. CASE InFlight /\ Waiting(channel, machine, scenario, sequence, output)
  <2>1. Chain = {} /\ sequence.step_running
    BY <1>3, NoChainIsEmpty DEF Waiting
  <2>2. Cardinality(Chain) = 0
    BY <2>1, FS_EmptySet
  <2>3. QED
    BY <1>3, <2>1, <2>2 DEF WorkflowToken
<1>4. CASE InFlight /\ UnderWay(channel, machine, scenario, sequence, output)
  <2>1. PICK i \in DOMAIN channel.pending : Chain = {i}
    BY <1>4, ChainIsSingle DEF UnderWay
  <2>2. Cardinality(Chain) = 1 /\ ~sequence.step_running
    BY <1>4, <2>1, FS_Singleton DEF UnderWay
  <2>3. QED
    BY <1>4, <2>2 DEF WorkflowToken
<1>5. QED
  BY <1>1, <1>2, <1>3, <1>4, InFlightIsMoving DEF Moving

LEMMA AgreementFromInv == DomainInv /\ QueueHasRoom => RunnersAgree
<1> SUFFICES ASSUME DomainInv, QueueHasRoom PROVE RunnersAgree
  OBVIOUS
<1>1. RunnersInv /\ RestType /\ UnitType
  BY DEF DomainInv, UnitInv
<1>2. TypeOK
  BY <1>1, TypesAreTypeOK DEF RunnersInv
<1>3. sequence.step_running => Machines = AllRunning
  BY <1>1, InFlightIsMoving DEF Moving, Waiting, UnderWay, MachinesOf, Machines
<1>4. ASSUME NEW i \in Chain
      PROVE  /\ Machines = ExpectedMachines(channel.pending[i].id)
             /\ channel.pending[i].feature_request_id = output.request_id
             /\ channel.pending[i].error # "INTERNAL"
  <2>1. ~NoChain(channel)
    BY <1>4, NoChainIsEmpty
  <2>2. UnderWay(channel, machine, scenario, sequence, output)
    BY <1>1, <2>1, InFlightIsMoving DEF Moving, Waiting
  <2>3. PICK e \in DomainEvent :
          OneChain(channel, e) /\ Agrees(e, machine, scenario, sequence, output)
    BY <2>2 DEF UnderWay
  <2>4. channel.pending[i] = e
    BY <1>4, <2>3, ChainIsSingle
  <2>5. e.id \in Completions \/ e.id \in Failures
    BY <2>3 DEF OneChain, ChainEvents, SequenceEvents, ScenarioEvents, FeatureEvents,
                Completions, Failures
  <2>6. e.error # "INTERNAL"
    BY <2>3, <2>5 DEF Agrees
  <2>7. QED
    BY <2>3, <2>4, <2>6 DEF Agrees, Machines, MachinesOf
<1>5. QED
  BY <1>2, <1>3, <1>4 DEF RunnersAgree, AllRunning

LEMMA TerminalFromInv == DomainInv => TerminalOutput
<1> SUFFICES ASSUME DomainInv, output.status # "RUNNING" PROVE TerminalOutput
  BY DEF TerminalOutput
<1>1. Over(channel, machine, sequence, output)
  BY DEF DomainInv, RunnersInv, Progress
<1>2. QED
  BY <1>1 DEF Over, TerminalOutput, Machines, MachinesOf

LEMMA ReportsFromInv == DomainInv => ReportsMatchRequests
  BY DEF DomainInv, RunnersInv, Reported, ReportsMatchRequests

LEMMA PointersFromInv == DomainInv => PointersAreLive
<1> SUFFICES ASSUME DomainInv PROVE PointersAreLive
  OBVIOUS
<1>1. Installed = InstalledIn(catalog)
  BY DEF Installed, InstalledIn
<1>2. alive = "yes" => \A u \in Units : ReportsToService(u)
  BY DEF DomainInv, UnitInv, Reports, ReportsToService
<1>3. /\ scenario.definition # Null => scenario.definition \in Installed
      /\ sequence.definition # Null =>
           \E s \in Installed, i \in DOMAIN scenario.definition.sequences :
             s = scenario.definition /\ sequence.definition = s.sequences[i]
  BY <1>1 DEF DomainInv, RunnersInv, Pointers
<1>4. InFlight => scenario.definition # Null /\ sequence.definition # Null
  BY DEF DomainInv, RunnersInv, Requested, InFlight
<1>5. QED
  BY <1>2, <1>3, <1>4 DEF PointersAreLive

(* After the end only a new request changes the output: the handlers find  *)
(* no workflow under way and no step to wait for.                          *)
LEMMA OutputStays ==
  ASSUME DomainInv, QueueHasRoom, output.status \in {"COMPLETED", "ERROR"}, [Next]_vars
  PROVE  Submit \/ output' = output
<1>1. RunnersInv /\ output.status # "RUNNING" /\ RunnersType
  BY DEF DomainInv, RunnersInv
<1>2. ASSUME RunHandler PROVE output' = output
  <2>1. CASE OnUnitCompleted
    BY <1>1, <2>1 DEF OnUnitCompleted, Awaited, Ignored
  <2>2. CASE OnFailure
    BY <1>1, <2>2 DEF OnFailure, FailsStep, Ignored
  <2>3. SUFFICES ASSUME OnSequenceCompleted \/ OnSequenceError \/ OnScenarioCompleted
                          \/ OnScenarioError \/ OnFeatureEvent
                 PROVE  FALSE
    BY <1>2, <2>1, <2>2 DEF RunHandler
  <2>4. channel.pending # << >> /\ event.id \in ChainEvents
    BY <2>3 DEF OnSequenceCompleted, OnSequenceError, OnScenarioCompleted,
                OnScenarioError, OnFeatureEvent, HandlerRuns, ChainEvents,
                SequenceEvents, ScenarioEvents, FeatureEvents
  <2>5. QED
    BY <1>1, <2>4, PoppedFacts, HeadIsUnderWay
<1>3. ASSUME Process PROVE output' = output
  BY <1>1, <1>3 DEF Process, StartWorkflow, PublishTimeout, NothingDue
<1>4. ASSUME CallbackReturns \/ ReleaseSlot \/ DispatchEnds PROVE output' = output
  BY <1>4 DEF CallbackReturns, ReleaseSlot, DispatchEnds, service
<1>5. ASSUME Create \/ CreateFails \/ Load \/ Destroy PROVE output' = output
  BY <1>5 DEF Create, CreateFails, Load, LoadWorkflows, Destroy, service
<1>6. ASSUME NEW u \in Units, Work(u) \/ Finish(u) \/ Notify(u) \/ NotifyFreed(u)
      PROVE  output' = output
  BY <1>6 DEF Work, Finish, Notify, NotifyFreed, service
<1>7. ASSUME Tick \/ UNCHANGED vars PROVE output' = output
  BY <1>7 DEF Tick, vars, service
<1>8. QED
  BY <1>2, <1>3, <1>4, <1>5, <1>6, <1>7 DEF Next, Dispatching

LEMMA SubmitAdds ==
  ASSUME RestType, Submit
  PROVE  output'.status = "RUNNING" /\ Len(requests') = Len(requests) + 1
<1>1. PICK id \in ControlIds, condition \in UNION {DOMAIN c : c \in Catalogs} :
        ServiceWriteInput(id, condition)
  BY DEF Submit
<1>2. id \in RequestId /\ requests \in Seq(RequestId)
  BY DomainAssumption DEF RestType
<1>3. requests' = Append(requests, id) /\ output'.status = "RUNNING"
  BY <1>1 DEF ServiceWriteInput
<1>4. QED
  BY <1>2, <1>3, AppendProperties

-----------------------------------------------------------------------------
(* How many events of a kind are pending, and how many of them were        *)
(* published after the event between runners that is under way.            *)

At(p, S) == {i \in DOMAIN p : p[i].id \in S}
Behind(p, S) == {i \in At(p, S) : \A j \in At(p, ChainEvents) : j < i}

TimeoutEvents == {"STEP_TIMEOUT"}

LEMMA KindsDiffer ==
  /\ UnitEvents \cap ChainEvents = {} /\ TimeoutEvents \cap ChainEvents = {}
  /\ UnitEvents \cap TimeoutEvents = {}
  /\ EventIds = UnitEvents \cup TimeoutEvents \cup ChainEvents
  BY DEF UnitEvents, TimeoutEvents, ChainEvents, SequenceEvents, ScenarioEvents,
         FeatureEvents, EventIds

LEMMA CountedFinite ==
  ASSUME NEW n \in Nat, NEW A \in SUBSET (1 .. n)
  PROVE  IsFiniteSet(A) /\ Cardinality(A) \in Nat /\ Cardinality(A) <= n
<1>1. IsFiniteSet(1 .. n) /\ Cardinality(1 .. n) = n
  BY FS_Interval
<1>2. IsFiniteSet(A) /\ Cardinality(A) <= Cardinality(1 .. n)
  BY <1>1, FS_Subset
<1>3. QED
  BY <1>1, <1>2, FS_CardinalityType

LEMMA AtFinite ==
  ASSUME NEW p \in Seq(DomainEvent), NEW S
  PROVE  /\ At(p, S) \in SUBSET (1 .. Len(p)) /\ Behind(p, S) \in SUBSET (1 .. Len(p))
         /\ IsFiniteSet(At(p, S)) /\ Cardinality(At(p, S)) \in Nat
         /\ IsFiniteSet(Behind(p, S)) /\ Cardinality(Behind(p, S)) \in Nat
         /\ Cardinality(Behind(p, S)) <= Cardinality(At(p, S))
<1>1. Len(p) \in Nat /\ DOMAIN p = 1 .. Len(p)
  BY LenProperties
<1>2. At(p, S) \in SUBSET (1 .. Len(p)) /\ Behind(p, S) \in SUBSET At(p, S)
  BY <1>1 DEF At, Behind
<1>3. Behind(p, S) \in SUBSET (1 .. Len(p))
  BY <1>2
<1>4. /\ IsFiniteSet(At(p, S)) /\ Cardinality(At(p, S)) \in Nat
      /\ IsFiniteSet(Behind(p, S)) /\ Cardinality(Behind(p, S)) \in Nat
  BY <1>1, <1>2, <1>3, CountedFinite
<1>5. Cardinality(Behind(p, S)) <= Cardinality(At(p, S))
  BY <1>2, <1>4, FS_Subset
<1>6. QED
  BY <1>2, <1>3, <1>4, <1>5

(* A set whose elements are those of another, one place further.           *)
LEMMA ShiftedCount ==
  ASSUME NEW A \in SUBSET Nat, IsFiniteSet(A), NEW B \in SUBSET (Nat \ {0}),
         \A k \in B : k + 1 \in A
  PROVE  /\ Cardinality(B) <= Cardinality(A)
         /\ 1 \in A => Cardinality(B) + 1 <= Cardinality(A)
<1>1. \A k \in B : k + 1 # 1
  OBVIOUS
<1>2. ASSUME NEW C, IsFiniteSet(C), \A k \in B : k + 1 \in C
      PROVE  Cardinality(B) <= Cardinality(C)
  <2> DEFINE f == [k \in B |-> k + 1]
  <2>1. f \in [B -> C]
    BY <1>2
  <2>2. \A k, l \in B : f[k] = f[l] => k = l
    OBVIOUS
  <2>3. f \in Injection(B, C)
    BY <2>1, <2>2 DEF Injection, IsInjective
  <2> HIDE DEF f
  <2>4. QED
    BY <1>2, <2>3, FS_Injection
<1>3. Cardinality(B) <= Cardinality(A)
  BY <1>2
<1>4. ASSUME 1 \in A PROVE Cardinality(B) + 1 <= Cardinality(A)
  <2>1. IsFiniteSet(A \ {1}) /\ Cardinality(A \ {1}) = Cardinality(A) - 1
    BY <1>4, FS_RemoveElement
  <2>2. \A k \in B : k + 1 \in A \ {1}
    BY <1>1
  <2>3. Cardinality(B) <= Cardinality(A \ {1})
    BY <1>2, <2>1, <2>2
  <2>4. IsFiniteSet(B)
    <3>1. B \in SUBSET Nat
      OBVIOUS
    <3> DEFINE f == [k \in B |-> k + 1]
    <3>2. f \in [B -> A] /\ \A k, l \in B : f[k] = f[l] => k = l
      OBVIOUS
    <3>3. f \in Injection(B, A)
      BY <3>2 DEF Injection, IsInjective
    <3> HIDE DEF f
    <3>4. QED
      BY <3>3, FS_Injection
  <2>5. Cardinality(A) \in Nat /\ Cardinality(B) \in Nat
    BY <2>4, FS_CardinalityType
  <2>6. QED
    BY <2>1, <2>3, <2>5
<1>5. QED
  BY <1>3, <1>4

LEMMA CountsTaken ==
  ASSUME NEW p \in Seq(DomainEvent), p # << >>, NEW S, NEW q, q = Tail(p)
  PROVE  /\ Cardinality(At(q, S)) <= Cardinality(At(p, S))
         /\ p[1].id \in S => Cardinality(At(q, S)) + 1 <= Cardinality(At(p, S))
         /\ At(p, S) = {} => At(q, S) = {}
<1>1. PICK n \in Nat : n = Len(p)
  BY LenProperties
<1>2. n # 0 /\ DOMAIN p = 1 .. n
  BY <1>1, EmptySeq, LenProperties
<1>3. DOMAIN q = 1 .. n - 1 /\ \A i \in 1 .. n - 1 : q[i] = p[i + 1]
  BY <1>1, HeadTailProperties, LenProperties
<1>4. \A k \in At(q, S) : k + 1 \in At(p, S)
  BY <1>2, <1>3 DEF At
<1>5. At(q, S) \in SUBSET (Nat \ {0})
  BY <1>3 DEF At
<1>6. At(p, S) \in SUBSET Nat /\ IsFiniteSet(At(p, S))
  BY AtFinite
<1>7. p[1].id \in S => 1 \in At(p, S)
  BY <1>2 DEF At
<1>8. QED
  BY <1>4, <1>5, <1>6, <1>7, ShiftedCount

LEMMA BehindTaken ==
  ASSUME NEW p \in Seq(DomainEvent), p # << >>, NEW S, NEW q, q = Tail(p),
         p[1].id \notin ChainEvents
  PROVE  /\ Cardinality(Behind(q, S)) <= Cardinality(Behind(p, S))
         /\ Behind(p, S) = {} => Behind(q, S) = {}
<1>1. PICK n \in Nat : n = Len(p)
  BY LenProperties
<1>2. n # 0 /\ DOMAIN p = 1 .. n
  BY <1>1, EmptySeq, LenProperties
<1>3. DOMAIN q = 1 .. n - 1 /\ \A i \in 1 .. n - 1 : q[i] = p[i + 1]
  BY <1>1, HeadTailProperties, LenProperties
<1>4. ASSUME NEW k \in Behind(q, S) PROVE k + 1 \in Behind(p, S)
  <2>1. k \in 1 .. n - 1 /\ k + 1 \in At(p, S)
    BY <1>2, <1>3 DEF Behind, At
  <2>2. ASSUME NEW j \in At(p, ChainEvents) PROVE j < k + 1
    <3>1. j \in 1 .. n /\ j # 1 /\ p[j].id \in ChainEvents
      BY <1>2 DEF At
    <3>2. PICK i \in 1 .. n - 1 : i + 1 = j
      BY <3>1
    <3>3. i \in At(q, ChainEvents)
      BY <1>3, <3>1, <3>2 DEF At
    <3>4. i < k
      BY <3>3 DEF Behind
    <3>5. QED
      BY <2>1, <3>2, <3>4
  <2>3. QED
    BY <2>1, <2>2 DEF Behind
<1>5. Behind(q, S) \in SUBSET (Nat \ {0})
  BY <1>3 DEF Behind, At
<1>6. Behind(p, S) \in SUBSET Nat /\ IsFiniteSet(Behind(p, S))
  BY AtFinite
<1>7. QED
  BY <1>4, <1>5, <1>6, ShiftedCount

(* Nothing is behind an event between runners that was just published.     *)
LEMMA CountsAppended ==
  ASSUME NEW p \in Seq(DomainEvent), NEW e \in DomainEvent, NEW S,
         S \cap ChainEvents = {}
  PROVE  /\ e.id \notin S =>
              /\ Cardinality(At(Append(p, e), S)) = Cardinality(At(p, S))
              /\ At(p, S) = {} => At(Append(p, e), S) = {}
         /\ e.id \in S =>
              Cardinality(At(Append(p, e), S)) = Cardinality(At(p, S)) + 1
         /\ e.id \in ChainEvents => Behind(Append(p, e), S) = {}
         /\ e.id \notin ChainEvents /\ e.id \notin S =>
              /\ Cardinality(Behind(Append(p, e), S)) = Cardinality(Behind(p, S))
              /\ Behind(p, S) = {} => Behind(Append(p, e), S) = {}
         /\ e.id \in S =>
              Cardinality(Behind(Append(p, e), S)) = Cardinality(Behind(p, S)) + 1
<1> DEFINE q == Append(p, e)
<1>1. PICK n \in Nat : n = Len(p)
  BY LenProperties
<1>2. DOMAIN p = 1 .. n /\ DOMAIN q = 1 .. n + 1
  BY <1>1, LenProperties, AppendProperties
<1>3. q[n + 1] = e /\ \A i \in 1 .. n : q[i] = p[i]
  BY <1>1, <1>2, AppendProperties
<1> HIDE DEF q
<1>4. ASSUME NEW T
      PROVE  At(q, T) = IF e.id \in T THEN At(p, T) \cup {n + 1} ELSE At(p, T)
  <2>1. ASSUME NEW i PROVE i \in At(q, T) <=> \/ i \in At(p, T)
                                              \/ i = n + 1 /\ e.id \in T
    <3>1. i \in 1 .. n + 1 <=> i \in 1 .. n \/ i = n + 1
      OBVIOUS
    <3>2. n + 1 \notin 1 .. n
      OBVIOUS
    <3>3. QED
      BY <1>2, <1>3, <3>1, <3>2 DEF At
  <2>2. QED
    BY <2>1
<1>5. /\ At(p, S) \in SUBSET (1 .. n) /\ Behind(p, S) \in SUBSET (1 .. n)
      /\ At(p, ChainEvents) \in SUBSET (1 .. n)
      /\ IsFiniteSet(At(p, S)) /\ IsFiniteSet(Behind(p, S))
  BY <1>1, AtFinite
<1>6. n + 1 \notin At(p, S) /\ n + 1 \notin Behind(p, S)
  BY <1>5
<1>7. e.id \in S => Cardinality(At(q, S)) = Cardinality(At(p, S)) + 1
  BY <1>4, <1>5, <1>6, FS_AddElement
<1>8. e.id \notin S => At(q, S) = At(p, S)
  BY <1>4
<1>9. ASSUME e.id \in ChainEvents PROVE Behind(q, S) = {}
  <2>1. n + 1 \in At(q, ChainEvents) /\ At(q, S) = At(p, S)
    BY <1>4, <1>9
  <2>2. \A i \in At(p, S) : ~(n + 1 < i)
    BY <1>5
  <2>3. QED
    BY <2>1, <2>2 DEF Behind
<1>10. ASSUME e.id \notin ChainEvents
       PROVE  /\ e.id \notin S => Behind(q, S) = Behind(p, S)
              /\ e.id \in S => Behind(q, S) = Behind(p, S) \cup {n + 1}
  <2>1. At(q, ChainEvents) = At(p, ChainEvents)
    BY <1>4, <1>10
  <2>2. \A j \in At(p, ChainEvents) : j < n + 1
    BY <1>5
  <2>3. QED
    BY <1>4, <2>1, <2>2 DEF Behind
<1>11. e.id \in S => Cardinality(Behind(q, S)) = Cardinality(Behind(p, S)) + 1
  BY <1>5, <1>6, <1>10, FS_AddElement
<1>12. QED
  BY <1>7, <1>8, <1>9, <1>10, <1>11 DEF q

(* Before an event between runners is handled nothing is ahead of it, and  *)
(* when none is pending everything is behind.                              *)
LEMMA AllBehind ==
  ASSUME NEW c \in ChannelRec, NEW S, S \cap ChainEvents = {}
  PROVE  /\ NoChain(c) => Behind(c.pending, S) = At(c.pending, S)
         /\ \A e : /\ OneChain(c, e) /\ c.pending # << >>
                   /\ c.pending[1].id \in ChainEvents
              => Behind(c.pending, S) = At(c.pending, S)
<1>1. c.pending \in Seq(DomainEvent)
  BY DEF ChannelRec
<1>2. NoChain(c) => At(c.pending, ChainEvents) = {}
  BY DEF NoChain, At
<1>3. NoChain(c) => Behind(c.pending, S) = At(c.pending, S)
  BY <1>2 DEF Behind
<1>4. ASSUME NEW e, OneChain(c, e), c.pending # << >>, c.pending[1].id \in ChainEvents
      PROVE  Behind(c.pending, S) = At(c.pending, S)
  <2>1. Len(c.pending) \in Nat /\ Len(c.pending) # 0 /\ DOMAIN c.pending = 1 .. Len(c.pending)
    BY <1>1, <1>4, EmptySeq, LenProperties
  <2>2. 1 \in DOMAIN c.pending
    BY <2>1
  <2>3. At(c.pending, ChainEvents) = {1}
    BY <1>4, <2>2 DEF OneChain, At
  <2>4. \A i \in At(c.pending, S) : i \in 1 .. Len(c.pending) /\ i # 1
    BY <1>4, <2>1 DEF At
  <2>5. \A i \in At(c.pending, S) : 1 < i
    BY <2>1, <2>4
  <2>6. QED
    BY <2>3, <2>5 DEF Behind
<1>5. QED
  BY <1>3, <1>4

(* No more is pending than unit events, timeouts and one event between     *)
(* runners.                                                                *)
LEMMA PendingIsCounted ==
  ASSUME NEW c \in ChannelRec, NoChain(c) \/ \E e : OneChain(c, e)
  PROVE  Len(c.pending) <= Cardinality(At(c.pending, UnitEvents))
                           + Cardinality(At(c.pending, TimeoutEvents)) + 1
<1> DEFINE p == c.pending
           A == At(p, UnitEvents)
           B == At(p, TimeoutEvents)
           C == At(p, ChainEvents)
<1>1. p \in Seq(DomainEvent)
  BY DEF ChannelRec
<1>2. /\ IsFiniteSet(A) /\ IsFiniteSet(B) /\ IsFiniteSet(C)
      /\ Cardinality(A) \in Nat /\ Cardinality(B) \in Nat /\ Cardinality(C) \in Nat
  BY <1>1, AtFinite
<1>3. Len(p) \in Nat /\ DOMAIN p = 1 .. Len(p) /\ \A i \in DOMAIN p : p[i] \in DomainEvent
  BY <1>1, LenProperties, ElementOfSeq
<1>4. A \cup B \cup C = 1 .. Len(p)
  <2>1. \A i \in DOMAIN p : p[i].id \in EventIds
    BY <1>3, EventFields
  <2>2. QED
    BY <1>3, <2>1, KindsDiffer DEF At
<1>5. Cardinality(1 .. Len(p)) = Len(p)
  BY <1>3, FS_Interval
<1>6. Cardinality(C) <= 1
  <2>1. CASE NoChain(c)
    <3>1. C = {}
      BY <2>1 DEF NoChain, At
    <3>2. QED
      BY <3>1, FS_EmptySet
  <2>2. CASE \E e : OneChain(c, e)
    <3>1. PICK e : OneChain(c, e)
      BY <2>2
    <3>2. PICK i : C = {i}
      BY <3>1 DEF OneChain, At
    <3>3. QED
      BY <3>2, FS_Singleton
  <2>3. QED
    BY <2>1, <2>2
<1> HIDE DEF A, B, C
<1>7. /\ IsFiniteSet(A \cup B)
      /\ Cardinality(A \cup B) = Cardinality(A) + Cardinality(B) - Cardinality(A \cap B)
  BY <1>2, FS_Union
<1>8. Cardinality((A \cup B) \cup C)
        = Cardinality(A \cup B) + Cardinality(C) - Cardinality((A \cup B) \cap C)
  BY <1>2, <1>7, FS_Union
<1>9. IsFiniteSet(A \cap B) /\ IsFiniteSet((A \cup B) \cap C)
  BY <1>2, FS_Subset
<1>10. Cardinality(A \cap B) \in Nat /\ Cardinality((A \cup B) \cap C) \in Nat
       /\ Cardinality(A \cup B) \in Nat
  BY <1>7, <1>9, FS_CardinalityType
<1>11. Cardinality(A \cup B) <= Cardinality(A) + Cardinality(B)
  BY <1>2, <1>7, <1>10
<1>12. Len(p) <= Cardinality(A \cup B) + Cardinality(C)
  <2>1. PICK k \in Nat, l \in Nat, m \in Nat :
          /\ k = Cardinality(A \cup B) /\ l = Cardinality(C)
          /\ m = Cardinality((A \cup B) \cap C)
    BY <1>2, <1>10
  <2>2. Len(p) = k + l - m
    BY <1>4, <1>5, <1>8, <2>1
  <2>3. k + l - m <= k + l
    OBVIOUS
  <2>4. QED
    BY <2>1, <2>2, <2>3
<1>13. QED
  BY <1>2, <1>3, <1>6, <1>10, <1>11, <1>12 DEF A, B

-----------------------------------------------------------------------------
(* The units: which work on an input, and which have a result to tell.     *)

Asked   == {u \in Units : unit[u].has_input \/ worker[u].at = "operating"}
Telling == {u \in Units : worker[u].at \in {"finished", "notifying"}}

UnitShape ==
  \A u \in Units :
    /\ unit[u].status = "RUNNING" <=> u \in Asked
    /\ worker[u].at = "operating" => ~unit[u].has_input

ResultsKept == \A v \in Units : worker'[v].result.error = worker[v].result.error

LEMMA InputAsks ==
  ASSUME UnitType, UnitShape, NEW u \in Units, NEW id \in RequestId, WriteInput(u, id)
  PROVE  /\ u \notin Asked /\ Asked' = Asked \cup {u} /\ Telling' = Telling
         /\ UnitShape' /\ ResultsKept
<1>1. unit \in [Units -> UnitRec] /\ worker \in [Units -> WorkerRec]
  BY DEF UnitType, UnitRec, WorkerRec
<1>2. /\ unit[u].status # "RUNNING"
      /\ unit' = [unit EXCEPT ![u].status = "RUNNING", ![u].request_id = id,
                              ![u].error = "NONE", ![u].has_input = TRUE]
      /\ worker' = [worker EXCEPT ![u] = Wake(@)]
  BY DEF WriteInput, Accepts
<1>3. ASSUME NEW r \in UnitRec, NEW x,
             x = [r EXCEPT !.status = "RUNNING", !.request_id = id, !.error = "NONE",
                           !.has_input = TRUE]
      PROVE  x.status = "RUNNING" /\ x.has_input
  BY <1>3 DEF UnitRec
<1>4. unit'[u].status = "RUNNING" /\ unit'[u].has_input
      /\ \A v \in Units : v # u => unit'[v] = unit[v]
  BY <1>1, <1>2, <1>3
<1>5. \A w \in WorkerRec : Wake(w).result = w.result
  BY DEF Wake, WorkerRec
<1>6. ASSUME NEW v \in Units
      PROVE  /\ worker'[v].result = worker[v].result
             /\ \A a \in {"operating", "finished", "notifying"} :
                  worker'[v].at = a <=> worker[v].at = a
  <2>1. worker'[v] = worker[v] \/ worker'[v] = Wake(worker[v])
    BY <1>1, <1>2
  <2>2. \A a \in {"operating", "finished", "notifying"} :
          Wake(worker[v]).at = a <=> worker[v].at = a
    BY <1>1 DEF Wake, WorkerRec
  <2>3. Wake(worker[v]).result = worker[v].result
    BY <1>1, <1>5
  <2>4. QED
    BY <2>1, <2>2, <2>3
<1>7. u \notin Asked /\ worker[u].at # "operating"
  BY <1>2 DEF UnitShape, Asked
<1>8. Asked' = Asked \cup {u} /\ Telling' = Telling
  BY <1>4, <1>6 DEF Asked, Telling
<1>9. UnitShape'
  <2> SUFFICES ASSUME NEW v \in Units
               PROVE  /\ unit'[v].status = "RUNNING" <=> v \in Asked'
                      /\ worker'[v].at = "operating" => ~unit'[v].has_input
    BY DEF UnitShape
  <2>1. CASE v = u
    <3>1. worker'[u].at # "operating"
      BY <1>6, <1>7
    <3>2. QED
      BY <1>4, <1>8, <2>1, <3>1
  <2>2. CASE v # u
    BY <1>4, <1>6, <1>8, <2>2 DEF UnitShape
  <2>3. QED
    BY <2>1, <2>2
<1>10. QED
  BY <1>6, <1>7, <1>8, <1>9 DEF ResultsKept

LEMMA WorkAsks ==
  ASSUME UnitType, UnitShape, NEW u \in Units, WorkerTake(u) \/ WorkerReadId(u)
  PROVE  Asked' = Asked /\ Telling' = Telling /\ UnitShape' /\ ResultsKept
<1>1. unit \in [Units -> UnitRec] /\ worker \in [Units -> WorkerRec]
  BY DEF UnitType, UnitRec, WorkerRec
<1>2. CASE WorkerTake(u)
  <2>1. /\ worker[u].at = "ready" /\ unit[u].has_input
        /\ unit' = [unit EXCEPT ![u].has_input = FALSE]
        /\ worker' = [worker EXCEPT ![u].at = "operating"]
    BY <1>2 DEF WorkerTake, MoveWorker
  <2>2. /\ unit'[u].status = unit[u].status /\ ~unit'[u].has_input
        /\ \A v \in Units : v # u => unit'[v] = unit[v]
    BY <1>1, <2>1 DEF UnitRec
  <2>3. /\ worker'[u].at = "operating" /\ worker'[u].result = worker[u].result
        /\ \A v \in Units : v # u => worker'[v] = worker[v]
    BY <1>1, <2>1 DEF WorkerRec
  <2>4. Asked' = Asked /\ Telling' = Telling
    BY <2>1, <2>2, <2>3 DEF Asked, Telling
  <2>5. UnitShape'
    BY <2>2, <2>3, <2>4 DEF UnitShape
  <2>6. QED
    BY <2>3, <2>4, <2>5 DEF ResultsKept
<1>3. CASE WorkerReadId(u)
  <2>1. /\ worker[u].at = "finished" /\ unit' = unit
        /\ worker' = [worker EXCEPT ![u].at = "notifying",
                                    ![u].result.request_id = unit[u].request_id]
    BY <1>3 DEF WorkerReadId
  <2>2. ASSUME NEW w \in WorkerRec, NEW id
        PROVE  /\ [w EXCEPT !.at = "notifying", !.result.request_id = id].at = "notifying"
               /\ [w EXCEPT !.at = "notifying", !.result.request_id = id].result.error
                    = w.result.error
    <3>1. w.result \in Result
      BY DEF WorkerRec
    <3>2. [w.result EXCEPT !.request_id = id].error = w.result.error
      BY <3>1 DEF Result
    <3>3. QED
      BY <3>2 DEF WorkerRec
  <2>3. /\ worker'[u].at = "notifying" /\ worker'[u].result.error = worker[u].result.error
        /\ \A v \in Units : v # u => worker'[v] = worker[v]
    <3>1. worker'[u] = [worker[u] EXCEPT !.at = "notifying",
                                         !.result.request_id = unit[u].request_id]
      BY <1>1, <2>1
    <3>2. worker[u] \in WorkerRec
      BY <1>1
    <3>3. QED
      BY <1>1, <2>1, <2>2, <3>1, <3>2
  <2>4. Asked' = Asked /\ Telling' = Telling
    BY <2>1, <2>3 DEF Asked, Telling
  <2>5. UnitShape'
    BY <2>1, <2>3, <2>4 DEF UnitShape
  <2>6. ASSUME NEW v \in Units PROVE worker'[v].result.error = worker[v].result.error
    BY <2>3
  <2>7. QED
    BY <2>4, <2>5, <2>6 DEF ResultsKept
<1>4. QED
  BY <1>2, <1>3

LEMMA FinishTells ==
  ASSUME UnitType, UnitShape, NEW u \in Units, WorkerFinish(u)
  PROVE  /\ u \in Asked /\ u \notin Telling
         /\ Asked' = Asked \ {u} /\ Telling' = Telling \cup {u}
         /\ UnitShape'
         /\ \A v \in Units : v # u => worker'[v] = worker[v]
<1>1. unit \in [Units -> UnitRec] /\ worker \in [Units -> WorkerRec]
  BY DEF UnitType, UnitRec, WorkerRec
<1>2. PICK error \in Error :
        /\ worker[u].at = "operating"
        /\ unit' = [unit EXCEPT ![u].error = error,
             ![u].status = IF error = "NONE" THEN "COMPLETED" ELSE "ERROR"]
        /\ worker' = [worker EXCEPT ![u].at = "finished", ![u].result.error = error]
  BY DEF WorkerFinish
<1>3. PICK status : status = IF error = "NONE" THEN "COMPLETED" ELSE "ERROR"
  OBVIOUS
<1>4. status # "RUNNING"
  BY <1>3
<1>5. /\ unit'[u].status = status /\ unit'[u].has_input = unit[u].has_input
      /\ \A v \in Units : v # u => unit'[v] = unit[v]
  BY <1>1, <1>2, <1>3 DEF UnitRec
<1>6. /\ worker'[u].at = "finished"
      /\ \A v \in Units : v # u => worker'[v] = worker[v]
  BY <1>1, <1>2 DEF WorkerRec
<1>7. u \in Asked /\ u \notin Telling /\ ~unit[u].has_input
  BY <1>2 DEF Asked, Telling, UnitShape
<1>8. Asked' = Asked \ {u} /\ Telling' = Telling \cup {u}
  BY <1>5, <1>6, <1>7 DEF Asked, Telling
<1>9. UnitShape'
  BY <1>4, <1>5, <1>6, <1>8 DEF UnitShape
<1>10. QED
  BY <1>6, <1>7, <1>8, <1>9

LEMMA NotifyTells ==
  ASSUME UnitType, UnitShape, NEW u \in Units, WorkerNotify(u)
  PROVE  /\ u \in Telling /\ Telling' = Telling \ {u} /\ Asked' = Asked
         /\ UnitShape'
         /\ \A v \in Units : v # u => worker'[v] = worker[v]
<1>1. worker \in [Units -> WorkerRec]
  BY DEF UnitType, WorkerRec
<1>2. /\ worker[u].at = "notifying" /\ unit' = unit
      /\ worker' = [worker EXCEPT ![u].at = "ready",
                        ![u].result = [request_id |-> 0, error |-> "NONE"]]
  BY DEF WorkerNotify
<1>3. /\ worker'[u].at = "ready"
      /\ \A v \in Units : v # u => worker'[v] = worker[v]
  BY <1>1, <1>2 DEF WorkerRec
<1>4. u \in Telling /\ Telling' = Telling \ {u} /\ Asked' = Asked
  BY <1>2, <1>3 DEF Telling, Asked
<1>5. UnitShape'
  BY <1>2, <1>3, <1>4 DEF UnitShape
<1>6. QED
  BY <1>3, <1>4, <1>5

LEMMA UntouchedAsks ==
  ASSUME UnitShape, worker' = worker,
         \A v \in Units : /\ unit'[v].status = unit[v].status
                          /\ unit'[v].has_input = unit[v].has_input
  PROVE  Asked' = Asked /\ Telling' = Telling /\ UnitShape' /\ ResultsKept
  BY DEF Asked, Telling, UnitShape, ResultsKept

-----------------------------------------------------------------------------
(* What starting a step and each handler do to the queue, the units and    *)
(* the output: p is the queue without the event that is handled.           *)

Began(u, out) ==
  /\ u \in Units \ Asked /\ Asked' = Asked \cup {u} /\ Telling' = Telling
  /\ UnitShape' /\ ResultsKept
  /\ purpose' = [purpose EXCEPT
       ![u] = <<out.request_id, out.completed_step_count + 1>>]
  /\ sequence'.step_running /\ ~sequence'.timeout_published

Pushed(p, error) ==
  /\ \E e \in DomainEvent :
       e.id \in ChainEvents /\ e.error = error /\ channel'.pending = Append(p, e)
  /\ ~sequence'.step_running /\ UnitsUntouched

Refused(p) == Pushed(p, "UNIT_REJECTED") /\ \E u \in Units : ~Accepts(u)

StepOutcome(p, out) ==
  \/ channel'.pending = p /\ \E u \in Units : Began(u, out)
  \/ Refused(p)

LEMMA PushedError ==
  ASSUME NEW m, NEW q \in SequenceRec, NEW out \in OutputRec, NEW c, Ready(c),
         NEW error \in DomainError, PublishSequenceError(m, q, out, c, error),
         UnitsUntouched
  PROVE  Pushed(c.pending, error) /\ output' = out
<1> DEFINE e == Payload("SEQUENCE_ERROR", q, out, error)
<1>1. "SEQUENCE_ERROR" \in EventIds /\ "SEQUENCE_ERROR" \in ChainEvents
  BY DEF EventIds, ChainEvents, SequenceEvents
<1>2. e \in DomainEvent /\ e.id = "SEQUENCE_ERROR" /\ e.error = error
  BY <1>1, PayloadFields
<1>3. DomainPublish(c, out, e) /\ ~sequence'.step_running
  BY StepStops DEF PublishSequenceError
<1> HIDE DEF e
<1>4. channel'.pending = Append(c.pending, e) /\ output' = out
  BY <1>2, <1>3, EventPublished DEF Ready
<1>5. QED
  BY <1>1, <1>2, <1>3, <1>4 DEF Pushed

LEMMA StepEffect ==
  ASSUME UnitType, UnitShape, NEW m, NEW q \in SequenceRec, NEW out \in OutputRec,
         NEW c, Ready(c), NEW now \in Nat, StartStep(m, q, out, c, now),
         q.definition \in Seq(Step), q.step_index + 1 \in 1 .. Len(q.definition)
  PROVE  StepOutcome(c.pending, out) /\ output' = out
<1> DEFINE step == q.definition[q.step_index + 1]
<1>1. step \in Step
  BY ElementOfSeq
<1>2. step.unit \in Units /\ UnitRequestId(out) \in RequestId
  BY <1>1, UnitRequestIdType DEF Step
<1>3. CASE /\ WriteInput(step.unit, UnitRequestId(out))
           /\ purpose' = [purpose EXCEPT
                ![step.unit] = <<out.request_id, out.completed_step_count + 1>>]
           /\ machine' = m /\ output' = out /\ channel' = c
           /\ sequence' = StepStarted(q, out, step, now)
  <2>1. sequence'.step_running /\ ~sequence'.timeout_published
    BY <1>3 DEF StepStarted, SequenceRec
  <2> HIDE DEF step
  <2>2. /\ step.unit \notin Asked /\ Asked' = Asked \cup {step.unit}
        /\ Telling' = Telling /\ UnitShape' /\ ResultsKept
    BY <1>2, <1>3, InputAsks
  <2>3. Began(step.unit, out)
    BY <1>2, <1>3, <2>1, <2>2 DEF Began
  <2>4. QED
    BY <1>2, <1>3, <2>3 DEF StepOutcome
<1>4. CASE /\ ~Accepts(step.unit)
           /\ PublishSequenceError(m, q, out, c, "UNIT_REJECTED")
           /\ UnitsUntouched
  <2>1. "UNIT_REJECTED" \in DomainError
    BY DEF DomainError
  <2>2. Pushed(c.pending, "UNIT_REJECTED") /\ output' = out
    BY <1>4, <2>1, PushedError
  <2>3. QED
    BY <1>2, <1>4, <2>2 DEF StepOutcome, Refused
<1>5. QED
  BY <1>3, <1>4 DEF StartStep

LEMMA SequenceEffect ==
  ASSUME UnitType, UnitShape, sequence \in SequenceRec, output \in OutputRec,
         NEW s, s.definition \in Scenarios,
         s.sequence_index + 1 \in DOMAIN s.definition.sequences,
         NEW c, Ready(c), NEW now \in Nat, StartSequence(s, c, now)
  PROVE  StepOutcome(c.pending, output) /\ output' = output
<1> DEFINE d == s.definition.sequences[s.sequence_index + 1]
<1>1. d \in SequenceDefinitions /\ d \in Seq(Step) /\ d # << >>
  BY DefinitionFacts
<1>2. 1 \in 1 .. Len(d)
  BY <1>1, EmptySeq
<1> HIDE DEF d
<1>3. PICK m, q : /\ q = [sequence EXCEPT !.definition = d, !.step_index = 0,
                                          !.step_running = FALSE]
                  /\ StartStep(m, q, output, c, now)
  BY DEF StartSequence, d
<1>4. q \in SequenceRec /\ q.definition = d /\ q.step_index = 0
  BY <1>1, <1>3 DEF SequenceRec
<1>5. q.definition \in Seq(Step) /\ q.step_index + 1 \in 1 .. Len(q.definition)
  BY <1>1, <1>2, <1>4
<1>6. QED
  BY <1>3, <1>4, <1>5, StepEffect

(* What a handler does with event e; p is the queue without it.            *)
Ignores(e, p) ==
  /\ e.id \notin ChainEvents /\ channel'.pending = p
  /\ UNCHANGED <<sequence, output, reports>> /\ UnitsUntouched

CountsStep(e, p) ==
  /\ sequence.step_running /\ e.id = "UNIT_COMPLETED"
  /\ output'.completed_step_count = output.completed_step_count + 1
  /\ output'.request_id = output.request_id /\ output'.error = output.error
  /\ StepOutcome(p, output') \/ Pushed(p, "NONE")
  /\ reports' = reports

FailsRunning(e, p) ==
  /\ sequence.step_running
  /\ \/ e.id = "UNIT_ERROR" /\ Pushed(p, "UNIT_FAILED")
     \/ e.id = "STEP_TIMEOUT" /\ Pushed(p, "STEP_TIMEOUT")
  /\ UNCHANGED <<output, reports>>

PassesOn(e, p) ==
  /\ ~sequence.step_running /\ e.id \in ChainEvents
  /\ Pushed(p, e.error) \/ (e.error = "NONE" /\ StepOutcome(p, output))
  /\ UNCHANGED <<output, reports>>

Closes(e, p) ==
  /\ ~sequence.step_running /\ e.id \in ChainEvents
  /\ channel'.pending = p
  /\ output'.completed_step_count = output.completed_step_count
  /\ output'.request_id = output.request_id /\ output'.error = e.error
  /\ \E r : r.error = e.error /\ reports' = Append(reports, r)
  /\ sequence' = sequence /\ UnitsUntouched

Continues(e, p) ==
  Ignores(e, p) \/ CountsStep(e, p) \/ FailsRunning(e, p) \/ PassesOn(e, p)

LEMMA UnitCompletedEffect ==
  ASSUME RunnersInv, RestType, UnitType, UnitShape, QueueHasRoom, OnUnitCompleted
  PROVE  Ignores(event, popped.pending) \/ CountsStep(event, popped.pending)
<1>1. /\ channel.pending # << >> /\ event.id = "UNIT_COMPLETED" /\ reports' = reports
  BY DEF OnUnitCompleted, HandlerRuns
<1>2. event.id \notin ChainEvents
  BY <1>1 DEF ChainEvents, SequenceEvents, ScenarioEvents, FeatureEvents
<1>3. CASE ~Awaited /\ Ignored
  BY <1>1, <1>2, <1>3 DEF Ignored, Ignores, runners
<1>4. CASE Awaited /\ StepCompleted
  <2>1. output.status = "RUNNING" /\ sequence.step_running
    BY <1>4 DEF Awaited
  <2>2. PICK out : out = [output EXCEPT !.completed_step_count = @ + 1]
    OBVIOUS
  <2>3. PICK q : q = [sequence EXCEPT !.step_index = @ + 1, !.step_running = FALSE]
    OBVIOUS
  <2>4. sequence \in SequenceRec /\ output \in OutputRec /\ current_time_ms \in Nat
    BY DEF RunnersInv, RunnersType, RestType
  <2>5. /\ out \in OutputRec /\ out.error = output.error
        /\ out.completed_step_count = output.completed_step_count + 1
        /\ out.request_id = output.request_id
    BY <2>2, <2>4, OutputCounts
  <2>6. /\ q \in SequenceRec /\ ~q.step_running
        /\ q.definition = sequence.definition /\ q.step_index = sequence.step_index + 1
    BY <2>3, <2>4, StepCounts
  <2>7. /\ Waiting(channel, machine, scenario, sequence, output)
        /\ sequence.definition \in Seq(Step) /\ Len(sequence.definition) \in Nat
        /\ sequence.step_index \in Nat
    BY <2>1, WaitingFacts
  <2>8. Ready(popped) /\ machine.sequence = "RUNNING"
    <3>1. Ready(popped)
      BY <1>1, <2>7, PoppedWhileWaiting
    <3>2. QED
      BY <2>7, <3>1 DEF Waiting, MachinesOf, AllRunning
  <2> DEFINE last == q.step_index >= Len(q.definition)
             e == Payload("SEQUENCE_COMPLETED", q, out, "NONE")
  <2>9. \/ last /\ sequence' = q /\ DomainPublish(popped, out, e) /\ UnitsUntouched
        \/ ~last /\ StartStep(machine, q, out, popped, current_time_ms)
    BY <1>4, <2>2, <2>3, <2>8 DEF StepCompleted
  <2>10. CASE sequence' = q /\ DomainPublish(popped, out, e) /\ UnitsUntouched
    <3>1. /\ "SEQUENCE_COMPLETED" \in EventIds /\ "SEQUENCE_COMPLETED" \in ChainEvents
          /\ "NONE" \in DomainError
      BY DEF EventIds, ChainEvents, SequenceEvents, DomainError
    <3>2. e \in DomainEvent /\ e.id = "SEQUENCE_COMPLETED" /\ e.error = "NONE"
      BY <2>5, <2>6, <3>1, PayloadFields
    <3>3. DomainPublish(popped, out, e)
      BY <2>10
    <3> HIDE DEF e
    <3>4. output' = out /\ channel'.pending = Append(popped.pending, e)
      BY <2>8, <3>2, <3>3, EventPublished DEF Ready
    <3>5. Pushed(popped.pending, "NONE")
      BY <2>6, <2>10, <3>1, <3>2, <3>4 DEF Pushed
    <3>6. QED
      BY <1>1, <2>1, <2>5, <3>4, <3>5 DEF CountsStep
  <2>11. CASE ~last /\ StartStep(machine, q, out, popped, current_time_ms)
    <3>1. q.definition \in Seq(Step) /\ q.step_index + 1 \in 1 .. Len(q.definition)
      BY <2>6, <2>7, <2>11
    <3>2. StepOutcome(popped.pending, out) /\ output' = out
      BY <2>4, <2>5, <2>6, <2>8, <2>11, <3>1, StepEffect
    <3>3. QED
      BY <1>1, <2>1, <2>5, <3>2 DEF CountsStep
  <2>12. QED
    BY <2>9, <2>10, <2>11
<1>5. QED
  BY <1>3, <1>4 DEF OnUnitCompleted

LEMMA FailureEffect ==
  ASSUME RunnersInv, RestType, QueueHasRoom, OnFailure
  PROVE  Ignores(event, popped.pending) \/ FailsRunning(event, popped.pending)
<1>1. /\ channel.pending # << >> /\ event.id \in {"UNIT_ERROR", "STEP_TIMEOUT"}
      /\ reports' = reports
  BY DEF OnFailure, HandlerRuns
<1>2. event.id \notin ChainEvents
  BY <1>1 DEF ChainEvents, SequenceEvents, ScenarioEvents, FeatureEvents
<1>3. CASE ~FailsStep /\ Ignored
  BY <1>1, <1>2, <1>3 DEF Ignored, Ignores, runners
<1>4. ASSUME FailsStep, UnitsUntouched, NEW error \in {"STEP_TIMEOUT", "UNIT_FAILED"},
             PublishSequenceError(machine, sequence, output, popped, error)
      PROVE  Pushed(popped.pending, error) /\ output' = output /\ sequence.step_running
  <2>1. output.status = "RUNNING" /\ sequence.step_running
    BY <1>4 DEF FailsStep
  <2>2. sequence \in SequenceRec /\ output \in OutputRec
    BY DEF RunnersInv, RunnersType
  <2>3. Waiting(channel, machine, scenario, sequence, output)
    BY <2>1, WaitingFacts
  <2>4. Ready(popped)
    BY <1>1, <2>3, PoppedWhileWaiting
  <2>5. error \in DomainError
    BY DEF DomainError
  <2>6. Pushed(popped.pending, error) /\ output' = output
    BY <1>4, <2>2, <2>4, <2>5, PushedError
  <2>7. QED
    BY <2>1, <2>6
<1>5. CASE event.id = "STEP_TIMEOUT" /\ FailsStep
  <2>1. /\ PublishSequenceError(machine, sequence, output, popped, "STEP_TIMEOUT")
        /\ UnitsUntouched
    BY <1>5 DEF OnFailure
  <2>2. /\ Pushed(popped.pending, "STEP_TIMEOUT") /\ output' = output
        /\ sequence.step_running
    BY <1>4, <1>5, <2>1
  <2>3. QED
    BY <1>1, <1>5, <2>2 DEF FailsRunning
<1>6. CASE event.id # "STEP_TIMEOUT" /\ FailsStep
  <2>1. /\ PublishSequenceError(machine, sequence, output, popped, "UNIT_FAILED")
        /\ UnitsUntouched
    BY <1>6 DEF OnFailure
  <2>2. /\ Pushed(popped.pending, "UNIT_FAILED") /\ output' = output
        /\ sequence.step_running
    BY <1>4, <1>6, <2>1
  <2>3. event.id = "UNIT_ERROR"
    BY <1>1, <1>6
  <2>4. QED
    BY <1>1, <2>2, <2>3 DEF FailsRunning
<1>7. QED
  BY <1>3, <1>5, <1>6 DEF OnFailure

(* A runner publishes event e for the next one.                            *)
LEMMA PublishedEffect ==
  ASSUME RunnersInv, QueueHasRoom, channel.pending # << >>, event.id \in ChainEvents,
         NEW e \in DomainEvent, e.id \in ChainEvents, e.error = event.error,
         DomainPublish(popped, output, e), UnitsUntouched,
         UNCHANGED <<sequence, reports>>
  PROVE  PassesOn(event, popped.pending)
<1>1. ~sequence.step_running /\ Ready(popped)
  BY PoppedUnderWay
<1>2. output' = output /\ channel'.pending = Append(popped.pending, e)
  BY <1>1, EventPublished DEF Ready
<1>3. Pushed(popped.pending, event.error)
  BY <1>1, <1>2 DEF Pushed
<1>4. QED
  BY <1>1, <1>2, <1>3 DEF PassesOn

LEMMA SequenceCompletedEffect ==
  ASSUME RunnersInv, RestType, UnitType, UnitShape, QueueHasRoom, OnSequenceCompleted
  PROVE  PassesOn(event, popped.pending)
<1>1. /\ channel.pending # << >> /\ event.id = "SEQUENCE_COMPLETED" /\ reports' = reports
  BY DEF OnSequenceCompleted, HandlerRuns
<1>2. event.id \in ChainEvents
  BY <1>1 DEF ChainEvents, SequenceEvents
<1>3. /\ output.status = "RUNNING"
      /\ ~sequence.step_running /\ Ready(popped)
      /\ Agrees(event, machine, scenario, sequence, output)
  BY <1>1, <1>2, PoppedUnderWay
<1>4. event.error = "NONE" /\ machine.scenario = "RUNNING"
  BY <1>1, <1>3 DEF Agrees, Completions, MachinesOf, ExpectedMachines
<1>5. PICK s : s = [scenario EXCEPT !.sequence_index = @ + 1]
  OBVIOUS
<1>6. /\ sequence \in SequenceRec /\ output \in OutputRec
      /\ scenario \in ScenarioRec /\ current_time_ms \in Nat
  BY DEF RunnersInv, RunnersType, RestType
<1>7. /\ s.definition = scenario.definition
      /\ s.sequence_index = scenario.sequence_index + 1
      /\ scenario.sequence_index \in Nat
  BY <1>5, <1>6, ScenarioAdvances
<1>8. scenario.definition \in Scenarios
  BY <1>3, RunningFacts
<1>9. PICK n \in Nat : /\ n = Len(scenario.definition.sequences)
                       /\ DOMAIN scenario.definition.sequences = 1 .. n
  BY <1>8, DefinitionFacts, LenProperties
<1> DEFINE e == Payload("SCENARIO_COMPLETED", sequence, output, "NONE")
<1>10. \/ /\ sequence' = sequence /\ UnitsUntouched
          /\ DomainPublish(popped, output, e)
       \/ /\ ~(s.sequence_index >= n)
          /\ StartSequence(s, popped, current_time_ms)
  BY <1>4, <1>5, <1>7, <1>9 DEF OnSequenceCompleted
<1>11. CASE /\ sequence' = sequence /\ UnitsUntouched
            /\ DomainPublish(popped, output, e)
  <2>1. /\ "SCENARIO_COMPLETED" \in EventIds /\ "SCENARIO_COMPLETED" \in ChainEvents
        /\ "NONE" \in DomainError
    BY DEF EventIds, ChainEvents, ScenarioEvents, DomainError
  <2>2. e \in DomainEvent /\ e.id = "SCENARIO_COMPLETED" /\ e.error = "NONE"
    BY <1>6, <2>1, PayloadFields
  <2>3. DomainPublish(popped, output, e)
    BY <1>11
  <2> HIDE DEF e
  <2>4. QED
    BY <1>1, <1>2, <1>4, <1>11, <2>1, <2>2, <2>3, PublishedEffect
<1>12. CASE /\ ~(s.sequence_index >= n)
            /\ StartSequence(s, popped, current_time_ms)
  <2>1. s.sequence_index + 1 \in DOMAIN s.definition.sequences
    BY <1>7, <1>9, <1>12
  <2>2. StepOutcome(popped.pending, output) /\ output' = output
    BY <1>3, <1>6, <1>7, <1>8, <1>12, <2>1, SequenceEffect
  <2>3. QED
    BY <1>1, <1>2, <1>3, <1>4, <2>2 DEF PassesOn
<1>13. QED
  BY <1>10, <1>11, <1>12

LEMMA ErrorEffect ==
  ASSUME RunnersInv, QueueHasRoom, OnSequenceError \/ OnScenarioError
  PROVE  PassesOn(event, popped.pending)
<1>1. PICK id \in {"SCENARIO_ERROR", "FEATURE_ERROR"} :
        /\ channel.pending # << >> /\ event.id \in {"SEQUENCE_ERROR", "SCENARIO_ERROR"}
        /\ DomainPublish(popped, output, [event EXCEPT !.id = id])
        /\ UNCHANGED <<sequence, reports>> /\ UnitsUntouched
  BY DEF OnSequenceError, OnScenarioError, HandlerRuns
<1>2. /\ event.id \in ChainEvents /\ id \in ChainEvents /\ id \in EventIds
  BY <1>1 DEF EventIds, ChainEvents, SequenceEvents, ScenarioEvents, FeatureEvents
<1>3. event \in DomainEvent
  BY <1>1, <1>2, PoppedUnderWay
<1>4. PICK e : e = [event EXCEPT !.id = id]
  OBVIOUS
<1>5. e \in DomainEvent /\ e.id = id /\ e.error = event.error
  BY <1>2, <1>3, <1>4, EventRenamed
<1>6. QED
  BY <1>1, <1>2, <1>4, <1>5, PublishedEffect

LEMMA ScenarioCompletedEffect ==
  ASSUME RunnersInv, QueueHasRoom, OnScenarioCompleted
  PROVE  PassesOn(event, popped.pending)
<1>1. channel.pending # << >> /\ event.id = "SCENARIO_COMPLETED"
  BY DEF OnScenarioCompleted, HandlerRuns
<1>2. /\ event.id \in ChainEvents /\ "FEATURE_COMPLETED" \in ChainEvents
      /\ "FEATURE_COMPLETED" \in EventIds
  BY <1>1 DEF EventIds, ChainEvents, ScenarioEvents, FeatureEvents
<1>3. /\ event \in DomainEvent /\ Agrees(event, machine, scenario, sequence, output)
  BY <1>1, <1>2, PoppedUnderWay
<1>4. machine.feature = "RUNNING"
  BY <1>1, <1>3 DEF Agrees, MachinesOf, ExpectedMachines
<1>5. /\ DomainPublish(popped, output, [event EXCEPT !.id = "FEATURE_COMPLETED"])
      /\ UNCHANGED <<sequence, reports>> /\ UnitsUntouched
  BY <1>4 DEF OnScenarioCompleted
<1>6. PICK e : e = [event EXCEPT !.id = "FEATURE_COMPLETED"]
  OBVIOUS
<1>7. e \in DomainEvent /\ e.id = "FEATURE_COMPLETED" /\ e.error = event.error
  BY <1>2, <1>3, <1>6, EventRenamed
<1>8. QED
  BY <1>1, <1>2, <1>5, <1>6, <1>7, PublishedEffect

LEMMA FeatureEventEffect ==
  ASSUME RunnersInv, QueueHasRoom, OnFeatureEvent
  PROVE  Closes(event, popped.pending)
<1>1. /\ channel.pending # << >> /\ event.id \in FeatureEvents
      /\ channel' = popped /\ sequence' = sequence /\ UnitsUntouched
  BY DEF OnFeatureEvent, HandlerRuns, runners
<1>2. event.id \in ChainEvents
  BY <1>1 DEF ChainEvents
<1>3. ~sequence.step_running
  BY <1>1, <1>2, PoppedUnderWay
<1>4. output \in OutputRec
  BY DEF RunnersInv, RunnersType
<1>5. /\ output'.completed_step_count = output.completed_step_count
      /\ output'.request_id = output.request_id /\ output'.error = event.error
  BY <1>4 DEF OnFeatureEvent, OutputRec
<1>6. reports' = Append(reports, [request_id |-> output'.request_id,
                                  error |-> output'.error])
  BY DEF OnFeatureEvent
<1>7. \E r : r.error = event.error /\ reports' = Append(reports, r)
  BY <1>5, <1>6
<1>8. QED
  BY <1>1, <1>2, <1>3, <1>5, <1>7 DEF Closes

(* Every handler takes one event of the dispatcher's budget.               *)
LEMMA HandlerEffect ==
  ASSUME DomainInv, QueueHasRoom, UnitShape, RunHandler
  PROVE  /\ channel.pending # << >> /\ channel \in ChannelRec
         /\ event = channel.pending[1] /\ popped.pending = Tail(channel.pending)
         /\ control.at = "dispatch" /\ UNCHANGED <<alive, succeeded>>
         /\ control'.dispatched = control.dispatched
         /\ \/ control'.at = "release" /\ Continues(event, popped.pending)
            \/ control'.at = "callback" /\ Closes(event, popped.pending)
<1>1. RunnersInv /\ RestType /\ UnitType
  BY DEF DomainInv, UnitInv
<1>2. /\ channel.pending # << >> /\ control.at = "dispatch"
      /\ UNCHANGED <<alive, succeeded>>
      /\ \/ control' = [control EXCEPT !.at = "release"] /\ ~OnFeatureEvent
         \/ control' = [control EXCEPT !.at = "callback"] /\ OnFeatureEvent
  <2>1. CASE OnFeatureEvent
    BY <2>1 DEF OnFeatureEvent, HandlerRuns
  <2>2. CASE ~OnFeatureEvent
    BY <2>2 DEF RunHandler, OnUnitCompleted, OnFailure, OnSequenceCompleted,
                OnSequenceError, OnScenarioCompleted, OnScenarioError, HandlerRuns
  <2>3. QED
    BY <2>1, <2>2
<1>3. channel \in ChannelRec /\ Bounded(channel)
  BY <1>1 DEF RunnersInv, RunnersType
<1>4. event = channel.pending[1] /\ popped.pending = Tail(channel.pending)
  BY <1>2, <1>3, TakenFields DEF event, popped
<1>5. control \in ControlRec
  BY <1>1 DEF RestType
<1>6. control'.dispatched = control.dispatched
  BY <1>2, <1>5 DEF ControlRec
<1>7. CASE control' = [control EXCEPT !.at = "release"] /\ ~OnFeatureEvent
  <2>1. control'.at = "release"
    BY <1>5, <1>7 DEF ControlRec
  <2>2. Continues(event, popped.pending)
    BY <1>1, <1>7, UnitCompletedEffect, FailureEffect, SequenceCompletedEffect,
       ErrorEffect, ScenarioCompletedEffect DEF RunHandler, Continues
  <2>3. QED
    BY <1>2, <1>3, <1>4, <1>6, <2>1, <2>2
<1>8. CASE control' = [control EXCEPT !.at = "callback"] /\ OnFeatureEvent
  <2>1. control'.at = "callback"
    BY <1>5, <1>8 DEF ControlRec
  <2>2. Closes(event, popped.pending)
    BY <1>1, <1>8, FeatureEventEffect
  <2>3. QED
    BY <1>2, <1>3, <1>4, <1>6, <2>1, <2>2
<1>9. QED
  BY <1>2, <1>7, <1>8

-----------------------------------------------------------------------------
(* How much can be pending. A unit owes an event from the input it takes   *)
(* until it told the result.                                               *)

Owed == Cardinality(Asked) + Cardinality(Telling)

Twice == 2 * Cardinality(Units)

ResultsBounded ==
  /\ Cardinality(At(channel.pending, UnitEvents)) + Owed <= Twice + 1
  /\ ~sequence.step_running =>
       Cardinality(Behind(channel.pending, UnitEvents)) + Owed <= Twice

(* Events of this dispatch that were handled, the present one included,    *)
(* and the timeouts its budget does not reach.                             *)
Handled == control.dispatched + (IF control.at = "release" THEN 1 ELSE 0)

Late(p, handled) == {i \in At(p, TimeoutEvents) : i + handled > Budget}

TimeoutsBounded ==
  /\ ~sequence.step_running => Behind(channel.pending, TimeoutEvents) = {}
  /\ Cardinality(At(channel.pending, TimeoutEvents)) <= 2
  /\ control.at \in {"idle", "callback"} =>
       Cardinality(At(channel.pending, TimeoutEvents)) <= 1
  /\ control.at = "callback" /\ At(channel.pending, TimeoutEvents) # {} =>
       sequence.timeout_published
  /\ Cardinality(Late(channel.pending, Handled)) <= 1

LoadInv == UnitShape /\ ResultsBounded /\ TimeoutsBounded

(* DOMAIN_EVENT_QUEUE_CAPACITY and DOMAIN_DISPATCH_BUDGET are 32, and      *)
(* DOMAIN_SAMPLE_UNIT_COUNT is 10; thirteen units would still do.          *)
QueueSuffices ==
  IsFiniteSet(Units) /\ QueueCapacity > Twice + 5 /\ Budget >= Twice + 5

LEMMA OwedFacts ==
  ASSUME IsFiniteSet(Units)
  PROVE  /\ Twice \in Nat /\ Owed \in Nat /\ Owed <= Twice
         /\ IsFiniteSet(Asked) /\ IsFiniteSet(Telling)
         /\ Cardinality(Asked) \in Nat /\ Cardinality(Telling) \in Nat
<1>1. Asked \in SUBSET Units /\ Telling \in SUBSET Units
  BY DEF Asked, Telling
<1>2. /\ IsFiniteSet(Asked) /\ Cardinality(Asked) <= Cardinality(Units)
      /\ IsFiniteSet(Telling) /\ Cardinality(Telling) <= Cardinality(Units)
  BY <1>1, FS_Subset
<1>3. PICK k \in Nat, l \in Nat, n \in Nat :
        k = Cardinality(Asked) /\ l = Cardinality(Telling) /\ n = Cardinality(Units)
  BY <1>2, FS_CardinalityType
<1>4. Owed = k + l /\ Twice = 2 * n /\ k <= n /\ l <= n
  BY <1>2, <1>3 DEF Owed, Twice
<1>5. QED
  BY <1>2, <1>3, <1>4

LEMMA UntouchedOwes ==
  ASSUME UnitShape, UNCHANGED <<unit, worker>>
  PROVE  Owed' = Owed /\ UnitShape' /\ Asked' = Asked /\ Telling' = Telling
<1>1. Asked' = Asked /\ Telling' = Telling /\ UnitShape'
  BY UntouchedAsks
<1>2. QED
  BY <1>1 DEF Owed

LEMMA BeganOwes ==
  ASSUME IsFiniteSet(Units), NEW u, NEW out, Began(u, out)
  PROVE  Owed' = Owed + 1 /\ UnitShape'
<1>1. u \notin Asked /\ Asked' = Asked \cup {u} /\ Telling' = Telling /\ UnitShape'
  BY DEF Began
<1>2. IsFiniteSet(Asked) /\ Cardinality(Asked) \in Nat /\ Cardinality(Telling) \in Nat
  BY OwedFacts
<1>3. Cardinality(Asked') = Cardinality(Asked) + 1
  BY <1>1, <1>2, FS_AddElement
<1>4. QED
  BY <1>1, <1>2, <1>3 DEF Owed

LEMMA ChainAlone ==
  ASSUME RunnersInv
  PROVE  /\ NoChain(channel) \/ \E e : OneChain(channel, e)
         /\ sequence.step_running => NoChain(channel)
<1>1. NoChain(channel) \/ UnderWay(channel, machine, scenario, sequence, output)
  BY DEF RunnersInv, Progress, Over, Fresh, Moving, Waiting
<1>2. QED
  BY <1>1 DEF UnderWay

(* Before the event under way nothing is pending when it is handled.       *)
LEMMA HandledBehind ==
  ASSUME RunnersInv, channel.pending # << >>, channel.pending[1].id \in ChainEvents,
         NEW S, S \cap ChainEvents = {}
  PROVE  Behind(channel.pending, S) = At(channel.pending, S)
<1>1. channel \in ChannelRec
  BY DEF RunnersInv, RunnersType
<1>2. QED
  BY <1>1, ChainAlone, AllBehind

LEMMA PushedBounds ==
  ASSUME IsFiniteSet(Units), UnitShape, NEW p \in Seq(DomainEvent), NEW error,
         Pushed(p, error), Cardinality(At(p, UnitEvents)) + Owed <= Twice + 1
  PROVE  UnitShape' /\ ResultsBounded'
<1>1. PICK e \in DomainEvent : e.id \in ChainEvents /\ channel'.pending = Append(p, e)
  BY DEF Pushed
<1>2. UNCHANGED <<unit, worker>>
  BY DEF Pushed, UnitsUntouched, unitVars
<1>3. e.id \notin UnitEvents
  BY <1>1, KindsDiffer
<1>4. PICK q : q = channel'.pending
  OBVIOUS
<1>5. /\ Cardinality(At(q, UnitEvents)) = Cardinality(At(p, UnitEvents))
      /\ Behind(q, UnitEvents) = {}
  <2>1. UnitEvents \cap ChainEvents = {} /\ q = Append(p, e) /\ e.id \in ChainEvents
    BY <1>1, <1>4, KindsDiffer
  <2>2. QED
    BY <1>1, <1>3, <2>1, CountsAppended
<1>6. Owed' = Owed /\ UnitShape'
  BY <1>2, UntouchedOwes
<1>7. Owed \in Nat /\ Owed <= Twice /\ Twice \in Nat
  BY OwedFacts
<1>8. Cardinality({}) = 0
  BY FS_EmptySet
<1>9. Cardinality(Behind(q, UnitEvents)) + Owed <= Twice
  <2>1. Cardinality(Behind(q, UnitEvents)) = 0
    BY <1>5, <1>8
  <2>2. QED
    BY <1>7, <2>1
<1>10. Twice' = Twice
  BY DEF Twice
<1>11. QED
  BY <1>4, <1>5, <1>6, <1>9, <1>10 DEF ResultsBounded

LEMMA OutcomeBounds ==
  ASSUME IsFiniteSet(Units), UnitShape, NEW p \in Seq(DomainEvent), NEW out,
         StepOutcome(p, out), Cardinality(At(p, UnitEvents)) + Owed <= Twice
  PROVE  UnitShape' /\ ResultsBounded'
<1>1. Cardinality(At(p, UnitEvents)) \in Nat /\ Owed \in Nat /\ Twice \in Nat
  BY AtFinite, OwedFacts
<1>2. CASE Refused(p)
  <2>1. Cardinality(At(p, UnitEvents)) + Owed <= Twice + 1
    BY <1>1
  <2>2. QED
    BY <1>2, <2>1, PushedBounds DEF Refused
<1>3. CASE channel'.pending = p /\ \E u \in Units : Began(u, out)
  <2>1. PICK u \in Units : Began(u, out)
    BY <1>3
  <2>2. Owed' = Owed + 1 /\ UnitShape' /\ sequence'.step_running
    BY <2>1, BeganOwes DEF Began
  <2>3. Cardinality(At(p, UnitEvents)) + (Owed + 1) <= Twice + 1
    BY <1>1
  <2>4. Twice' = Twice
    BY DEF Twice
  <2>5. QED
    BY <1>3, <2>2, <2>3, <2>4 DEF ResultsBounded
<1>4. QED
  BY <1>2, <1>3 DEF StepOutcome

LEMMA HandlerBoundsResults ==
  ASSUME IsFiniteSet(Units), DomainInv, QueueHasRoom, UnitShape, ResultsBounded,
         RunHandler
  PROVE  UnitShape' /\ ResultsBounded'
<1>1. PICK p : p = popped.pending
  OBVIOUS
<1>2. PICK h : h = channel.pending
  OBVIOUS
<1>3. /\ h # << >> /\ event = h[1] /\ p = Tail(h)
      /\ Continues(event, p) \/ Closes(event, p)
  BY <1>1, <1>2, HandlerEffect
<1>4. h \in Seq(DomainEvent) /\ p \in Seq(DomainEvent)
  <2>1. h \in Seq(DomainEvent)
    BY <1>2, HandlerEffect DEF ChannelRec
  <2>2. QED
    BY <1>3, <2>1, HeadTailProperties
<1>5. RunnersInv
  BY DEF DomainInv
<1>6. UnitEvents \cap ChainEvents = {}
  BY KindsDiffer
<1>7. /\ Cardinality(At(p, UnitEvents)) <= Cardinality(At(h, UnitEvents))
      /\ event.id \in UnitEvents =>
           Cardinality(At(p, UnitEvents)) + 1 <= Cardinality(At(h, UnitEvents))
  BY <1>3, <1>4, CountsTaken
<1>8. PICK a \in Nat, b \in Nat, c \in Nat, d \in Nat, w \in Nat, t \in Nat :
        /\ a = Cardinality(At(h, UnitEvents)) /\ b = Cardinality(Behind(h, UnitEvents))
        /\ c = Cardinality(At(p, UnitEvents)) /\ d = Cardinality(Behind(p, UnitEvents))
        /\ w = Owed /\ t = Twice
  BY <1>4, AtFinite, OwedFacts
<1>9. a + w <= t + 1 /\ (~sequence.step_running => b + w <= t) /\ c <= a
  BY <1>2, <1>7, <1>8 DEF ResultsBounded
<1>10. c + w <= t + 1
  BY <1>9
<1>11. event.id \in ChainEvents => b = a /\ d <= c
  <2>1. d <= c
    BY <1>4, <1>8, AtFinite
  <2>2. event.id \in ChainEvents => b = a
    BY <1>2, <1>3, <1>5, <1>6, <1>8, HandledBehind
  <2>3. QED
    BY <2>1, <2>2
<1>12. ASSUME UnitsUntouched, channel'.pending = p,
              ~sequence'.step_running => d + w <= t
       PROVE  UnitShape' /\ ResultsBounded'
  <2>1. Owed' = Owed /\ UnitShape'
    BY <1>12, UntouchedOwes DEF UnitsUntouched, unitVars
  <2>2. Twice' = Twice
    BY DEF Twice
  <2>3. QED
    BY <1>8, <1>10, <1>12, <2>1, <2>2 DEF ResultsBounded
<1>13. CASE Ignores(event, p)
  <2>1. d <= b
    BY <1>3, <1>4, <1>8, <1>13, BehindTaken DEF Ignores
  <2>2. b + w <= t => d + w <= t
    BY <2>1
  <2>3. QED
    BY <1>9, <1>12, <1>13, <2>2 DEF Ignores
<1>14. CASE CountsStep(event, p)
  <2>1. "UNIT_COMPLETED" \in UnitEvents
    BY DEF UnitEvents
  <2>2. c + 1 <= a
    BY <1>7, <1>8, <1>14, <2>1 DEF CountsStep
  <2>3. c + w <= t
    BY <1>9, <2>2
  <2>4. QED
    BY <1>4, <1>8, <1>10, <1>14, <2>3, PushedBounds, OutcomeBounds DEF CountsStep
<1>15. CASE FailsRunning(event, p)
  BY <1>4, <1>8, <1>10, <1>15, PushedBounds DEF FailsRunning
<1>16. CASE PassesOn(event, p)
  <2>1. c + w <= t
    BY <1>9, <1>11, <1>16 DEF PassesOn
  <2>2. QED
    BY <1>4, <1>8, <1>10, <1>16, <2>1, PushedBounds, OutcomeBounds DEF PassesOn
<1>17. CASE Closes(event, p)
  <2>1. d + w <= t
    BY <1>9, <1>11, <1>17 DEF Closes
  <2>2. QED
    BY <1>12, <1>17, <2>1 DEF Closes
<1>18. QED
  BY <1>3, <1>13, <1>14, <1>15, <1>16, <1>17 DEF Continues

(* What domain_service_process() publishes or starts.                      *)
Starts ==
  /\ ~sequence.step_running /\ NoChain(channel)
  /\ StepOutcome(channel.pending, output) /\ output' = output

TimesOut ==
  /\ sequence.step_running /\ ~sequence.timeout_published
  /\ \E e \in DomainEvent :
       e.id = "STEP_TIMEOUT" /\ channel'.pending = Append(channel.pending, e)
  /\ sequence'.step_running /\ sequence'.timeout_published
  /\ output' = output /\ UnitsUntouched

LEMMA ProcessEffect ==
  ASSUME DomainInv, QueueHasRoom, UnitShape, Process
  PROVE  /\ control' = IF control.at = "callback" THEN control
                       ELSE [at |-> "dispatch", dispatched |-> 0]
         /\ control.at \in {"idle", "callback"} /\ alive = "yes"
         /\ UNCHANGED <<alive, reports, succeeded>>
         /\ \/ Starts \/ TimesOut
            \/ UNCHANGED <<channel, sequence, output>> /\ UnitsUntouched
<1>1. RunnersInv /\ RestType /\ UnitType
  BY DEF DomainInv, UnitInv
<1>2. /\ control' = IF control.at = "callback" THEN control
                    ELSE [at |-> "dispatch", dispatched |-> 0]
      /\ control.at \in {"idle", "callback"} /\ alive = "yes"
      /\ UNCHANGED <<alive, reports, succeeded>>
  BY DEF Process, MayCall
<1>3. /\ channel \in ChannelRec /\ Bounded(channel) /\ HasSpace(channel)
      /\ scenario \in ScenarioRec /\ sequence \in SequenceRec /\ output \in OutputRec
      /\ clock \in Nat
  BY <1>1 DEF RunnersInv, RunnersType, RestType, HasSpace, QueueHasRoom
<1>4. CASE StartWorkflow
  <2>1. /\ output.status = "RUNNING" /\ ~workflow_started
        /\ StartSequence(scenario, channel, clock)
    BY <1>4 DEF StartWorkflow
  <2>2. Fresh(channel, machine, scenario, sequence, output)
    BY <1>1, <2>1 DEF RunnersInv, Progress
  <2>3. Ready(channel) /\ ~sequence.step_running /\ NoChain(channel)
    BY <1>3, <2>2 DEF Ready, Fresh
  <2>4. scenario.definition \in Scenarios
    BY <1>1, <2>1, RunningFacts
  <2>5. scenario.sequence_index + 1 \in DOMAIN scenario.definition.sequences
    <3>1. scenario.sequence_index = 0
      BY <2>2 DEF Fresh
    <3>2. 1 \in DOMAIN scenario.definition.sequences
      BY <2>4, DefinitionFacts, EmptySeq, LenProperties
    <3>3. QED
      BY <3>1, <3>2
  <2>6. StepOutcome(channel.pending, output) /\ output' = output
    BY <1>1, <1>3, <2>1, <2>3, <2>4, <2>5, SequenceEffect
  <2>7. QED
    BY <1>2, <2>3, <2>6 DEF Starts
<1>5. CASE PublishTimeout
  <2> DEFINE e == Payload("STEP_TIMEOUT", sequence, output, "STEP_TIMEOUT")
  <2>1. /\ sequence.step_running /\ ~sequence.timeout_published
        /\ DomainPublish(channel, output, e) /\ UnitsUntouched
        /\ sequence' = [sequence EXCEPT !.timeout_published = TRUE]
    BY <1>5 DEF PublishTimeout, TimeoutDue
  <2>2. "STEP_TIMEOUT" \in EventIds /\ "STEP_TIMEOUT" \in DomainError
    BY DEF EventIds, DomainError
  <2>3. e \in DomainEvent /\ e.id = "STEP_TIMEOUT"
    BY <1>3, <2>2, PayloadFields
  <2> HIDE DEF e
  <2>4. output' = output /\ channel'.pending = Append(channel.pending, e)
    BY <1>3, <2>1, <2>3, EventPublished
  <2>5. sequence'.step_running /\ sequence'.timeout_published
    BY <1>3, <2>1 DEF SequenceRec
  <2>6. QED
    BY <1>2, <2>1, <2>3, <2>4, <2>5 DEF TimesOut
<1>6. CASE NothingDue
  BY <1>2, <1>6 DEF NothingDue, runners
<1>7. QED
  BY <1>4, <1>5, <1>6 DEF Process

(* A step that publishes nothing, and leaves no unit owing more.           *)
LEMMA StableBounds ==
  ASSUME IsFiniteSet(Units), channel \in ChannelRec, ResultsBounded,
         channel'.pending = channel.pending,
         sequence'.step_running = sequence.step_running,
         Owed' \in Nat, Owed' <= Owed
  PROVE  ResultsBounded'
<1>1. PICK p : p = channel.pending
  OBVIOUS
<1>2. p \in Seq(DomainEvent)
  BY <1>1 DEF ChannelRec
<1>3. PICK a \in Nat, b \in Nat, v \in Nat, w \in Nat, t \in Nat :
        /\ a = Cardinality(At(p, UnitEvents)) /\ b = Cardinality(Behind(p, UnitEvents))
        /\ v = Owed' /\ w = Owed /\ t = Twice
  BY <1>2, AtFinite, OwedFacts
<1>4. a + w <= t + 1 /\ (~sequence.step_running => b + w <= t) /\ v <= w
  BY <1>1, <1>3 DEF ResultsBounded
<1>5. a + v <= t + 1 /\ (b + w <= t => b + v <= t)
  BY <1>4
<1>6. Twice' = Twice
  BY DEF Twice
<1>7. QED
  BY <1>1, <1>3, <1>4, <1>5, <1>6 DEF ResultsBounded

LEMMA UntouchedBounds ==
  ASSUME IsFiniteSet(Units), channel \in ChannelRec, UnitShape, ResultsBounded,
         UNCHANGED <<unit, worker>>, channel'.pending = channel.pending,
         sequence'.step_running = sequence.step_running
  PROVE  UnitShape' /\ ResultsBounded'
<1>1. Owed' = Owed /\ UnitShape'
  BY UntouchedOwes
<1>2. PICK w \in Nat : w = Owed /\ w = Owed'
  BY <1>1, OwedFacts
<1>3. QED
  BY <1>1, <1>2, StableBounds

LEMMA ProcessBoundsResults ==
  ASSUME IsFiniteSet(Units), DomainInv, QueueHasRoom, UnitShape, ResultsBounded, Process
  PROVE  UnitShape' /\ ResultsBounded'
<1>1. PICK p : p = channel.pending
  OBVIOUS
<1>2. p \in Seq(DomainEvent) /\ channel \in ChannelRec
  BY <1>1 DEF DomainInv, RunnersInv, RunnersType, ChannelRec
<1>3. UnitEvents \cap ChainEvents = {} /\ UnitEvents \cap TimeoutEvents = {}
  BY KindsDiffer
<1>4. CASE Starts
  <2>1. NoChain(channel) /\ ~sequence.step_running /\ StepOutcome(p, output)
    BY <1>1, <1>4 DEF Starts
  <2>2. Behind(p, UnitEvents) = At(p, UnitEvents)
    BY <1>1, <1>2, <1>3, <2>1, AllBehind
  <2>3. Cardinality(At(p, UnitEvents)) + Owed <= Twice
    BY <1>1, <2>1, <2>2 DEF ResultsBounded
  <2>4. QED
    BY <1>2, <2>1, <2>3, OutcomeBounds
<1>5. CASE TimesOut
  <2>1. PICK e \in DomainEvent :
          e.id = "STEP_TIMEOUT" /\ channel'.pending = Append(p, e)
    BY <1>1, <1>5 DEF TimesOut
  <2>2. e.id \notin UnitEvents
    BY <2>1 DEF UnitEvents
  <2>3. /\ Cardinality(At(Append(p, e), UnitEvents)) = Cardinality(At(p, UnitEvents))
    BY <1>2, <1>3, <2>2, CountsAppended
  <2>4. Owed' = Owed /\ UnitShape'
    BY <1>5, UntouchedOwes DEF TimesOut, UnitsUntouched, unitVars
  <2>5. sequence'.step_running /\ Twice' = Twice
    BY <1>5 DEF TimesOut, Twice
  <2>6. Cardinality(At(p, UnitEvents)) + Owed <= Twice + 1
    BY <1>1 DEF ResultsBounded
  <2>7. QED
    BY <2>1, <2>3, <2>4, <2>5, <2>6 DEF ResultsBounded
<1>6. CASE UNCHANGED <<channel, sequence, output>> /\ UnitsUntouched
  BY <1>2, <1>6, UntouchedBounds DEF UnitsUntouched, unitVars
<1>7. QED
  BY <1>4, <1>5, <1>6, ProcessEffect

LEMMA FinishOwes ==
  ASSUME IsFiniteSet(Units), UnitType, UnitShape, NEW u \in Units, WorkerFinish(u)
  PROVE  Owed' = Owed /\ UnitShape'
<1>1. /\ u \in Asked /\ u \notin Telling
      /\ Asked' = Asked \ {u} /\ Telling' = Telling \cup {u} /\ UnitShape'
  BY FinishTells
<1>2. /\ IsFiniteSet(Asked) /\ IsFiniteSet(Telling)
      /\ Cardinality(Asked) \in Nat /\ Cardinality(Telling) \in Nat
  BY OwedFacts
<1>3. Cardinality(Asked') = Cardinality(Asked) - 1
  BY <1>1, <1>2, FS_RemoveElement
<1>4. Cardinality(Telling') = Cardinality(Telling) + 1
  BY <1>1, <1>2, FS_AddElement
<1>5. QED
  BY <1>1, <1>2, <1>3, <1>4 DEF Owed

LEMMA NotifyOwes ==
  ASSUME IsFiniteSet(Units), UnitType, UnitShape, NEW u \in Units, WorkerNotify(u)
  PROVE  Owed' \in Nat /\ Owed' + 1 = Owed /\ UnitShape'
<1>1. /\ u \in Telling /\ Telling' = Telling \ {u} /\ Asked' = Asked /\ UnitShape'
  BY NotifyTells
<1>2. /\ IsFiniteSet(Telling) /\ Cardinality(Asked) \in Nat /\ Cardinality(Telling) \in Nat
  BY OwedFacts
<1>3. Cardinality(Telling \ {u}) = Cardinality(Telling) - 1 /\ IsFiniteSet(Telling \ {u})
  BY <1>1, <1>2, FS_RemoveElement
<1>4. Cardinality(Telling') \in Nat /\ Cardinality(Telling') = Cardinality(Telling) - 1
  BY <1>1, <1>3, FS_CardinalityType
<1>5. QED
  BY <1>1, <1>2, <1>4 DEF Owed

(* What a worker's call of the service's handler does to the channel.      *)
LEMMA NotifyEffect ==
  ASSUME RunnersInv, UnitType, NEW u \in Units, Notify(u)
  PROVE  /\ \/ channel' = channel
            \/ \E e \in DomainEvent :
                 /\ channel'.pending = Append(channel.pending, e)
                 /\ e.id \in UnitEvents /\ e.id \notin ChainEvents
                 /\ e.id \notin TimeoutEvents
                 /\ e.id = "UNIT_COMPLETED" => worker[u].result.error = "NONE"
         /\ WorkerNotify(u)
         /\ UNCHANGED <<sequence, output, alive, control, reports, purpose, succeeded>>
<1> DEFINE r == worker[u].result
           e == [id |-> UnitEvent(r), feature_request_id |-> 0,
                 unit_request_id |-> r.request_id, unit_number |-> u,
                 error |-> IF r.error = "NONE" THEN "NONE" ELSE "UNIT_FAILED"]
<1>1. /\ channel' = Channel!Published(channel, e) /\ WorkerNotify(u)
      /\ UNCHANGED <<sequence, output, alive, control, reports, purpose, succeeded>>
  BY DEF Notify, service, runners, history
<1>2. r \in Result
  BY DEF UnitType
<1>3. UnitEvent(r) \in UnitEvents /\ (UnitEvent(r) = "UNIT_COMPLETED" => r.error = "NONE")
  BY DEF UnitEvent, UnitEvents
<1>4. r.request_id \in RequestId /\ 0 \in RequestId
  BY <1>2, UnitAssumption DEF Result
<1>5. (IF r.error = "NONE" THEN "NONE" ELSE "UNIT_FAILED") \in DomainError
  BY DEF DomainError
<1>6. PICK rr : rr = r
  OBVIOUS
<1>7. rr.error = worker[u].result.error
  BY <1>6
<1> HIDE DEF r
<1>8. e \in DomainEvent
  BY <1>3, <1>4, <1>5 DEF DomainEvent
<1>9. /\ e.id \in UnitEvents
      /\ e.id = "UNIT_COMPLETED" => worker[u].result.error = "NONE"
  BY <1>3, <1>6, <1>7
<1> HIDE DEF e
<1>10. channel \in ChannelRec /\ Bounded(channel)
  BY DEF RunnersInv, RunnersType
<1>11. channel' = channel \/ channel'.pending = Append(channel.pending, e)
  BY <1>1, <1>8, <1>10, PublishedFields
<1>12. e.id \notin ChainEvents /\ e.id \notin TimeoutEvents
  BY <1>9, KindsDiffer
<1>13. QED
  BY <1>1, <1>8, <1>9, <1>11, <1>12

LEMMA UnitsBoundResults ==
  ASSUME IsFiniteSet(Units), DomainInv, UnitShape, ResultsBounded, NEW u \in Units,
         Work(u) \/ Finish(u) \/ Notify(u) \/ NotifyFreed(u)
  PROVE  UnitShape' /\ ResultsBounded'
<1>1. RunnersInv /\ UnitType /\ channel \in ChannelRec
  BY DEF DomainInv, UnitInv, RunnersInv, RunnersType
<1>2. PICK w \in Nat : w = Owed
  BY OwedFacts
<1>3. CASE Work(u)
  <2>1. Asked' = Asked /\ Telling' = Telling /\ UnitShape'
    BY <1>1, <1>3, WorkAsks DEF Work
  <2>2. Owed' = Owed
    BY <2>1 DEF Owed
  <2>3. UNCHANGED <<channel, sequence>>
    BY <1>3 DEF Work, service, runners
  <2>4. QED
    BY <1>1, <1>2, <2>1, <2>2, <2>3, StableBounds
<1>4. CASE Finish(u)
  <2>1. Owed' = Owed /\ UnitShape'
    BY <1>1, <1>4, FinishOwes DEF Finish
  <2>2. UNCHANGED <<channel, sequence>>
    BY <1>4 DEF Finish, service, runners
  <2>3. QED
    BY <1>1, <1>2, <2>1, <2>2, StableBounds
<1>5. CASE WorkerNotify(u) /\ channel' = channel /\ sequence' = sequence
  <2>1. Owed' \in Nat /\ Owed' + 1 = Owed /\ UnitShape'
    BY <1>1, <1>5, NotifyOwes
  <2>2. PICK v \in Nat : v = Owed'
    BY <2>1
  <2>3. v + 1 = w
    BY <1>2, <2>1, <2>2
  <2>4. v <= w
    BY <2>3
  <2>5. Owed' <= Owed
    BY <1>2, <2>2, <2>4
  <2>6. QED
    BY <1>1, <1>5, <2>1, <2>5, StableBounds
<1>6. CASE Notify(u)
  <2>1. CASE channel' = channel
    BY <1>1, <1>5, <1>6, <2>1, NotifyEffect
  <2>2. CASE channel' # channel
    <3>1. PICK p : p = channel.pending
      OBVIOUS
    <3>2. PICK e \in DomainEvent :
            /\ channel'.pending = Append(p, e)
            /\ e.id \in UnitEvents
      BY <1>1, <1>6, <2>2, <3>1, NotifyEffect
    <3>3. sequence' = sequence /\ WorkerNotify(u)
      BY <1>1, <1>6, NotifyEffect
    <3>4. Owed' \in Nat /\ Owed' + 1 = Owed /\ UnitShape'
      BY <1>1, <3>3, NotifyOwes
    <3>5. p \in Seq(DomainEvent) /\ UnitEvents \cap ChainEvents = {}
      BY <1>1, <3>1, KindsDiffer DEF ChannelRec
    <3>6. /\ Cardinality(At(Append(p, e), UnitEvents))
               = Cardinality(At(p, UnitEvents)) + 1
          /\ Cardinality(Behind(Append(p, e), UnitEvents))
               = Cardinality(Behind(p, UnitEvents)) + 1
      BY <3>2, <3>5, CountsAppended
    <3>7. PICK a \in Nat, b \in Nat, v \in Nat, t \in Nat :
            /\ a = Cardinality(At(p, UnitEvents)) /\ b = Cardinality(Behind(p, UnitEvents))
            /\ v = Owed' /\ t = Twice
      BY <3>4, <3>5, AtFinite, OwedFacts
    <3>8. /\ a + (v + 1) <= t + 1 /\ (~sequence.step_running => b + (v + 1) <= t)
      BY <3>1, <3>4, <3>7 DEF ResultsBounded
    <3>9. (a + 1) + v <= t + 1 /\ (~sequence.step_running => (b + 1) + v <= t)
      BY <3>8
    <3>10. Twice' = Twice
      BY DEF Twice
    <3>11. QED
      BY <3>2, <3>3, <3>4, <3>6, <3>7, <3>9, <3>10 DEF ResultsBounded
  <2>3. QED
    BY <2>1, <2>2
<1>7. CASE NotifyFreed(u)
  BY <1>5, <1>7 DEF NotifyFreed, service, runners
<1>8. QED
  BY <1>3, <1>4, <1>6, <1>7

LEMMA RegisteredAsks ==
  ASSUME UnitType, UnitShape, Create \/ CreateFails
  PROVE  Asked' = Asked /\ Telling' = Telling /\ UnitShape' /\ ResultsKept
<1>1. PICK S, publisher : unit' = Registered(S, publisher)
  BY DEF Create, CreateFails
<1>2. worker' = worker
  BY DEF Create, CreateFails
<1>3. \A r \in UnitRec :
        /\ [r EXCEPT !.result_output = publisher].status = r.status
        /\ [r EXCEPT !.result_output = publisher].has_input = r.has_input
  BY DEF UnitRec
<1>4. unit \in [Units -> UnitRec]
  BY DEF UnitType, UnitRec
<1>5. \A v \in Units : /\ unit'[v].status = unit[v].status
                       /\ unit'[v].has_input = unit[v].has_input
  BY <1>1, <1>3, <1>4 DEF Registered
<1>6. QED
  BY <1>2, <1>5, UntouchedAsks

LEMMA OthersBoundResults ==
  ASSUME IsFiniteSet(Units), DomainInv, UnitShape, ResultsBounded,
         \/ Create \/ CreateFails \/ Submit \/ Load \/ Destroy \/ CallbackReturns
         \/ ReleaseSlot \/ DispatchEnds \/ Tick \/ UNCHANGED vars
  PROVE  UnitShape' /\ ResultsBounded'
<1>1. /\ channel \in ChannelRec /\ Bounded(channel) /\ sequence \in SequenceRec
      /\ UnitType
  BY DEF DomainInv, UnitInv, RunnersInv, RunnersType
<1>2. channel'.pending = channel.pending
  <2>1. CASE ReleaseSlot
    BY <1>1, <2>1, ReleasedFields DEF ReleaseSlot
  <2>2. CASE channel' = channel
    BY <2>2
  <2>3. QED
    BY <2>1, <2>2 DEF Create, CreateFails, Submit, ServiceWriteInput, Load,
       LoadWorkflows, Destroy, CallbackReturns, DispatchEnds, Tick, vars
<1>3. sequence'.step_running = sequence.step_running
  <2>1. CASE sequence' = [sequence EXCEPT !.definition = Null]
    BY <1>1, <2>1, SequenceForgets
  <2>2. CASE sequence' = sequence
    BY <2>2
  <2>3. QED
    BY <2>1, <2>2 DEF Create, CreateFails, Submit, ServiceWriteInput, Load,
       LoadWorkflows, Destroy, CallbackReturns, ReleaseSlot, DispatchEnds, Tick, vars,
       service, runners
<1>4. CASE Create \/ CreateFails
  <2>1. Asked' = Asked /\ Telling' = Telling /\ UnitShape'
    BY <1>1, <1>4, RegisteredAsks
  <2>2. Owed' = Owed
    BY <2>1 DEF Owed
  <2>3. PICK w \in Nat : w = Owed
    BY OwedFacts
  <2>4. QED
    BY <1>1, <1>2, <1>3, <2>1, <2>2, <2>3, StableBounds
<1>5. CASE UNCHANGED unitVars
  BY <1>1, <1>2, <1>3, <1>5, UntouchedBounds DEF unitVars
<1>6. QED
  BY <1>4, <1>5 DEF Submit, ServiceWriteInput, Load, LoadWorkflows, Destroy,
     CallbackReturns, ReleaseSlot, DispatchEnds, Tick, vars

LEMMA LateFinite ==
  ASSUME NEW p \in Seq(DomainEvent), NEW h \in Nat
  PROVE  /\ Late(p, h) \in SUBSET (Nat \ {0}) /\ IsFiniteSet(Late(p, h))
         /\ Cardinality(Late(p, h)) \in Nat
         /\ Cardinality(Late(p, h)) <= Cardinality(At(p, TimeoutEvents))
<1>1. /\ At(p, TimeoutEvents) \in SUBSET (1 .. Len(p)) /\ IsFiniteSet(At(p, TimeoutEvents))
      /\ Len(p) \in Nat
  BY AtFinite, LenProperties
<1>2. Late(p, h) \in SUBSET At(p, TimeoutEvents)
  BY DEF Late
<1>3. Late(p, h) \in SUBSET (Nat \ {0})
  BY <1>1, <1>2
<1>4. QED
  BY <1>1, <1>2, <1>3, FS_Subset, FS_CardinalityType

(* The event handled is one less to come, of the queue and of the budget.  *)
LEMMA LateTaken ==
  ASSUME NEW p \in Seq(DomainEvent), p # << >>, NEW h \in Nat
  PROVE  Cardinality(Late(Tail(p), h + 1)) <= Cardinality(Late(p, h))
<1> DEFINE q == Tail(p)
<1>1. PICK n \in Nat : n = Len(p)
  BY LenProperties
<1>2. n # 0 /\ DOMAIN p = 1 .. n
  BY <1>1, EmptySeq, LenProperties
<1>3. /\ q \in Seq(DomainEvent) /\ DOMAIN q = 1 .. n - 1
      /\ \A i \in 1 .. n - 1 : q[i] = p[i + 1]
  BY <1>1, HeadTailProperties, LenProperties
<1> HIDE DEF q
<1>4. PICK b \in Nat : b = Budget
  BY DomainAssumption
<1>5. ASSUME NEW k \in Late(q, h + 1) PROVE k + 1 \in Late(p, h)
  <2>1. k \in 1 .. n - 1 /\ q[k].id \in TimeoutEvents /\ k + (h + 1) > b
    BY <1>3, <1>4, <1>5 DEF Late, At
  <2>2. k + 1 \in 1 .. n /\ (k + 1) + h > b
    BY <2>1
  <2>3. k + 1 \in At(p, TimeoutEvents)
    BY <1>2, <1>3, <2>1, <2>2 DEF At
  <2>4. QED
    BY <1>4, <2>2, <2>3 DEF Late
<1>6. Late(q, h + 1) \in SUBSET (Nat \ {0})
  BY <1>3, LateFinite
<1>7. Late(p, h) \in SUBSET Nat /\ IsFiniteSet(Late(p, h))
  BY LateFinite
<1>8. Cardinality(Late(q, h + 1)) <= Cardinality(Late(p, h))
  BY <1>5, <1>6, <1>7, ShiftedCount
<1>9. QED
  BY <1>8 DEF q

LEMMA LateAppended ==
  ASSUME NEW p \in Seq(DomainEvent), NEW e \in DomainEvent, e.id \notin TimeoutEvents,
         NEW h \in Nat
  PROVE  Cardinality(Late(Append(p, e), h)) = Cardinality(Late(p, h))
<1> DEFINE q == Append(p, e)
<1>1. PICK n \in Nat : n = Len(p)
  BY LenProperties
<1>2. DOMAIN p = 1 .. n /\ DOMAIN q = 1 .. n + 1
  BY <1>1, LenProperties, AppendProperties
<1>3. q[n + 1] = e /\ \A i \in 1 .. n : q[i] = p[i]
  BY <1>1, <1>2, AppendProperties
<1> HIDE DEF q
<1>4. ASSUME NEW i PROVE i \in At(q, TimeoutEvents) <=> i \in At(p, TimeoutEvents)
  <2>1. i \in 1 .. n + 1 <=> i \in 1 .. n \/ i = n + 1
    OBVIOUS
  <2>2. QED
    BY <1>2, <1>3, <2>1 DEF At
<1>5. At(q, TimeoutEvents) = At(p, TimeoutEvents)
  BY <1>4
<1>6. Late(q, h) = Late(p, h)
  BY <1>5 DEF Late
<1>7. QED
  BY <1>6 DEF q

LEMMA HandlerBoundsTimeouts ==
  ASSUME DomainInv, QueueHasRoom, UnitShape, TimeoutsBounded, RunHandler
  PROVE  TimeoutsBounded'
<1>1. PICK p : p = popped.pending
  OBVIOUS
<1>2. PICK h : h = channel.pending
  OBVIOUS
<1>3. /\ h # << >> /\ event = h[1] /\ p = Tail(h)
      /\ control.at = "dispatch" /\ control'.dispatched = control.dispatched
      /\ \/ control'.at = "release" /\ Continues(event, p)
         \/ control'.at = "callback" /\ Closes(event, p)
  BY <1>1, <1>2, HandlerEffect
<1>4. h \in Seq(DomainEvent) /\ p \in Seq(DomainEvent)
  <2>1. h \in Seq(DomainEvent)
    BY <1>2, HandlerEffect DEF ChannelRec
  <2>2. QED
    BY <1>3, <2>1, HeadTailProperties
<1>5. RunnersInv /\ control \in ControlRec
  BY DEF DomainInv, RestType
<1>6. TimeoutEvents \cap ChainEvents = {}
  BY KindsDiffer
<1>7. PICK g \in Nat : g = control.dispatched
  BY <1>5, DomainAssumption DEF ControlRec
<1>8. /\ Cardinality(At(h, TimeoutEvents)) <= 2
      /\ Cardinality(Late(h, g)) <= 1
      /\ ~sequence.step_running => Behind(h, TimeoutEvents) = {}
  <2>1. Handled = g
    BY <1>3, <1>7 DEF Handled
  <2>2. QED
    BY <1>2, <2>1 DEF TimeoutsBounded
<1>9. /\ Cardinality(At(p, TimeoutEvents)) <= Cardinality(At(h, TimeoutEvents))
      /\ At(h, TimeoutEvents) = {} => At(p, TimeoutEvents) = {}
      /\ Cardinality(Late(p, g + 1)) <= Cardinality(Late(h, g))
  BY <1>3, <1>4, CountsTaken, LateTaken
<1>10. /\ Cardinality(At(p, TimeoutEvents)) \in Nat /\ Cardinality(At(h, TimeoutEvents)) \in Nat
       /\ Cardinality(Late(p, g + 1)) \in Nat /\ Cardinality(Late(h, g)) \in Nat
  <2>1. g + 1 \in Nat
    OBVIOUS
  <2>2. Cardinality(Late(p, g + 1)) \in Nat /\ Cardinality(Late(h, g)) \in Nat
    BY <1>4, <2>1, LateFinite
  <2>3. QED
    BY <1>4, <2>2, AtFinite
<1>11. Cardinality(At(p, TimeoutEvents)) <= 2 /\ Cardinality(Late(p, g + 1)) <= 1
  BY <1>8, <1>9, <1>10
<1>12. ASSUME control'.at = "release", channel'.pending = p,
              ~sequence'.step_running => Behind(p, TimeoutEvents) = {}
       PROVE  TimeoutsBounded'
  <2>1. Handled' = g + 1
    BY <1>3, <1>7, <1>12 DEF Handled
  <2>2. Late(channel'.pending, Handled') = Late(p, g + 1)
    BY <1>12, <2>1
  <2>3. QED
    BY <1>11, <1>12, <2>2 DEF TimeoutsBounded, Late
<1>13. ASSUME control'.at = "release", NEW error, Pushed(p, error)
       PROVE  TimeoutsBounded'
  <2>1. PICK e \in DomainEvent : e.id \in ChainEvents /\ channel'.pending = Append(p, e)
    BY <1>13 DEF Pushed
  <2>2. e.id \notin TimeoutEvents
    BY <2>1, KindsDiffer
  <2>3. Handled' = g + 1
    BY <1>3, <1>7, <1>13 DEF Handled
  <2>4. /\ Cardinality(At(Append(p, e), TimeoutEvents)) = Cardinality(At(p, TimeoutEvents))
        /\ Behind(Append(p, e), TimeoutEvents) = {}
        /\ Cardinality(Late(Append(p, e), g + 1)) = Cardinality(Late(p, g + 1))
    BY <1>4, <1>6, <2>1, <2>2, CountsAppended, LateAppended
  <2>5. PICK q : q = channel'.pending
    OBVIOUS
  <2>6. q = Append(p, e)
    BY <2>1, <2>5
  <2>7. /\ Cardinality(At(q, TimeoutEvents)) <= 2 /\ Behind(q, TimeoutEvents) = {}
        /\ Cardinality(Late(q, g + 1)) <= 1
    BY <1>11, <2>4, <2>6
  <2>8. Late(channel'.pending, Handled') = Late(q, g + 1)
    BY <2>3, <2>5
  <2>9. QED
    BY <1>13, <2>5, <2>7, <2>8 DEF TimeoutsBounded, Late
<1>14. ASSUME control'.at = "release", NEW out, StepOutcome(p, out)
       PROVE  TimeoutsBounded'
  <2>1. CASE Refused(p)
    BY <1>13, <1>14, <2>1 DEF Refused
  <2>2. CASE channel'.pending = p /\ \E u \in Units : Began(u, out)
    BY <1>12, <1>14, <2>2 DEF Began
  <2>3. QED
    BY <1>14, <2>1, <2>2 DEF StepOutcome
<1>15. CASE control'.at = "release" /\ Ignores(event, p)
  <2>1. Behind(h, TimeoutEvents) = {} => Behind(p, TimeoutEvents) = {}
    BY <1>3, <1>4, <1>15, BehindTaken DEF Ignores
  <2>2. QED
    BY <1>8, <1>12, <1>15, <2>1 DEF Ignores
<1>16. CASE control'.at = "release" /\ CountsStep(event, p)
  BY <1>13, <1>14, <1>16 DEF CountsStep
<1>17. CASE control'.at = "release" /\ FailsRunning(event, p)
  BY <1>13, <1>17 DEF FailsRunning
<1>18. CASE control'.at = "release" /\ PassesOn(event, p)
  BY <1>13, <1>14, <1>18 DEF PassesOn
<1>19. CASE control'.at = "callback" /\ Closes(event, p)
  <2>1. Behind(h, TimeoutEvents) = At(h, TimeoutEvents)
    BY <1>2, <1>3, <1>5, <1>6, <1>19, HandledBehind DEF Closes
  <2>2. At(p, TimeoutEvents) = {}
    BY <1>8, <1>9, <1>19, <2>1 DEF Closes
  <2>3. Behind(p, TimeoutEvents) = {}
    BY <2>2 DEF Behind
  <2>4. Cardinality({}) = 0
    BY FS_EmptySet
  <2>5. \A n : Late(p, n) = {}
    BY <2>2 DEF Late
  <2>6. channel'.pending = p
    BY <1>19 DEF Closes
  <2>7. Late(channel'.pending, Handled') = {}
    BY <2>5, <2>6
  <2>8. QED
    BY <2>2, <2>3, <2>4, <2>6, <2>7 DEF TimeoutsBounded, Late
<1>20. QED
  BY <1>3, <1>15, <1>16, <1>17, <1>18, <1>19 DEF Continues

(* The queue is never full of what may be pending.                         *)
LEMMA PendingBounded ==
  ASSUME NEW c \in ChannelRec, NoChain(c) \/ (\E e : OneChain(c, e)),
         NEW w \in Nat, NEW t \in Nat,
         Cardinality(At(c.pending, UnitEvents)) + w <= t + 1,
         Cardinality(At(c.pending, TimeoutEvents)) <= 2
  PROVE  Len(c.pending) <= t + 4
<1>1. c.pending \in Seq(DomainEvent)
  BY DEF ChannelRec
<1>2. PICK a \in Nat, b \in Nat, n \in Nat :
        /\ a = Cardinality(At(c.pending, UnitEvents))
        /\ b = Cardinality(At(c.pending, TimeoutEvents)) /\ n = Len(c.pending)
  BY <1>1, AtFinite, LenProperties
<1>3. n <= a + b + 1
  BY <1>2, PendingIsCounted
<1>4. a + w <= t + 1 /\ b <= 2
  BY <1>2
<1>5. n <= t + 4
  BY <1>3, <1>4
<1>6. QED
  BY <1>2, <1>5

LEMMA LoadLeavesRoom == DomainInv /\ LoadInv /\ QueueSuffices => QueueHasRoom
<1> SUFFICES ASSUME DomainInv, LoadInv, QueueSuffices PROVE QueueHasRoom
  OBVIOUS
<1>1. RunnersInv /\ ResultsBounded /\ TimeoutsBounded
  BY DEF DomainInv, LoadInv
<1>2. Len(channel.pending) <= Twice + 4
  <2>1. channel \in ChannelRec /\ (NoChain(channel) \/ \E e : OneChain(channel, e))
    BY <1>1, ChainAlone DEF RunnersInv, RunnersType
  <2>2. Owed \in Nat /\ Twice \in Nat
    BY OwedFacts DEF QueueSuffices
  <2>3. /\ Cardinality(At(channel.pending, UnitEvents)) + Owed <= Twice + 1
        /\ Cardinality(At(channel.pending, TimeoutEvents)) <= 2
    BY <1>1 DEF ResultsBounded, TimeoutsBounded
  <2>4. QED
    BY <2>1, <2>2, <2>3, PendingBounded
<1>3. channel \in ChannelRec /\ Len(channel.held) <= 1
  BY <1>1 DEF RunnersInv, RunnersType, Bounded
<1>4. PICK k \in Nat, l \in Nat, t \in Nat, n \in Nat :
        /\ k = Len(channel.pending) /\ l = Len(channel.held)
        /\ t = Twice /\ n = QueueCapacity
  BY <1>3, OwedFacts, LenProperties, DomainAssumption DEF ChannelRec, QueueSuffices
<1>5. k <= t + 4 /\ l <= 1 /\ n > t + 5
  BY <1>2, <1>3, <1>4 DEF QueueSuffices
<1>6. k + l < n
  BY <1>5
<1>7. QED
  BY <1>4, <1>6 DEF QueueHasRoom

(* A whole queue is within one dispatch's budget.                          *)
LEMMA NoneIsLate ==
  ASSUME QueueSuffices, NEW p \in Seq(DomainEvent), Len(p) <= Twice + 4
  PROVE  Late(p, 0) = {}
<1>1. At(p, TimeoutEvents) \in SUBSET (1 .. Len(p))
  BY AtFinite
<1>2. PICK n \in Nat, t \in Nat, b \in Nat : n = Len(p) /\ t = Twice /\ b = Budget
  BY OwedFacts, LenProperties, DomainAssumption DEF QueueSuffices
<1>3. n <= t + 4 /\ b >= t + 5
  BY <1>2 DEF QueueSuffices
<1>4. \A i \in 1 .. n : ~(i + 0 > b)
  BY <1>3
<1>5. QED
  BY <1>1, <1>2, <1>4 DEF Late

(* A step that leaves the timeouts alone.                                  *)
LEMMA SameTimeouts ==
  ASSUME TimeoutsBounded, control' = control,
         channel'.pending = channel.pending,
         sequence'.step_running = sequence.step_running,
         sequence'.timeout_published = sequence.timeout_published
  PROVE  TimeoutsBounded'
<1>1. Handled' = Handled
  BY DEF Handled
<1>2. Late(channel'.pending, Handled') = Late(channel.pending, Handled)
  BY <1>1
<1>3. QED
  BY <1>2 DEF TimeoutsBounded, Late

LEMMA OwesAfter == ASSUME IsFiniteSet(Units) PROVE Owed' \in Nat
<1>1. Asked' \in SUBSET Units /\ Telling' \in SUBSET Units
  BY DEF Asked, Telling
<1>2. IsFiniteSet(Asked') /\ IsFiniteSet(Telling')
  BY <1>1, FS_Subset
<1>3. Cardinality(Asked') \in Nat /\ Cardinality(Telling') \in Nat
  BY <1>2, FS_CardinalityType
<1>4. QED
  BY <1>3 DEF Owed

LEMMA ProcessBoundsTimeouts ==
  ASSUME QueueSuffices, DomainInv, QueueHasRoom, UnitShape, ResultsBounded,
         TimeoutsBounded, Process, RunnersInv', ResultsBounded'
  PROVE  TimeoutsBounded'
<1>1. PICK p : p = channel.pending
  OBVIOUS
<1>2. PICK q : q = channel'.pending
  OBVIOUS
<1>3. p \in Seq(DomainEvent) /\ q \in Seq(DomainEvent)
  BY <1>1, <1>2 DEF DomainInv, RunnersInv, RunnersType, ChannelRec
<1>4. /\ control' = IF control.at = "callback" THEN control
                    ELSE [at |-> "dispatch", dispatched |-> 0]
      /\ control.at \in {"idle", "callback"}
      /\ Starts \/ TimesOut \/ (UNCHANGED <<channel, sequence, output>> /\ UnitsUntouched)
  BY ProcessEffect
<1>5. /\ TimeoutEvents \cap ChainEvents = {}
      /\ "STEP_TIMEOUT" \in TimeoutEvents /\ "STEP_TIMEOUT" \notin ChainEvents
  BY KindsDiffer DEF TimeoutEvents
<1>6. PICK a \in Nat, b \in Nat :
        /\ a = Cardinality(At(p, TimeoutEvents)) /\ b = Cardinality(At(q, TimeoutEvents))
  BY <1>3, AtFinite
<1>7. /\ a <= 1 /\ (~sequence.step_running => Behind(p, TimeoutEvents) = {})
      /\ control.at = "callback" /\ At(p, TimeoutEvents) # {} =>
           sequence.timeout_published
  BY <1>1, <1>4, <1>6 DEF TimeoutsBounded
<1>8. control \in ControlRec /\ Cardinality({}) = 0 /\ IsFiniteSet(At(p, TimeoutEvents))
  BY <1>3, FS_EmptySet, AtFinite DEF DomainInv, RestType
<1>9. /\ ~sequence'.step_running => Behind(q, TimeoutEvents) = {}
      /\ b <= 2
      /\ control.at = "callback" => b <= 1
      /\ control.at = "callback" /\ At(q, TimeoutEvents) # {} =>
           sequence'.timeout_published
  <2>1. CASE Starts
    <3>1. At(p, TimeoutEvents) = {}
      <4>1. channel \in ChannelRec /\ NoChain(channel) /\ ~sequence.step_running
        BY <2>1 DEF Starts, DomainInv, RunnersInv, RunnersType
      <4>2. Behind(p, TimeoutEvents) = At(p, TimeoutEvents)
        BY <1>1, <1>5, <4>1, AllBehind
      <4>3. QED
        BY <1>7, <4>1, <4>2
    <3>2. CASE channel'.pending = p /\ \E u \in Units : Began(u, output)
      <4>1. q = p /\ sequence'.step_running
        BY <1>2, <3>2 DEF Began
      <4>2. QED
        BY <1>6, <1>7, <3>1, <4>1
    <3>3. CASE Refused(p)
      <4>1. PICK e \in DomainEvent : e.id \in ChainEvents /\ q = Append(p, e)
        BY <1>2, <3>3 DEF Refused, Pushed
      <4>2. e.id \notin TimeoutEvents
        BY <4>1, KindsDiffer
      <4>3. /\ At(Append(p, e), TimeoutEvents) = {}
            /\ Behind(Append(p, e), TimeoutEvents) = {}
        BY <1>3, <1>5, <3>1, <4>1, <4>2, CountsAppended
      <4>4. At(q, TimeoutEvents) = {} /\ Behind(q, TimeoutEvents) = {} /\ b = 0
        BY <1>6, <1>8, <4>1, <4>3
      <4>5. QED
        BY <4>4
    <3>4. QED
      BY <1>1, <2>1, <3>2, <3>3 DEF Starts, StepOutcome
  <2>2. CASE TimesOut
    <3>1. PICK e \in DomainEvent : e.id = "STEP_TIMEOUT" /\ q = Append(p, e)
      BY <1>1, <1>2, <2>2 DEF TimesOut
    <3>2. Cardinality(At(Append(p, e), TimeoutEvents))
            = Cardinality(At(p, TimeoutEvents)) + 1
      BY <1>3, <1>5, <3>1, CountsAppended
    <3>3. b = a + 1
      BY <1>6, <3>1, <3>2
    <3>4. /\ ~sequence.timeout_published /\ sequence'.timeout_published
          /\ sequence'.step_running
      BY <2>2 DEF TimesOut
    <3>5. control.at = "callback" => a = 0
      BY <1>6, <1>7, <1>8, <3>4
    <3>6. b <= 2 /\ (control.at = "callback" => b <= 1)
      BY <1>7, <3>3, <3>5
    <3>7. QED
      BY <3>4, <3>6
  <2>3. CASE UNCHANGED <<channel, sequence, output>>
    <3>1. q = p /\ sequence' = sequence
      BY <1>1, <1>2, <2>3
    <3>2. a = b
      BY <1>6, <3>1
    <3>3. QED
      BY <1>7, <3>1, <3>2
  <2>4. QED
    BY <1>4, <2>1, <2>2, <2>3
<1>10. Cardinality(Late(q, Handled')) <= 1
  <2>1. CASE control.at = "callback"
    <3>1. control' = control /\ b <= 1
      BY <1>4, <1>9, <2>1
    <3>2. Handled' \in Nat
      <4>1. control.dispatched \in Nat
        BY <1>8, DomainAssumption DEF ControlRec
      <4>2. QED
        BY <3>1, <4>1 DEF Handled
    <3>3. PICK n \in Nat : n = Handled'
      BY <3>2
    <3>4. Cardinality(Late(q, n)) <= b /\ Cardinality(Late(q, n)) \in Nat
      BY <1>3, <1>6, LateFinite
    <3>5. QED
      BY <3>1, <3>3, <3>4
  <2>2. CASE control.at # "callback"
    <3>1. control' = [at |-> "dispatch", dispatched |-> 0]
      BY <1>4, <2>2
    <3>2. Handled' = 0
      BY <3>1 DEF Handled
    <3>3. Len(q) <= Twice + 4
      <4>1. /\ channel' \in ChannelRec
            /\ NoChain(channel') \/ \E e : OneChain(channel', e)
        BY DEF RunnersInv, RunnersType, Progress, Over, Fresh, Moving, Waiting, UnderWay
      <4>2. /\ Cardinality(At(channel'.pending, UnitEvents)) + Owed' <= Twice + 1
            /\ Cardinality(At(channel'.pending, TimeoutEvents)) <= 2
        BY <1>2, <1>6, <1>9 DEF ResultsBounded, Twice
      <4>3. Owed' \in Nat /\ Twice \in Nat
        BY OwesAfter, OwedFacts DEF QueueSuffices
      <4>4. PICK c \in ChannelRec : c = channel'
        BY <4>1
      <4>5. PICK w \in Nat, t \in Nat : w = Owed' /\ t = Twice
        BY <4>3
      <4>6. Len(c.pending) <= t + 4
        BY <4>1, <4>2, <4>4, <4>5, PendingBounded
      <4>7. QED
        BY <1>2, <4>4, <4>5, <4>6
    <3>4. Late(q, 0) = {}
      BY <1>3, <3>3, NoneIsLate
    <3>5. Late(q, Handled') = {}
      BY <3>2, <3>4
    <3>6. QED
      BY <1>8, <3>5
  <2>3. QED
    BY <2>1, <2>2
<1>11. control'.at = "callback" => control.at = "callback"
  BY <1>4
<1>12. control'.at # "idle"
  BY <1>4
<1>13. QED
  BY <1>2, <1>6, <1>9, <1>10, <1>11, <1>12 DEF TimeoutsBounded, Late

LEMMA HandledType == ASSUME control \in ControlRec PROVE Handled \in Nat
<1>1. control.dispatched \in Nat
  BY DomainAssumption DEF ControlRec
<1>2. QED
  BY <1>1 DEF Handled

LEMMA UnitsBoundTimeouts ==
  ASSUME DomainInv, TimeoutsBounded, NEW u \in Units,
         Work(u) \/ Finish(u) \/ Notify(u) \/ NotifyFreed(u)
  PROVE  TimeoutsBounded'
<1>1. RunnersInv /\ UnitType /\ channel \in ChannelRec /\ control \in ControlRec
  BY DEF DomainInv, UnitInv, RunnersInv, RunnersType, RestType
<1>2. CASE UNCHANGED <<control, channel, sequence>>
  BY <1>2, SameTimeouts
<1>3. CASE Notify(u)
  <2>1. CASE channel' = channel
    <3>1. UNCHANGED <<control, sequence>>
      BY <1>1, <1>3, NotifyEffect
    <3>2. QED
      BY <1>2, <2>1, <3>1
  <2>2. CASE channel' # channel
    <3>1. PICK p : p = channel.pending
      OBVIOUS
    <3>2. PICK e \in DomainEvent :
            /\ channel'.pending = Append(p, e)
            /\ e.id \notin ChainEvents /\ e.id \notin TimeoutEvents
      BY <1>1, <1>3, <2>2, <3>1, NotifyEffect
    <3>3. UNCHANGED <<control, sequence>>
      BY <1>1, <1>3, NotifyEffect
    <3>4. PICK h \in Nat : h = Handled
      BY <1>1, HandledType
    <3>5. p \in Seq(DomainEvent) /\ TimeoutEvents \cap ChainEvents = {}
      BY <1>1, <3>1, KindsDiffer DEF ChannelRec
    <3>6. /\ Cardinality(At(Append(p, e), TimeoutEvents))
               = Cardinality(At(p, TimeoutEvents))
          /\ At(p, TimeoutEvents) = {} => At(Append(p, e), TimeoutEvents) = {}
          /\ Behind(p, TimeoutEvents) = {} => Behind(Append(p, e), TimeoutEvents) = {}
      BY <3>2, <3>5, CountsAppended
    <3>7. Cardinality(Late(Append(p, e), h)) = Cardinality(Late(p, h))
      BY <3>2, <3>5, LateAppended
    <3>8. Handled' = h
      BY <3>3, <3>4 DEF Handled
    <3>9. PICK q : q = channel'.pending
      OBVIOUS
    <3>10. q = Append(p, e)
      BY <3>2, <3>9
    <3>11. /\ ~sequence.step_running => Behind(q, TimeoutEvents) = {}
           /\ Cardinality(At(q, TimeoutEvents)) <= 2
           /\ control.at \in {"idle", "callback"} =>
                Cardinality(At(q, TimeoutEvents)) <= 1
           /\ control.at = "callback" /\ At(q, TimeoutEvents) # {} =>
                sequence.timeout_published
      BY <3>1, <3>6, <3>10 DEF TimeoutsBounded
    <3>12. Cardinality(Late(q, h)) <= 1
      BY <3>1, <3>4, <3>7, <3>10 DEF TimeoutsBounded
    <3>13. Late(channel'.pending, Handled') = Late(q, h)
      BY <3>8, <3>9
    <3>14. QED
      BY <3>3, <3>9, <3>11, <3>12, <3>13 DEF TimeoutsBounded, Late
  <2>3. QED
    BY <2>1, <2>2
<1>4. QED
  BY <1>2, <1>3 DEF Work, Finish, NotifyFreed, service, runners

LEMMA OthersBoundTimeouts ==
  ASSUME QueueSuffices, DomainInv, TimeoutsBounded,
         \/ Create \/ CreateFails \/ Submit \/ Load \/ Destroy \/ CallbackReturns
         \/ ReleaseSlot \/ DispatchEnds \/ Tick \/ UNCHANGED vars
  PROVE  TimeoutsBounded'
<1>1. /\ channel \in ChannelRec /\ Bounded(channel) /\ sequence \in SequenceRec
      /\ control \in ControlRec
  BY DEF DomainInv, RunnersInv, RunnersType, RestType
<1>2. channel'.pending = channel.pending
  <2>1. CASE ReleaseSlot
    BY <1>1, <2>1, ReleasedFields DEF ReleaseSlot
  <2>2. CASE channel' = channel
    BY <2>2
  <2>3. QED
    BY <2>1, <2>2 DEF Create, CreateFails, Submit, ServiceWriteInput, Load,
       LoadWorkflows, Destroy, CallbackReturns, DispatchEnds, Tick, vars
<1>3. /\ sequence'.step_running = sequence.step_running
      /\ sequence'.timeout_published = sequence.timeout_published
  <2>1. CASE sequence' = [sequence EXCEPT !.definition = Null]
    BY <1>1, <2>1 DEF SequenceRec
  <2>2. CASE sequence' = sequence
    BY <2>2
  <2>3. QED
    BY <2>1, <2>2 DEF Create, CreateFails, Submit, ServiceWriteInput, Load,
       LoadWorkflows, Destroy, CallbackReturns, ReleaseSlot, DispatchEnds, Tick, vars,
       service, runners
<1>4. CASE control' = control
  BY <1>2, <1>3, <1>4, SameTimeouts
<1>5. PICK p : p = channel.pending
  OBVIOUS
<1>6. p \in Seq(DomainEvent)
  BY <1>1, <1>5 DEF ChannelRec
<1>7. PICK g \in Nat, b \in Nat : g = control.dispatched /\ b = Budget
  BY <1>1, DomainAssumption DEF ControlRec
<1>8. CASE ReleaseSlot
  <2>1. /\ control.at = "release"
        /\ control' = [at |-> "dispatch", dispatched |-> control.dispatched + 1]
    BY <1>8 DEF ReleaseSlot
  <2>2. Handled' = Handled
    BY <1>7, <2>1 DEF Handled
  <2>3. Late(channel'.pending, Handled') = Late(channel.pending, Handled)
    BY <1>2, <2>2
  <2>4. QED
    BY <1>2, <1>3, <2>1, <2>3 DEF TimeoutsBounded, Late
<1>9. CASE CallbackReturns
  <2>1. control.at = "callback" /\ control' = [control EXCEPT !.at = "release"]
    BY <1>9 DEF CallbackReturns
  <2>2. control'.at = "release" /\ control'.dispatched = g
    BY <1>1, <1>7, <2>1 DEF ControlRec
  <2>3. Handled' = g + 1
    BY <2>2 DEF Handled
  <2>4. PICK a \in Nat : a = Cardinality(At(p, TimeoutEvents)) /\ a <= 1
    BY <1>5, <1>6, <2>1, AtFinite DEF TimeoutsBounded
  <2>5. g + 1 \in Nat
    OBVIOUS
  <2>6. PICK l \in Nat : l = Cardinality(Late(p, g + 1)) /\ l <= a
    BY <1>6, <2>4, <2>5, LateFinite
  <2>7. l <= 1
    BY <2>4, <2>6
  <2>8. Late(channel'.pending, Handled') = Late(p, g + 1)
    BY <1>2, <1>5, <2>3
  <2>9. QED
    BY <1>2, <1>3, <2>2, <2>6, <2>7, <2>8 DEF TimeoutsBounded, Late
<1>10. CASE DispatchEnds
  <2>1. /\ control.at = "dispatch" /\ control' = [at |-> "idle", dispatched |-> 0]
        /\ p = << >> \/ g = b
    BY <1>5, <1>7, <1>10 DEF DispatchEnds
  <2>2. Cardinality(At(p, TimeoutEvents)) <= 1
    <3>1. CASE p = << >>
      <4>1. At(p, TimeoutEvents) = {}
        BY <3>1 DEF At
      <4>2. QED
        BY <4>1, FS_EmptySet
    <3>2. CASE g = b
      <4>1. Handled = b
        BY <1>7, <2>1, <3>2 DEF Handled
      <4>2. Cardinality(Late(p, b)) <= 1
        BY <1>5, <4>1 DEF TimeoutsBounded
      <4>3. At(p, TimeoutEvents) \in SUBSET (1 .. Len(p)) /\ Len(p) \in Nat
        BY <1>6, AtFinite, LenProperties
      <4>4. \A i \in At(p, TimeoutEvents) : i + b > b
        BY <4>3
      <4>5. Late(p, b) = At(p, TimeoutEvents)
        BY <1>7, <4>4 DEF Late
      <4>6. QED
        BY <4>2, <4>5
    <3>3. QED
      BY <2>1, <3>1, <3>2
  <2>3. Handled' = 0
    BY <2>1 DEF Handled
  <2>4. PICK a \in Nat, l \in Nat :
          /\ a = Cardinality(At(p, TimeoutEvents)) /\ a <= 1
          /\ l = Cardinality(Late(p, 0)) /\ l <= a
    BY <1>6, <2>2, AtFinite, LateFinite
  <2>5. a <= 2 /\ l <= 1
    BY <2>4
  <2>6. Late(channel'.pending, Handled') = Late(p, 0)
    BY <1>2, <1>5, <2>3
  <2>7. ~sequence.step_running => Behind(p, TimeoutEvents) = {}
    BY <1>5 DEF TimeoutsBounded
  <2>8. QED
    BY <1>2, <1>3, <1>5, <2>1, <2>4, <2>5, <2>6, <2>7 DEF TimeoutsBounded, Late
<1>11. QED
  BY <1>4, <1>8, <1>9, <1>10 DEF Create, CreateFails, Submit, ServiceWriteInput, Load,
     LoadWorkflows, Destroy, Tick, vars

LEMMA LoadStepKeeps ==
  ASSUME QueueSuffices, DomainInv, LoadInv, [Next]_vars
  PROVE  LoadInv'
<1>1. QueueHasRoom
  BY LoadLeavesRoom
<1>2. UnitShape /\ ResultsBounded /\ TimeoutsBounded /\ IsFiniteSet(Units)
  BY DEF LoadInv, QueueSuffices
<1>3. RunnersInv'
  BY <1>1, StepKeeps DEF DomainInv
<1>4. CASE RunHandler
  BY <1>1, <1>2, <1>4, HandlerBoundsResults, HandlerBoundsTimeouts DEF LoadInv
<1>5. CASE Process
  <2>1. UnitShape' /\ ResultsBounded'
    BY <1>1, <1>2, <1>5, ProcessBoundsResults
  <2>2. TimeoutsBounded'
    BY <1>1, <1>2, <1>3, <1>5, <2>1, ProcessBoundsTimeouts
  <2>3. QED
    BY <2>1, <2>2 DEF LoadInv
<1>6. ASSUME NEW u \in Units, Work(u) \/ Finish(u) \/ Notify(u) \/ NotifyFreed(u)
      PROVE  LoadInv'
  BY <1>2, <1>6, UnitsBoundResults, UnitsBoundTimeouts DEF LoadInv
<1>7. CASE \/ Create \/ CreateFails \/ Submit \/ Load \/ Destroy \/ CallbackReturns
           \/ ReleaseSlot \/ DispatchEnds \/ Tick \/ UNCHANGED vars
  BY <1>2, <1>7, OthersBoundResults, OthersBoundTimeouts DEF LoadInv
<1>8. QED
  BY <1>4, <1>5, <1>6, <1>7 DEF Next, Dispatching

LEMMA LoadInit == QueueSuffices /\ Init => LoadInv
<1> SUFFICES ASSUME QueueSuffices, Init PROVE LoadInv
  OBVIOUS
<1>1. channel = Channel!EmptyChannel /\ control = [at |-> "idle", dispatched |-> 0]
      /\ UnitInit
  BY DEF Init
<1>2. PICK p : p = channel.pending
  OBVIOUS
<1>3. p = << >>
  BY <1>1, <1>2 DEF Channel!EmptyChannel
<1>4. \A S : At(p, S) = {}
  BY <1>3 DEF At
<1>5. \A S : Behind(p, S) = {}
  BY <1>4 DEF Behind
<1>6. \A n : Late(p, n) = {}
  BY <1>4 DEF Late
<1>7. Cardinality({}) = 0
  BY FS_EmptySet
<1>8. Asked = {} /\ Telling = {} /\ UnitShape
  BY <1>1 DEF UnitInit, Asked, Telling, UnitShape
<1>9. Owed = 0 /\ Twice \in Nat
  BY <1>7, <1>8, OwedFacts DEF Owed, QueueSuffices
<1>10. ResultsBounded
  <2>1. Cardinality(At(p, UnitEvents)) = 0 /\ Cardinality(Behind(p, UnitEvents)) = 0
    BY <1>4, <1>5, <1>7
  <2>2. QED
    BY <1>2, <1>9, <2>1 DEF ResultsBounded
<1>11. TimeoutsBounded
  <2>1. Cardinality(At(p, TimeoutEvents)) = 0 /\ Cardinality(Late(p, Handled)) = 0
    BY <1>4, <1>6, <1>7
  <2>2. QED
    BY <1>2, <1>1, <1>4, <1>5, <2>1 DEF TimeoutsBounded
<1>12. QED
  BY <1>8, <1>10, <1>11 DEF LoadInv

-----------------------------------------------------------------------------
(* While no request timed out, one unit at a time has an input or a result *)
(* on its way, and none once no step is running. p is the queue, A and T   *)
(* the units asked and telling, w the workers, g the purposes, done the    *)
(* steps that succeeded.                                                   *)

Results(p) == At(p, UnitEvents)

Alone(p, A, T) ==
  /\ \A u, v \in A \cup T : u = v
  /\ A \cap T = {}
  /\ \A i, j \in Results(p) : i = j
  /\ Results(p) # {} => A = {} /\ T = {}

Quiet(p, A, T) == Results(p) = {} /\ A = {} /\ T = {}

(* Who has the running step, has it for this step.                         *)
Earned(p, A, T, w, g, out, done) ==
  /\ \A u \in A : g[u] = <<out.request_id, out.completed_step_count + 1>>
  /\ \A u \in T : w[u].result.error = "NONE" => out.completed_step_count + 1 \in done
  /\ \A i \in Results(p) :
       p[i].id = "UNIT_COMPLETED" => out.completed_step_count + 1 \in done

(* No event between runners carries error x.                               *)
Without(p, x) == \A i \in At(p, ChainEvents) : p[i].error # x

Solo(p, A, T, w, g, running, out, done) ==
  /\ Alone(p, A, T)
  /\ ~running /\ Without(p, "STEP_TIMEOUT") => Quiet(p, A, T)
  /\ running => Earned(p, A, T, w, g, out, done)
  /\ 1 .. out.completed_step_count \subseteq done
  /\ out.error # "UNIT_REJECTED" /\ Without(p, "UNIT_REJECTED")

SoloNow ==
  Solo(channel.pending, Asked, Telling, worker, purpose, sequence.step_running,
       output, succeeded)

SoloInv ==
  /\ DOMAIN purpose = Units
  /\ control.at # "idle" => alive = "yes"
  /\ ~TimedOut => SoloNow

LEMMA TailElements ==
  ASSUME NEW h \in Seq(DomainEvent), h # << >>, NEW S, NEW i \in At(Tail(h), S)
  PROVE  i \in Nat /\ i + 1 \in At(h, S) /\ Tail(h)[i] = h[i + 1]
<1>1. PICK n \in Nat : n = Len(h)
  BY LenProperties
<1>2. n # 0 /\ DOMAIN h = 1 .. n
  BY <1>1, EmptySeq, LenProperties
<1>3. DOMAIN Tail(h) = 1 .. n - 1 /\ \A k \in 1 .. n - 1 : Tail(h)[k] = h[k + 1]
  BY <1>1, HeadTailProperties, LenProperties
<1>4. QED
  BY <1>2, <1>3 DEF At

LEMMA TailCovers ==
  ASSUME NEW h \in Seq(DomainEvent), h # << >>, NEW S, NEW j \in At(h, S), j # 1
  PROVE  \E i \in At(Tail(h), S) : Tail(h)[i] = h[j]
<1>1. PICK n \in Nat : n = Len(h)
  BY LenProperties
<1>2. n # 0 /\ DOMAIN h = 1 .. n
  BY <1>1, EmptySeq, LenProperties
<1>3. DOMAIN Tail(h) = 1 .. n - 1 /\ \A i \in 1 .. n - 1 : Tail(h)[i] = h[i + 1]
  BY <1>1, HeadTailProperties, LenProperties
<1>4. j \in 1 .. n /\ h[j].id \in S
  BY <1>2 DEF At
<1>5. j - 1 \in 1 .. n - 1 /\ j = (j - 1) + 1
  BY <1>4
<1>6. PICK i \in 1 .. n - 1 : j = i + 1
  BY <1>5
<1>7. Tail(h)[i] = h[j]
  BY <1>3, <1>6
<1>8. i \in At(Tail(h), S)
  BY <1>3, <1>4, <1>7 DEF At
<1>9. QED
  BY <1>7, <1>8

(* q is queue p with event e published.                                    *)
Added(p, e, q) == q = Append(p, e)

LEMMA AppendElements ==
  ASSUME NEW p \in Seq(DomainEvent), NEW e \in DomainEvent, NEW q, Added(p, e, q), NEW S
  PROVE  /\ \A i \in At(q, S) : \/ i \in At(p, S) /\ q[i] = p[i]
                                \/ q[i] = e /\ e.id \in S
         /\ \A i \in At(p, S) : i \in At(q, S) /\ q[i] = p[i]
         /\ e.id \in S => \E i \in At(q, S) : q[i] = e
<1>1. PICK n \in Nat : n = Len(p)
  BY LenProperties
<1>2. DOMAIN p = 1 .. n /\ DOMAIN q = 1 .. n + 1
  BY <1>1, LenProperties, AppendProperties DEF Added
<1>3. q[n + 1] = e /\ \A i \in 1 .. n : q[i] = p[i]
  BY <1>1, <1>2, AppendProperties DEF Added
<1>4. \A i \in 1 .. n + 1 : i \in 1 .. n \/ i = n + 1
  OBVIOUS
<1>5. 1 .. n \subseteq 1 .. n + 1 /\ n + 1 \in 1 .. n + 1
  OBVIOUS
<1>6. QED
  BY <1>2, <1>3, <1>4, <1>5 DEF At

(* Without the event that is handled.                                      *)
LEMMA TailAlone ==
  ASSUME NEW h \in Seq(DomainEvent), h # << >>, NEW p, p = Tail(h), NEW A, NEW T,
         Alone(h, A, T)
  PROVE  /\ Alone(p, A, T)
         /\ h[1].id \in UnitEvents => Quiet(p, A, T)
         /\ Quiet(h, A, T) => Quiet(p, A, T)
         /\ \A x : Without(h, x) => Without(p, x)
<1>1. \A i \in Results(p) : i \in Nat /\ i + 1 \in Results(h)
  BY TailElements DEF Results
<1>2. \A i, j \in Results(p) : i = j
  <2> SUFFICES ASSUME NEW i \in Results(p), NEW j \in Results(p) PROVE i = j
    OBVIOUS
  <2>1. i \in Nat /\ j \in Nat /\ i + 1 = j + 1
    BY <1>1 DEF Alone
  <2>2. QED
    BY <2>1
<1>3. Alone(p, A, T)
  BY <1>1, <1>2 DEF Alone
<1>4. ASSUME h[1].id \in UnitEvents PROVE Quiet(p, A, T)
  <2>1. Len(h) \in Nat /\ Len(h) # 0 /\ DOMAIN h = 1 .. Len(h)
    BY EmptySeq, LenProperties
  <2>2. 1 \in Results(h)
    BY <1>4, <2>1 DEF Results, At
  <2>3. ASSUME NEW i \in Results(p) PROVE FALSE
    <3>1. i \in Nat /\ i + 1 \in Results(h)
      BY <1>1
    <3>2. i + 1 = 1
      BY <2>2, <3>1 DEF Alone
    <3>3. i \in 1 .. Len(p) /\ Len(p) \in Nat
      <4>1. p \in Seq(DomainEvent)
        BY HeadTailProperties
      <4>2. QED
        BY <4>1, LenProperties DEF Results, At
    <3>4. QED
      BY <3>2, <3>3
  <2>4. QED
    BY <2>2, <2>3 DEF Alone, Quiet
<1>5. Quiet(h, A, T) => Quiet(p, A, T)
  BY <1>1 DEF Quiet
<1>6. ASSUME NEW x, Without(h, x) PROVE Without(p, x)
  <2>1. \A i \in At(p, ChainEvents) : i + 1 \in At(h, ChainEvents) /\ p[i] = h[i + 1]
    BY TailElements
  <2>2. QED
    BY <1>6, <2>1 DEF Without
<1>7. QED
  BY <1>3, <1>4, <1>5, <1>6

LEMMA SoloTaken ==
  ASSUME NEW h \in Seq(DomainEvent), h # << >>, NEW p, p = Tail(h),
         h[1].id \notin ChainEvents, NEW A, NEW T, NEW w, NEW g, NEW running, NEW out,
         NEW done, Solo(h, A, T, w, g, running, out, done)
  PROVE  Solo(p, A, T, w, g, running, out, done)
<1>1. /\ Alone(p, A, T) /\ (Quiet(h, A, T) => Quiet(p, A, T))
      /\ \A x : Without(h, x) => Without(p, x)
  BY TailAlone DEF Solo
<1>2. \A j \in At(h, ChainEvents) : j # 1
  BY DEF At
<1>3. Without(p, "STEP_TIMEOUT") => Without(h, "STEP_TIMEOUT")
  <2>1. \A j \in At(h, ChainEvents) : \E i \in At(p, ChainEvents) : p[i] = h[j]
    BY <1>2, TailCovers
  <2>2. QED
    BY <2>1 DEF Without
<1>4. \A i \in Results(p) : i + 1 \in Results(h) /\ p[i] = h[i + 1]
  <2>1. \A i \in At(p, UnitEvents) : i + 1 \in At(h, UnitEvents) /\ p[i] = h[i + 1]
    BY TailElements
  <2>2. QED
    BY <2>1 DEF Results
<1>5. Earned(h, A, T, w, g, out, done) => Earned(p, A, T, w, g, out, done)
  BY <1>4 DEF Earned
<1>6. QED
  BY <1>1, <1>3, <1>5 DEF Solo

(* An event between runners or a timeout is published.                     *)
LEMMA AppendAlone ==
  ASSUME NEW p \in Seq(DomainEvent), NEW e \in DomainEvent, e.id \notin UnitEvents,
         NEW q, Added(p, e, q), NEW A, NEW T
  PROVE  /\ Alone(p, A, T) => Alone(q, A, T)
         /\ Quiet(p, A, T) => Quiet(q, A, T)
         /\ \A x : (Without(p, x) /\ (e.id \in ChainEvents => e.error # x)) => Without(q, x)
         /\ \A x : Without(q, x) =>
              Without(p, x) /\ (e.id \in ChainEvents => e.error # x)
         /\ \A i \in Results(q) : i \in Results(p) /\ q[i] = p[i]
<1>1. \A i \in Results(q) : i \in Results(p) /\ q[i] = p[i]
  BY AppendElements DEF Results
<1>2. /\ Alone(p, A, T) => Alone(q, A, T)
      /\ Quiet(p, A, T) => Quiet(q, A, T)
  BY <1>1 DEF Alone, Quiet
<1>3. /\ \A i \in At(q, ChainEvents) : \/ i \in At(p, ChainEvents) /\ q[i] = p[i]
                                       \/ q[i] = e /\ e.id \in ChainEvents
      /\ \A i \in At(p, ChainEvents) : i \in At(q, ChainEvents) /\ q[i] = p[i]
      /\ e.id \in ChainEvents => \E i \in At(q, ChainEvents) : q[i] = e
  BY AppendElements
<1>4. ASSUME NEW x
      PROVE  Without(q, x) <=> Without(p, x) /\ (e.id \in ChainEvents => e.error # x)
  BY <1>3 DEF Without
<1>5. QED
  BY <1>1, <1>2, <1>4

(* A runner publishes how its part of the workflow ended.                  *)
LEMMA SoloPushed ==
  ASSUME NEW p \in Seq(DomainEvent), NEW e \in DomainEvent, e.id \in ChainEvents,
         NEW q, Added(p, e, q), e.error # "UNIT_REJECTED",
         NEW A, NEW T, NEW w, NEW g, NEW running, ~running, NEW out, NEW done,
         Alone(p, A, T), Without(p, "UNIT_REJECTED"),
         e.error # "STEP_TIMEOUT" => Quiet(p, A, T),
         1 .. out.completed_step_count \subseteq done, out.error # "UNIT_REJECTED"
  PROVE  Solo(q, A, T, w, g, running, out, done)
<1>1. e.id \notin UnitEvents
  BY KindsDiffer
<1>2. /\ Alone(q, A, T) /\ Without(q, "UNIT_REJECTED")
      /\ Without(q, "STEP_TIMEOUT") => e.error # "STEP_TIMEOUT"
      /\ Quiet(p, A, T) => Quiet(q, A, T)
  BY <1>1, AppendAlone
<1>3. QED
  BY <1>2 DEF Solo

(* A unit begins the next step.                                            *)
LEMMA SoloBegan ==
  ASSUME NEW p, NEW A, NEW T, Quiet(p, A, T), NEW u \in Units, NEW B, B = A \cup {u},
         NEW w, NEW f, DOMAIN f = Units, NEW g, NEW running, running, NEW out, NEW done,
         g = [f EXCEPT ![u] = <<out.request_id, out.completed_step_count + 1>>],
         1 .. out.completed_step_count \subseteq done, out.error # "UNIT_REJECTED",
         Without(p, "UNIT_REJECTED")
  PROVE  Solo(p, B, T, w, g, running, out, done) /\ DOMAIN g = Units
<1>1. B = {u} /\ T = {} /\ Results(p) = {}
  BY DEF Quiet
<1>2. g[u] = <<out.request_id, out.completed_step_count + 1>> /\ DOMAIN g = Units
  OBVIOUS
<1>3. Alone(p, B, T)
  BY <1>1 DEF Alone
<1>4. Earned(p, B, T, w, g, out, done)
  BY <1>1, <1>2 DEF Earned
<1>5. QED
  BY <1>2, <1>3, <1>4 DEF Solo

(* The step that was waited for is counted: its unit succeeded.            *)
LEMMA OneMoreDone ==
  ASSUME NEW c \in Nat, NEW done, 1 .. c \subseteq done, c + 1 \in done
  PROVE  1 .. (c + 1) \subseteq done
<1>1. \A i \in 1 .. (c + 1) : i \in 1 .. c \/ i = c + 1
  OBVIOUS
<1>2. QED
  BY <1>1

LEMMA NoChainWithout ==
  ASSUME NEW c, NoChain(c) PROVE \A x : Without(c.pending, x)
  BY DEF NoChain, Without, At

(* Every unit takes an input when none has one.                            *)
LEMMA NoneRejects ==
  ASSUME UnitShape, Reports, Asked = {}
  PROVE  \A u \in Units : Accepts(u)
<1> SUFFICES ASSUME NEW u \in Units PROVE Accepts(u)
  OBVIOUS
<1>1. unit[u].status # "RUNNING"
  BY DEF UnitShape
<1>2. unit[u].result_output # Null
  BY UnitAssumption, DomainAssumption DEF Reports
<1>3. QED
  BY <1>1, <1>2 DEF Accepts

LEMMA NothingTimedOut ==
  ASSUME reports' = reports, ~TimedOut' PROVE ~TimedOut
  BY DEF TimedOut

LEMMA NoneReported ==
  ASSUME reports \in Seq(Report), NEW r, reports' = Append(reports, r), ~TimedOut'
  PROVE  ~TimedOut /\ r.error # "STEP_TIMEOUT"
<1>1. PICK s : s = Append(reports, r)
  OBVIOUS
<1>2. PICK n \in Nat : n = Len(reports)
  BY LenProperties
<1>3. /\ DOMAIN reports = 1 .. n /\ DOMAIN s = 1 .. n + 1 /\ s[n + 1] = r
      /\ \A i \in 1 .. n : s[i] = reports[i]
  BY <1>1, <1>2, LenProperties, AppendProperties
<1>4. 1 .. n \subseteq 1 .. n + 1 /\ n + 1 \in 1 .. n + 1
  OBVIOUS
<1>5. \A i \in DOMAIN s : s[i].error # "STEP_TIMEOUT"
  BY <1>1 DEF TimedOut
<1>6. QED
  BY <1>3, <1>4, <1>5 DEF TimedOut

(* A step that changes nothing of this.                                    *)
LEMMA SoloKept ==
  ASSUME SoloNow, channel'.pending = channel.pending, Asked' = Asked,
         Telling' = Telling, ResultsKept, purpose' = purpose,
         sequence'.step_running = sequence.step_running,
         output'.request_id = output.request_id,
         output'.completed_step_count = output.completed_step_count,
         output'.error = output.error, succeeded \subseteq succeeded'
  PROVE  SoloNow'
<1>1. PICK p, A, T, out, done, g :
        /\ p = channel.pending /\ A = Asked /\ T = Telling /\ out = output
        /\ done = succeeded /\ g = purpose
  OBVIOUS
<1>2. PICK w, v : w = worker /\ v = worker'
  OBVIOUS
<1>3. PICK o, d : o = output' /\ d = succeeded'
  OBVIOUS
<1>4. Solo(p, A, T, w, g, sequence.step_running, out, done)
  BY <1>1, <1>2 DEF SoloNow
<1>5. \A u \in T : v[u].result.error = w[u].result.error
  BY <1>1, <1>2 DEF ResultsKept, Telling
<1>6. Earned(p, A, T, w, g, out, done) => Earned(p, A, T, v, g, o, d)
  BY <1>1, <1>3, <1>5 DEF Earned
<1>7. 1 .. out.completed_step_count \subseteq done =>
        1 .. o.completed_step_count \subseteq d
  BY <1>1, <1>3
<1>8. Solo(p, A, T, v, g, sequence.step_running, o, d)
  BY <1>1, <1>3, <1>4, <1>6, <1>7 DEF Solo
<1>9. QED
  BY <1>1, <1>2, <1>3, <1>8 DEF SoloNow

LEMMA PushedSolo ==
  ASSUME UnitShape, NEW p \in Seq(DomainEvent), NEW error, Pushed(p, error),
         error # "UNIT_REJECTED", Alone(p, Asked, Telling),
         Without(p, "UNIT_REJECTED"),
         error # "STEP_TIMEOUT" => Quiet(p, Asked, Telling),
         succeeded' = succeeded, 1 .. output'.completed_step_count \subseteq succeeded,
         output'.error # "UNIT_REJECTED"
  PROVE  SoloNow' /\ purpose' = purpose
<1>1. PICK e \in DomainEvent :
        e.id \in ChainEvents /\ e.error = error /\ channel'.pending = Append(p, e)
  BY DEF Pushed
<1>2. PICK q : q = channel'.pending
  OBVIOUS
<1>3. Added(p, e, q)
  BY <1>1, <1>2 DEF Added
<1>4. UNCHANGED <<unit, worker, purpose>> /\ ~sequence'.step_running
  BY DEF Pushed, UnitsUntouched, unitVars
<1>5. Asked' = Asked /\ Telling' = Telling
  BY <1>4, UntouchedOwes
<1>6. PICK A, T, w, g, done, out, running :
        /\ A = Asked /\ T = Telling /\ w = worker /\ g = purpose /\ done = succeeded
        /\ out = output' /\ running = sequence'.step_running
  OBVIOUS
<1>7. /\ ~running /\ Alone(p, A, T) /\ (e.error # "STEP_TIMEOUT" => Quiet(p, A, T))
      /\ 1 .. out.completed_step_count \subseteq done /\ out.error # "UNIT_REJECTED"
      /\ e.error # "UNIT_REJECTED"
  BY <1>1, <1>4, <1>6
<1>8. Solo(q, A, T, w, g, running, out, done)
  BY <1>1, <1>3, <1>7, SoloPushed
<1>9. QED
  BY <1>2, <1>4, <1>5, <1>6, <1>8 DEF SoloNow

LEMMA OutcomeSolo ==
  ASSUME UnitShape, Reports, DOMAIN purpose = Units, NEW p, StepOutcome(p, output'),
         Quiet(p, Asked, Telling), Without(p, "UNIT_REJECTED"),
         succeeded' = succeeded, 1 .. output'.completed_step_count \subseteq succeeded,
         output'.error # "UNIT_REJECTED"
  PROVE  SoloNow' /\ DOMAIN purpose' = Units
<1>1. \A u \in Units : Accepts(u)
  BY NoneRejects DEF Quiet
<1>2. PICK out : out = output'
  OBVIOUS
<1>3. channel'.pending = p /\ \E u \in Units : Began(u, out)
  BY <1>1, <1>2 DEF StepOutcome, Refused
<1>4. PICK u \in Units : Began(u, out)
  BY <1>3
<1>5. /\ Asked' = Asked \cup {u} /\ Telling' = Telling /\ sequence'.step_running
      /\ purpose' = [purpose EXCEPT
           ![u] = <<out.request_id, out.completed_step_count + 1>>]
  BY <1>4 DEF Began
<1>6. PICK A, T, B, f, g, done, running :
        /\ A = Asked /\ T = Telling /\ B = Asked' /\ f = purpose /\ g = purpose'
        /\ done = succeeded /\ running = sequence'.step_running
  OBVIOUS
<1>7. PICK w : w = worker'
  OBVIOUS
<1>8. /\ Quiet(p, A, T) /\ B = A \cup {u} /\ DOMAIN f = Units /\ running
      /\ g = [f EXCEPT ![u] = <<out.request_id, out.completed_step_count + 1>>]
      /\ 1 .. out.completed_step_count \subseteq done /\ out.error # "UNIT_REJECTED"
  BY <1>2, <1>5, <1>6
<1>9. Solo(p, B, T, w, g, running, out, done) /\ DOMAIN g = Units
  BY <1>8, SoloBegan
<1>10. QED
  BY <1>2, <1>3, <1>5, <1>6, <1>7, <1>9 DEF SoloNow

LEMMA HandlerSolo ==
  ASSUME DomainInv, QueueHasRoom, UnitShape, SoloInv, RunHandler
  PROVE  SoloInv'
<1>1. PICK p : p = popped.pending
  OBVIOUS
<1>2. PICK h : h = channel.pending
  OBVIOUS
<1>3. /\ h # << >> /\ event = h[1] /\ p = Tail(h)
      /\ control.at = "dispatch" /\ UNCHANGED <<alive, succeeded>>
      /\ Continues(event, p) \/ Closes(event, p)
  BY <1>1, <1>2, HandlerEffect
<1>4. h \in Seq(DomainEvent) /\ p \in Seq(DomainEvent)
  <2>1. h \in Seq(DomainEvent)
    BY <1>2, HandlerEffect DEF ChannelRec
  <2>2. QED
    BY <1>3, <2>1, HeadTailProperties
<1>5. /\ RunnersInv /\ output \in OutputRec /\ reports \in Seq(Report)
      /\ channel \in ChannelRec /\ DOMAIN purpose = Units
  BY DEF DomainInv, RunnersInv, RunnersType, RestType, SoloInv
<1>6. alive = "yes" /\ alive' = "yes" /\ Reports
  BY <1>3 DEF SoloInv, DomainInv, UnitInv
<1>7. PICK e : e = event
  OBVIOUS
<1>8. e = h[1]
  BY <1>3, <1>7
<1>9. DOMAIN purpose' = Units
  <2>1. \A u, x : DOMAIN [purpose EXCEPT ![u] = x] = Units
    BY <1>5
  <2>2. UnitsUntouched => DOMAIN purpose' = Units
    BY <1>5 DEF UnitsUntouched
  <2>3. \A u, out : Began(u, out) => DOMAIN purpose' = Units
    BY <2>1 DEF Began
  <2>4. QED
    BY <1>3, <2>2, <2>3 DEF Continues, Ignores, CountsStep, FailsRunning, PassesOn,
       Closes, StepOutcome, Refused, Pushed
<1>10. ASSUME ~TimedOut' PROVE SoloNow'
  <2>1. ASSUME Continues(e, p) PROVE ~TimedOut
    <3>1. reports' = reports
      BY <2>1 DEF Continues, Ignores, CountsStep, FailsRunning, PassesOn
    <3>2. QED
      BY <1>10, <3>1, NothingTimedOut
  <2>2. ASSUME Closes(e, p) PROVE ~TimedOut /\ e.error # "STEP_TIMEOUT"
    <3>1. PICK r : r.error = e.error /\ reports' = Append(reports, r)
      BY <2>2 DEF Closes
    <3>2. QED
      BY <1>5, <1>10, <3>1, NoneReported
  <2>3. SoloNow
    BY <1>3, <1>7, <2>1, <2>2 DEF SoloInv
  <2>4. PICK A, T, w, g, done, out, running :
          /\ A = Asked /\ T = Telling /\ w = worker /\ g = purpose
          /\ done = succeeded /\ out = output /\ running = sequence.step_running
    OBVIOUS
  <2>5. Solo(h, A, T, w, g, running, out, done)
    BY <1>2, <2>3, <2>4 DEF SoloNow
  <2>6. /\ Alone(p, A, T)
        /\ e.id \in UnitEvents => Quiet(p, A, T)
        /\ Quiet(h, A, T) => Quiet(p, A, T)
        /\ \A x : Without(h, x) => Without(p, x)
    BY <1>3, <1>4, <1>8, <2>5, TailAlone DEF Solo
  <2>7. /\ Without(p, "UNIT_REJECTED") /\ out.error # "UNIT_REJECTED"
        /\ 1 .. out.completed_step_count \subseteq done
    BY <2>5, <2>6 DEF Solo
  <2>8. ASSUME e.id \in ChainEvents
        PROVE  /\ e.error # "UNIT_REJECTED" /\ ~running
               /\ e.error # "STEP_TIMEOUT" => Quiet(p, A, T)
    <3>1. Len(h) \in Nat /\ Len(h) # 0 /\ DOMAIN h = 1 .. Len(h)
      BY <1>3, <1>4, EmptySeq, LenProperties
    <3>2. 1 \in At(h, ChainEvents)
      BY <1>8, <2>8, <3>1 DEF At
    <3>3. e.error # "UNIT_REJECTED"
      BY <1>8, <2>5, <3>2 DEF Solo, Without
    <3>4. ~NoChain(channel)
      BY <1>2, <1>8, <2>8, <3>1 DEF NoChain
    <3>5. PICK x : OneChain(channel, x)
      BY <1>5, <3>4, ChainAlone
    <3>6. \A i \in At(h, ChainEvents) : h[i] = h[1]
      BY <1>2, <3>2, <3>5 DEF OneChain, At
    <3>7. e.error # "STEP_TIMEOUT" => Without(h, "STEP_TIMEOUT")
      BY <1>8, <3>6 DEF Without
    <3>8. ~running
      BY <1>5, <2>4, <3>4, ChainAlone
    <3>9. QED
      BY <2>5, <2>6, <3>3, <3>7, <3>8 DEF Solo
  <2>9. CASE Ignores(e, p)
    <3>1. Solo(p, A, T, w, g, running, out, done)
      BY <1>3, <1>4, <1>8, <2>5, <2>9, SoloTaken DEF Ignores
    <3>2. Asked' = A /\ Telling' = T
      BY <2>4, <2>9, UntouchedOwes DEF Ignores, UnitsUntouched, unitVars
    <3>3. /\ channel'.pending = p /\ worker' = w /\ purpose' = g /\ output' = out
          /\ sequence'.step_running = running /\ succeeded' = done
      BY <1>3, <2>4, <2>9 DEF Ignores, UnitsUntouched, unitVars
    <3>4. QED
      BY <3>1, <3>2, <3>3 DEF SoloNow
  <2>10. CASE CountsStep(e, p)
    <3>1. /\ running /\ e.id = "UNIT_COMPLETED"
          /\ output'.completed_step_count = out.completed_step_count + 1
          /\ output'.error = out.error
          /\ StepOutcome(p, output') \/ Pushed(p, "NONE")
      BY <2>4, <2>10 DEF CountsStep
    <3>2. Quiet(p, A, T)
      BY <2>6, <3>1 DEF UnitEvents
    <3>3. out.completed_step_count + 1 \in done
      <4>1. 1 \in Results(h)
        <5>1. Len(h) \in Nat /\ Len(h) # 0 /\ DOMAIN h = 1 .. Len(h)
          BY <1>3, <1>4, EmptySeq, LenProperties
        <5>2. QED
          BY <1>8, <3>1, <5>1 DEF Results, At, UnitEvents
      <4>2. Earned(h, A, T, w, g, out, done)
        BY <2>5, <3>1 DEF Solo
      <4>3. QED
        BY <1>8, <3>1, <4>1, <4>2 DEF Earned
    <3>4. 1 .. output'.completed_step_count \subseteq done
      <4>1. PICK c \in Nat : c = out.completed_step_count
        BY <1>5, <2>4 DEF OutputRec
      <4>2. 1 .. (c + 1) \subseteq done
        BY <2>7, <3>3, <4>1, OneMoreDone
      <4>3. QED
        BY <3>1, <4>1, <4>2
    <3>5. /\ output'.error # "UNIT_REJECTED" /\ Quiet(p, Asked, Telling)
          /\ 1 .. output'.completed_step_count \subseteq succeeded
          /\ Alone(p, Asked, Telling)
      BY <2>4, <2>6, <2>7, <3>1, <3>2, <3>4
    <3>6. ASSUME StepOutcome(p, output') PROVE SoloNow'
      BY <1>3, <1>5, <1>6, <2>7, <3>5, <3>6, OutcomeSolo
    <3>7. ASSUME Pushed(p, "NONE") PROVE SoloNow'
      BY <1>3, <1>4, <2>7, <3>5, <3>7, PushedSolo
    <3>8. QED
      BY <3>1, <3>6, <3>7
  <2>11. ASSUME NEW error, Pushed(p, error), error # "UNIT_REJECTED", output' = out,
                error # "STEP_TIMEOUT" => Quiet(p, A, T)
         PROVE  SoloNow'
    <3>1. /\ output'.error # "UNIT_REJECTED" /\ Alone(p, Asked, Telling)
          /\ 1 .. output'.completed_step_count \subseteq succeeded
          /\ error # "STEP_TIMEOUT" => Quiet(p, Asked, Telling)
      BY <2>4, <2>6, <2>7, <2>11
    <3>2. QED
      BY <1>3, <1>4, <2>7, <2>11, <3>1, PushedSolo
  <2>12. CASE FailsRunning(e, p)
    <3>1. output' = out
      BY <2>4, <2>12 DEF FailsRunning
    <3>2. CASE e.id = "UNIT_ERROR" /\ Pushed(p, "UNIT_FAILED")
      BY <2>6, <2>11, <3>1, <3>2 DEF UnitEvents
    <3>3. CASE e.id = "STEP_TIMEOUT" /\ Pushed(p, "STEP_TIMEOUT")
      BY <2>11, <3>1, <3>3
    <3>4. QED
      BY <2>12, <3>2, <3>3 DEF FailsRunning
  <2>13. CASE PassesOn(e, p)
    <3>1. output' = out /\ e.id \in ChainEvents
      BY <2>4, <2>13 DEF PassesOn
    <3>2. CASE Pushed(p, e.error)
      BY <2>8, <2>11, <3>1, <3>2
    <3>3. CASE e.error = "NONE" /\ StepOutcome(p, output)
      <4>1. /\ Quiet(p, Asked, Telling) /\ output'.error # "UNIT_REJECTED"
            /\ 1 .. output'.completed_step_count \subseteq succeeded
            /\ StepOutcome(p, output')
        <5>1. output' = output
          BY <2>4, <3>1
        <5>2. StepOutcome(p, output')
          BY <3>3, <5>1
        <5>3. QED
          BY <2>4, <2>7, <2>8, <3>1, <3>3, <5>2
      <4>2. QED
        BY <1>3, <1>5, <1>6, <2>7, <4>1, OutcomeSolo
    <3>4. QED
      BY <2>13, <3>2, <3>3 DEF PassesOn
  <2>14. CASE Closes(e, p)
    <3>1. /\ channel'.pending = p /\ sequence' = sequence /\ UnitsUntouched
          /\ output'.completed_step_count = out.completed_step_count
          /\ output'.error = e.error /\ e.id \in ChainEvents
      BY <2>4, <2>14 DEF Closes
    <3>2. Quiet(p, A, T) /\ ~running /\ e.error # "UNIT_REJECTED"
      BY <2>2, <2>8, <2>14, <3>1
    <3>3. Asked' = A /\ Telling' = T
      BY <2>4, <3>1, UntouchedOwes DEF UnitsUntouched, unitVars
    <3>4. PICK o : o = output'
      OBVIOUS
    <3>5. Solo(p, A, T, w, g, running, o, done)
      BY <2>6, <2>7, <3>1, <3>2, <3>4 DEF Solo
    <3>6. /\ worker' = w /\ purpose' = g /\ sequence'.step_running = running
          /\ succeeded' = done
      BY <1>3, <2>4, <3>1 DEF UnitsUntouched, unitVars
    <3>7. QED
      BY <3>1, <3>3, <3>4, <3>5, <3>6 DEF SoloNow
  <2>15. QED
    BY <1>3, <1>7, <2>9, <2>10, <2>12, <2>13, <2>14 DEF Continues
<1>11. QED
  BY <1>6, <1>9, <1>10 DEF SoloInv

LEMMA ProcessSolo ==
  ASSUME DomainInv, QueueHasRoom, UnitShape, SoloInv, Process
  PROVE  SoloInv'
<1>1. /\ alive = "yes" /\ UNCHANGED <<alive, reports, succeeded>>
      /\ \/ Starts \/ TimesOut
         \/ UNCHANGED <<channel, sequence, output>> /\ UnitsUntouched
  BY ProcessEffect
<1>2. Reports /\ DOMAIN purpose = Units /\ channel \in ChannelRec
  BY <1>1 DEF SoloInv, DomainInv, UnitInv, RunnersInv, RunnersType
<1>3. PICK p : p = channel.pending
  OBVIOUS
<1>4. p \in Seq(DomainEvent)
  BY <1>2, <1>3 DEF ChannelRec
<1>5. DOMAIN purpose' = Units
  <2>1. \A u, x : DOMAIN [purpose EXCEPT ![u] = x] = Units
    BY <1>2
  <2>2. UnitsUntouched => DOMAIN purpose' = Units
    BY <1>2 DEF UnitsUntouched
  <2>3. \A u, out : Began(u, out) => DOMAIN purpose' = Units
    BY <2>1 DEF Began
  <2>4. QED
    BY <1>1, <2>2, <2>3 DEF Starts, TimesOut, StepOutcome, Refused, Pushed
<1>6. ASSUME ~TimedOut' PROVE SoloNow'
  <2>1. SoloNow
    BY <1>1, <1>6, NothingTimedOut DEF SoloInv
  <2>2. PICK A, T, w, g, done, out, running :
          /\ A = Asked /\ T = Telling /\ w = worker /\ g = purpose
          /\ done = succeeded /\ out = output /\ running = sequence.step_running
    OBVIOUS
  <2>3. Solo(p, A, T, w, g, running, out, done)
    BY <1>3, <2>1, <2>2 DEF SoloNow
  <2>4. CASE Starts
    <3>1. ~running /\ NoChain(channel) /\ StepOutcome(p, output) /\ output' = output
      BY <1>3, <2>2, <2>4 DEF Starts
    <3>2. \A x : Without(p, x)
      BY <1>3, <3>1, NoChainWithout
    <3>3. Quiet(p, A, T)
      BY <2>3, <3>1, <3>2 DEF Solo
    <3>4. /\ StepOutcome(p, output') /\ Quiet(p, Asked, Telling)
          /\ 1 .. output'.completed_step_count \subseteq succeeded
          /\ output'.error # "UNIT_REJECTED"
      <4>1. StepOutcome(p, output')
        BY <3>1
      <4>2. QED
        BY <2>2, <2>3, <3>1, <3>3, <4>1 DEF Solo
    <3>5. QED
      BY <1>1, <1>2, <3>2, <3>4, OutcomeSolo
  <2>5. CASE TimesOut
    <3>1. PICK e \in DomainEvent :
            e.id = "STEP_TIMEOUT" /\ channel'.pending = Append(p, e)
      BY <1>3, <2>5 DEF TimesOut
    <3>2. PICK q : q = channel'.pending
      OBVIOUS
    <3>3. Added(p, e, q) /\ e.id \notin UnitEvents /\ e.id \notin ChainEvents
      BY <3>1, <3>2, KindsDiffer DEF Added, UnitEvents, TimeoutEvents
    <3>4. Asked' = A /\ Telling' = T
      BY <2>2, <2>5, UntouchedOwes DEF TimesOut, UnitsUntouched, unitVars
    <3>5. /\ worker' = w /\ purpose' = g /\ output' = out /\ succeeded' = done
          /\ running /\ sequence'.step_running
      BY <1>1, <2>2, <2>5 DEF TimesOut, UnitsUntouched, unitVars
    <3>6. /\ Alone(q, A, T) /\ Without(q, "UNIT_REJECTED")
          /\ \A i \in Results(q) : i \in Results(p) /\ q[i] = p[i]
      BY <1>4, <2>3, <3>3, AppendAlone DEF Solo
    <3>7. Earned(q, A, T, w, g, out, done)
      BY <2>3, <3>5, <3>6 DEF Solo, Earned
    <3>8. PICK still : still = sequence'.step_running
      OBVIOUS
    <3>9. Solo(q, A, T, w, g, still, out, done)
      BY <2>3, <3>5, <3>6, <3>7, <3>8 DEF Solo
    <3>10. QED
      BY <3>2, <3>4, <3>5, <3>8, <3>9 DEF SoloNow
  <2>6. CASE UNCHANGED <<channel, sequence, output>> /\ UnitsUntouched
    <3>1. Asked' = Asked /\ Telling' = Telling
      BY <2>6, UntouchedOwes DEF UnitsUntouched, unitVars
    <3>2. ResultsKept /\ purpose' = purpose
      BY <2>6 DEF ResultsKept, UnitsUntouched, unitVars
    <3>3. QED
      BY <1>1, <2>1, <2>6, <3>1, <3>2, SoloKept
  <2>7. QED
    BY <1>1, <2>4, <2>5, <2>6
<1>7. QED
  BY <1>1, <1>5, <1>6 DEF SoloInv

(* A worker that has the step finishes it.                                 *)
LEMMA FinishSolo ==
  ASSUME DomainInv, UnitShape, SoloNow, NEW u \in Units, Finish(u),
         DOMAIN purpose = Units
  PROVE  SoloNow'
<1>1. WorkerFinish(u) /\ UNCHANGED <<channel, sequence, output>>
  BY DEF Finish, service, runners
<1>2. PICK p, A, T, g, done, out, running :
        /\ p = channel.pending /\ A = Asked /\ T = Telling /\ g = purpose
        /\ done = succeeded /\ out = output /\ running = sequence.step_running
  OBVIOUS
<1>3. PICK w : w = worker
  OBVIOUS
<1>4. PICK v, f, d : v = worker' /\ f = purpose' /\ d = succeeded'
  OBVIOUS
<1>5. Solo(p, A, T, w, g, running, out, done)
  BY <1>2, <1>3 DEF SoloNow
<1>6. /\ u \in A /\ u \notin T /\ Asked' = A \ {u} /\ Telling' = T \cup {u}
  BY <1>1, <1>2, FinishTells DEF DomainInv, UnitInv
<1>7. A = {u} /\ T = {} /\ Results(p) = {}
  BY <1>5, <1>6 DEF Solo, Alone
<1>8. PICK B, S : B = {} /\ S = {u}
  OBVIOUS
<1>9. Asked' = B /\ Telling' = S
  BY <1>6, <1>7, <1>8
<1>10. done \subseteq d
  BY <1>2, <1>4 DEF Finish
<1>11. running /\ v[u].result.error = "NONE" => out.completed_step_count + 1 \in d
  <2> SUFFICES ASSUME running, v[u].result.error = "NONE"
               PROVE  out.completed_step_count + 1 \in d
    OBVIOUS
  <2>1. g[u] = <<out.request_id, out.completed_step_count + 1>>
    BY <1>5, <1>7 DEF Solo, Earned
  <2>2. purpose[u][1] = output.request_id
        /\ purpose[u][2] = out.completed_step_count + 1
    BY <1>2, <2>1
  <2>3. worker'[u].result.error = "NONE"
    BY <1>4
  <2>4. succeeded' = succeeded \cup {purpose[u][2]}
    BY <2>2, <2>3 DEF Finish
  <2>5. QED
    BY <1>4, <2>2, <2>4
<1>12. running => Earned(p, B, S, v, f, out, d)
  BY <1>7, <1>8, <1>11 DEF Earned
<1>13. Alone(p, B, S)
  BY <1>7, <1>8 DEF Alone
<1>14. running \/ ~Without(p, "STEP_TIMEOUT")
  BY <1>5, <1>6 DEF Solo, Quiet
<1>15. Solo(p, B, S, v, f, running, out, d)
  BY <1>5, <1>10, <1>12, <1>13, <1>14 DEF Solo
<1>16. channel'.pending = p /\ sequence'.step_running = running /\ output' = out
  BY <1>1, <1>2
<1>17. QED
  BY <1>4, <1>9, <1>15, <1>16 DEF SoloNow

(* It tells the result, or calls a publisher that is not the service's.    *)
LEMMA NotifySolo ==
  ASSUME DomainInv, UnitShape, SoloNow, NEW u \in Units, Notify(u) \/ NotifyFreed(u)
  PROVE  SoloNow'
<1>1. /\ WorkerNotify(u)
      /\ UNCHANGED <<sequence, output, purpose, succeeded>>
      /\ \/ channel' = channel
         \/ \E e \in DomainEvent :
              /\ channel'.pending = Append(channel.pending, e)
              /\ e.id \in UnitEvents /\ e.id \notin ChainEvents
              /\ e.id = "UNIT_COMPLETED" => worker[u].result.error = "NONE"
  <2>1. CASE Notify(u)
    BY <2>1, NotifyEffect DEF DomainInv, UnitInv
  <2>2. CASE NotifyFreed(u)
    BY <2>2 DEF NotifyFreed, service, runners, history
  <2>3. QED
    BY <2>1, <2>2
<1>2. PICK p, A, T, g, done, out, running :
        /\ p = channel.pending /\ A = Asked /\ T = Telling /\ g = purpose
        /\ done = succeeded /\ out = output /\ running = sequence.step_running
  OBVIOUS
<1>3. PICK w, v : w = worker /\ v = worker'
  OBVIOUS
<1>4. Solo(p, A, T, w, g, running, out, done) /\ p \in Seq(DomainEvent)
  BY <1>2, <1>3 DEF SoloNow, DomainInv, RunnersInv, RunnersType, ChannelRec
<1>5. u \in T /\ Telling' = T \ {u} /\ Asked' = A
  BY <1>1, <1>2, NotifyTells DEF DomainInv, UnitInv
<1>6. A = {} /\ T = {u} /\ Results(p) = {}
  BY <1>4, <1>5 DEF Solo, Alone
<1>7. PICK B, S : B = {} /\ S = {}
  OBVIOUS
<1>8. Asked' = B /\ Telling' = S
  BY <1>5, <1>6, <1>7
<1>9. running \/ ~Without(p, "STEP_TIMEOUT")
  BY <1>4, <1>5 DEF Solo, Quiet
<1>10. sequence'.step_running = running /\ output' = out /\ purpose' = g
       /\ succeeded' = done
  BY <1>1, <1>2
<1>11. CASE channel' = channel
  <2>1. Alone(p, B, S) /\ Earned(p, B, S, v, g, out, done)
    BY <1>6, <1>7 DEF Alone, Earned
  <2>2. Solo(p, B, S, v, g, running, out, done)
    BY <1>4, <1>9, <2>1 DEF Solo
  <2>3. channel'.pending = p
    BY <1>2, <1>11
  <2>4. QED
    BY <1>3, <1>8, <1>10, <2>2, <2>3 DEF SoloNow
<1>12. CASE channel' # channel
  <2>1. PICK e \in DomainEvent :
          /\ channel'.pending = Append(p, e)
          /\ e.id \in UnitEvents /\ e.id \notin ChainEvents
          /\ e.id = "UNIT_COMPLETED" => w[u].result.error = "NONE"
    BY <1>1, <1>2, <1>3, <1>12
  <2>2. PICK q : q = channel'.pending
    OBVIOUS
  <2>3. Added(p, e, q)
    BY <2>1, <2>2 DEF Added
  <2>4. ASSUME NEW x PROVE Without(q, x) <=> Without(p, x)
    <3>1. /\ \A i \in At(q, ChainEvents) : i \in At(p, ChainEvents) /\ q[i] = p[i]
          /\ \A i \in At(p, ChainEvents) : i \in At(q, ChainEvents) /\ q[i] = p[i]
      BY <1>4, <2>1, <2>3, AppendElements
    <3>2. QED
      BY <3>1 DEF Without
  <2>5. \A i \in Results(q) : q[i] = e
    BY <1>4, <1>6, <2>3, AppendElements DEF Results
  <2>6. \A i, j \in Results(q) : i = j
    <3>1. PICK n \in Nat : n = Len(p)
      BY <1>4, LenProperties
    <3>2. /\ DOMAIN p = 1 .. n /\ DOMAIN q = 1 .. n + 1
          /\ \A i \in 1 .. n : q[i] = p[i]
      BY <1>4, <2>1, <2>2, <3>1, LenProperties, AppendProperties
    <3>3. ASSUME NEW i \in Results(q) PROVE i = n + 1
      <4>1. i \in 1 .. n + 1 /\ q[i].id \in UnitEvents
        BY <3>2 DEF Results, At
      <4>2. i \notin 1 .. n
        BY <1>6, <3>2, <4>1 DEF Results, At
      <4>3. QED
        BY <4>1, <4>2
    <3>4. QED
      BY <3>3
  <2>7. Alone(q, B, S)
    BY <1>7, <2>6 DEF Alone
  <2>8. running => Earned(q, B, S, v, g, out, done)
    <3>1. running => (w[u].result.error = "NONE" => out.completed_step_count + 1 \in done)
      BY <1>4, <1>5 DEF Solo, Earned
    <3>2. QED
      BY <1>7, <2>1, <2>5, <3>1 DEF Earned
  <2>9. Solo(q, B, S, v, g, running, out, done)
    BY <1>4, <1>9, <2>4, <2>7, <2>8 DEF Solo
  <2>10. QED
    BY <1>3, <1>8, <1>10, <2>2, <2>9 DEF SoloNow
<1>13. QED
  BY <1>11, <1>12

LEMMA UnitsSolo ==
  ASSUME DomainInv, UnitShape, SoloInv, NEW u \in Units,
         Work(u) \/ Finish(u) \/ Notify(u) \/ NotifyFreed(u)
  PROVE  SoloInv'
<1>1. UNCHANGED <<alive, control, reports>>
  BY DEF Work, Finish, Notify, NotifyFreed, service, history
<1>2. DOMAIN purpose' = Units
  <2>1. \A v, x : DOMAIN [purpose EXCEPT ![v] = x] = Units
    BY DEF SoloInv
  <2>2. QED
    BY <2>1 DEF SoloInv, Work, Finish, Notify, NotifyFreed, history
<1>3. ASSUME ~TimedOut' PROVE SoloNow'
  <2>1. SoloNow /\ DOMAIN purpose = Units
    BY <1>1, <1>3, NothingTimedOut DEF SoloInv
  <2>2. CASE Work(u)
    <3>1. Asked' = Asked /\ Telling' = Telling /\ ResultsKept
      BY <2>2, WorkAsks DEF Work, DomainInv, UnitInv
    <3>2. UNCHANGED <<channel, sequence, output, purpose, succeeded>>
      BY <2>2 DEF Work, service, runners, history
    <3>3. QED
      BY <2>1, <3>1, <3>2, SoloKept
  <2>3. QED
    BY <2>1, <2>2, FinishSolo, NotifySolo
<1>4. QED
  BY <1>1, <1>2, <1>3 DEF SoloInv

(* A create sets only where the units report to.                           *)
LEMMA SubmitSolo ==
  ASSUME DomainInv, UnitShape, SoloNow, Submit
  PROVE  SoloNow'
<1>1. PICK id \in ControlIds, condition \in UNION {DOMAIN c : c \in Catalogs} :
        ServiceWriteInput(id, condition)
  BY DEF Submit
<1>2. /\ output.status # "RUNNING" /\ succeeded' = {} /\ output'.error = "NONE"
      /\ output'.completed_step_count = 0
      /\ UNCHANGED <<unit, worker, channel, purpose>>
      /\ sequence' = [sequence EXCEPT !.definition = Null]
  BY <1>1 DEF ServiceWriteInput, unitVars
<1>3. ~sequence.step_running /\ NoChain(channel) /\ sequence \in SequenceRec
  BY <1>2 DEF DomainInv, RunnersInv, RunnersType, Progress, Over
<1>4. ~sequence'.step_running
  BY <1>2, <1>3, SequenceForgets
<1>5. PICK p, A, T, g, w :
        /\ p = channel.pending /\ A = Asked /\ T = Telling /\ g = purpose /\ w = worker
  OBVIOUS
<1>6. \A x : Without(p, x)
  BY <1>3, <1>5, NoChainWithout
<1>7. Quiet(p, A, T) /\ Alone(p, A, T)
  BY <1>3, <1>5, <1>6 DEF SoloNow, Solo
<1>8. Asked' = A /\ Telling' = T
  BY <1>2, <1>5, UntouchedOwes
<1>9. PICK o, d, running : o = output' /\ d = succeeded' /\ running = sequence'.step_running
  OBVIOUS
<1>10. 1 .. o.completed_step_count \subseteq d
  BY <1>2, <1>9
<1>11. Solo(p, A, T, w, g, running, o, d)
  BY <1>2, <1>4, <1>6, <1>7, <1>9, <1>10 DEF Solo
<1>12. channel'.pending = p /\ worker' = w /\ purpose' = g
  BY <1>2, <1>5
<1>13. QED
  BY <1>8, <1>9, <1>11, <1>12 DEF SoloNow

LEMMA OthersSolo ==
  ASSUME DomainInv, UnitShape, SoloInv,
         \/ Create \/ CreateFails \/ Submit \/ Load \/ Destroy \/ CallbackReturns
         \/ ReleaseSlot \/ DispatchEnds \/ Tick \/ UNCHANGED vars
  PROVE  SoloInv'
<1>1. /\ channel \in ChannelRec /\ Bounded(channel) /\ sequence \in SequenceRec
      /\ control \in ControlRec /\ UnitType
  BY DEF DomainInv, UnitInv, RunnersInv, RunnersType, RestType
<1>2. reports' = reports /\ purpose' = purpose
  BY DEF Create, CreateFails, Submit, ServiceWriteInput, Load, LoadWorkflows, Destroy,
     CallbackReturns, ReleaseSlot, DispatchEnds, Tick, vars, history
<1>3. control'.at # "idle" => alive' = "yes"
  <2>1. CASE Create \/ CreateFails \/ Submit \/ Load \/ Destroy \/ Tick \/ UNCHANGED vars
    BY <2>1 DEF Create, CreateFails, Submit, ServiceWriteInput, Load, LoadWorkflows,
       Destroy, Tick, vars, service, SoloInv
  <2>2. CASE CallbackReturns \/ ReleaseSlot \/ DispatchEnds
    BY <2>2 DEF CallbackReturns, ReleaseSlot, DispatchEnds, service, SoloInv
  <2>3. QED
    BY <2>1, <2>2
<1>4. ASSUME SoloNow PROVE SoloNow'
  <2>1. CASE Submit
    BY <1>4, <2>1, SubmitSolo
  <2>2. CASE ~Submit
    <3>1. channel'.pending = channel.pending
      <4>1. CASE ReleaseSlot
        BY <1>1, <4>1, ReleasedFields DEF ReleaseSlot
      <4>2. CASE channel' = channel
        BY <4>2
      <4>3. QED
        BY <2>2, <4>1, <4>2 DEF Create, CreateFails, Load, LoadWorkflows, Destroy,
           CallbackReturns, DispatchEnds, Tick, vars
    <3>2. sequence'.step_running = sequence.step_running
      <4>1. CASE sequence' = [sequence EXCEPT !.definition = Null]
        BY <1>1, <4>1, SequenceForgets
      <4>2. CASE sequence' = sequence
        BY <4>2
      <4>3. QED
        BY <2>2, <4>1, <4>2 DEF Create, CreateFails, Load, LoadWorkflows, Destroy,
           CallbackReturns, ReleaseSlot, DispatchEnds, Tick, vars, service, runners
    <3>3. output' = output /\ succeeded' = succeeded /\ worker' = worker
      BY <2>2 DEF Create, CreateFails, Load, LoadWorkflows, Destroy, CallbackReturns,
         ReleaseSlot, DispatchEnds, Tick, vars, service, history, unitVars
    <3>4. Asked' = Asked /\ Telling' = Telling /\ ResultsKept
      <4>1. CASE Create \/ CreateFails
        BY <1>1, <4>1, RegisteredAsks
      <4>2. CASE UNCHANGED unitVars
        BY <4>2, UntouchedAsks DEF unitVars
      <4>3. QED
        BY <2>2, <4>1, <4>2 DEF Load, LoadWorkflows, Destroy, CallbackReturns,
           ReleaseSlot, DispatchEnds, Tick, vars
    <3>5. QED
      BY <1>2, <1>4, <3>1, <3>2, <3>3, <3>4, SoloKept
  <2>3. QED
    BY <2>1, <2>2
<1>5. QED
  BY <1>2, <1>3, <1>4, NothingTimedOut DEF SoloInv

LEMMA SoloStep ==
  ASSUME DomainInv, QueueHasRoom, UnitShape, SoloInv, [Next]_vars
  PROVE  SoloInv'
<1>1. CASE RunHandler
  BY <1>1, HandlerSolo
<1>2. CASE Process
  BY <1>2, ProcessSolo
<1>3. ASSUME NEW u \in Units, Work(u) \/ Finish(u) \/ Notify(u) \/ NotifyFreed(u)
      PROVE  SoloInv'
  BY <1>3, UnitsSolo
<1>4. CASE \/ Create \/ CreateFails \/ Submit \/ Load \/ Destroy \/ CallbackReturns
           \/ ReleaseSlot \/ DispatchEnds \/ Tick \/ UNCHANGED vars
  BY <1>4, OthersSolo
<1>5. QED
  BY <1>1, <1>2, <1>3, <1>4 DEF Next, Dispatching

LEMMA SoloInit == Init => SoloInv
<1> SUFFICES ASSUME Init PROVE SoloInv
  OBVIOUS
<1>1. /\ channel = Channel!EmptyChannel /\ UnitInit /\ control.at = "idle"
      /\ purpose = [u \in Units |-> << >>] /\ output.completed_step_count = 0
      /\ output.error = "NONE" /\ ~sequence.step_running
  BY DEF Init
<1>2. PICK p : p = channel.pending
  OBVIOUS
<1>3. p = << >>
  BY <1>1, <1>2 DEF Channel!EmptyChannel
<1>4. \A S : At(p, S) = {}
  BY <1>3 DEF At
<1>5. Results(p) = {} /\ \A x : Without(p, x)
  BY <1>4 DEF Results, Without
<1>6. Asked = {} /\ Telling = {}
  BY <1>1 DEF UnitInit, Asked, Telling
<1>7. Alone(p, Asked, Telling) /\ Quiet(p, Asked, Telling)
  BY <1>5, <1>6 DEF Alone, Quiet
<1>8. 1 .. output.completed_step_count \subseteq succeeded
  BY <1>1
<1>9. SoloNow
  BY <1>1, <1>2, <1>5, <1>7, <1>8 DEF SoloNow, Solo
<1>10. QED
  BY <1>1, <1>9 DEF SoloInv

LEMMA SequentialFromInv == SoloInv => SequentialUntilTimeout
<1> SUFFICES ASSUME SoloInv, ~TimedOut PROVE SequentialUntilTimeout
  BY DEF SequentialUntilTimeout
<1>1. SoloNow
  BY DEF SoloInv
<1>2. AllStepsSucceeded /\ output.error # "UNIT_REJECTED"
  BY <1>1 DEF SoloNow, Solo, AllStepsSucceeded
<1>3. \A u \in Units : Busy(u) => u \in Asked \cup Telling
  BY DEF Busy, Asked, Telling
<1>4. \A u, v \in Units : Busy(u) /\ Busy(v) => u = v
  BY <1>1, <1>3 DEF SoloNow, Solo, Alone
<1>5. QED
  BY <1>2, <1>4 DEF SequentialUntilTimeout

LEMMA EnoughHolds ==
  ASSUME QueueSuffices PROVE Spec => [](DomainInv /\ LoadInv /\ QueueHasRoom)
<1>1. Init => DomainInv /\ LoadInv
  BY InitInv, LoadInit
<1>2. DomainInv /\ LoadInv /\ [Next]_vars => (DomainInv /\ LoadInv)'
  BY LoadLeavesRoom, StepKeeps, LoadStepKeeps
<1>3. DomainInv /\ LoadInv => QueueHasRoom
  BY LoadLeavesRoom
<1>4. QED
  BY <1>1, <1>2, <1>3, PTL DEF Spec

-----------------------------------------------------------------------------
(* The theorems. The hypothesis []QueueHasRoom of the first six follows    *)
(* from QueueSuffices, a condition on the constants, in QueueNeverFills.   *)

LEMMA InvHolds == Spec /\ []QueueHasRoom => []DomainInv
<1>1. Init => DomainInv
  BY InitInv
<1>2. DomainInv /\ QueueHasRoom /\ [Next]_vars => DomainInv'
  BY StepKeeps
<1>3. QED
  BY <1>1, <1>2, PTL DEF Spec

(* A started workflow is moved on by exactly one thing, the step it waits  *)
(* for or one event from a runner to the next, and an ended one by none,   *)
(* whatever units, timeouts and late results do to the handlers of         *)
(* domain_service.c.                                                       *)
THEOREM OneTokenPerWorkflow == Spec /\ []QueueHasRoom => []WorkflowToken
<1>1. DomainInv => WorkflowToken
  BY TokenFromInv
<1>2. QED
  BY <1>1, InvHolds, PTL

(* The three runners' machines are in the states of the event under way,   *)
(* which belongs to the current request; domain_signal() is never refused. *)
THEOREM RunnersInStep == Spec /\ []QueueHasRoom => []RunnersAgree
<1>1. DomainInv /\ QueueHasRoom => RunnersAgree
  BY AgreementFromInv
<1>2. QED
  BY <1>1, InvHolds, PTL

(* COMPLETED means that every step of the scenario was counted, once, and  *)
(* ERROR that one was not and why, for every scenario the loader accepts.  *)
THEOREM OutputTellsTheTruth == Spec /\ []QueueHasRoom => []TerminalOutput
<1>1. DomainInv => TerminalOutput
  BY TerminalFromInv
<1>2. QED
  BY <1>1, InvHolds, PTL

(* control_on_feature_event() runs once for each accepted request, under   *)
(* its id and before the next is accepted.                                 *)
THEOREM OneReportPerRequest == Spec /\ []QueueHasRoom => []ReportsMatchRequests
<1>1. DomainInv => ReportsMatchRequests
  BY ReportsFromInv
<1>2. QED
  BY <1>1, InvHolds, PTL

(* Neither a runner nor a unit keeps a pointer to what loading another     *)
(* catalog or a failed create freed.                                       *)
THEOREM NoPointerDangles == Spec /\ []QueueHasRoom => []PointersAreLive
<1>1. DomainInv => PointersAreLive
  BY PointersFromInv
<1>2. QED
  BY <1>1, InvHolds, PTL

(* What Control reads after the end stays until it submits a new request:  *)
(* late results and timeouts are ignored.                                  *)
THEOREM TerminalOutputStays == Spec /\ []QueueHasRoom => TerminalIsFinal
<1>1. DomainInv /\ QueueHasRoom /\ [Next]_vars
        => [output.status \in {"COMPLETED", "ERROR"} /\ output' # output
             => output'.status = "RUNNING" /\ Len(requests') = Len(requests) + 1]_vars
  BY OutputStays, SubmitAdds DEF DomainInv
<1>2. QED
  BY <1>1, InvHolds, PTL DEF Spec, TerminalIsFinal

(* domain_signal() is never refused: with the queue and the dispatch       *)
(* budget above twice the units plus five (the code has 32 slots, and the  *)
(* ten units of its sample need 26) what is pending and what the units     *)
(* still owe always fit, however late Control dispatches.                  *)
THEOREM QueueNeverFills == ASSUME QueueSuffices PROVE Spec => []QueueHasRoom
<1>1. QED
  BY EnoughHolds, PTL

(* So domain_service.c keeps all of the above in every behaviour at all.   *)
THEOREM ServiceIsCorrect ==
  ASSUME QueueSuffices
  PROVE  Spec => /\ [](WorkflowToken /\ RunnersAgree /\ TerminalOutput)
                 /\ [](ReportsMatchRequests /\ PointersAreLive)
                 /\ TerminalIsFinal
<1>1. Spec => []QueueHasRoom
  BY EnoughHolds, PTL
<1>2. QED
  BY <1>1, OneTokenPerWorkflow, RunnersInStep, OutputTellsTheTruth,
     OneReportPerRequest, NoPointerDangles, TerminalOutputStays, PTL

(* As long as no request timed out, the steps that domain_service.c        *)
(* counts are steps whose unit really succeeded, units work one at a time, *)
(* and unit_mock_write_input() is never refused.                           *)
THEOREM OneUnitAtATime ==
  ASSUME QueueSuffices PROVE Spec => []SequentialUntilTimeout
<1>1. Init => SoloInv
  BY SoloInit
<1>2. DomainInv /\ LoadInv /\ QueueHasRoom /\ SoloInv /\ [Next]_vars => SoloInv'
  BY SoloStep DEF LoadInv
<1>3. SoloInv => SequentialUntilTimeout
  BY SequentialFromInv
<1>4. Spec => [](DomainInv /\ LoadInv /\ QueueHasRoom)
  BY EnoughHolds
<1>5. QED
  BY <1>1, <1>2, <1>3, <1>4, PTL DEF Spec

=============================================================================
