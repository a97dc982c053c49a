-------------------------- MODULE DomainWorkflows --------------------------
(***************************************************************************)
(* The Domain Service with the workflow files it loads, and before there   *)
(* is a service, a caller that loads a file, whatever allocation fails,    *)
(* and destroys the catalog it got.                                        *)
(***************************************************************************)
EXTENDS DomainService, WorkflowLoader

CONSTANTS
  Descriptions,    \* what files say, as records: see Rendered
  BrokenFiles,     \* other files: readable and source
  UnitCount,       \* length of the service's array of units
  UnitOf,          \* the unit of each unit number
  FeatureA,        \* DOMAIN_FEATURE_A
  MaxAllocations   \* bound: the last allocation that may fail

(* The service and the loader mean the same integers.                      *)
ASSUME WidthsAgree == IdSpace = U32Max + 1 /\ ClockSpace = U64Max + 1

Absent == Symbol("absent")

-----------------------------------------------------------------------------
(* Files. A description names the fields of each object; the field of a    *)
(* leaf is a lexeme, or Absent.                                            *)

Bracketed(left, items, right) ==
  LET separated == [i \in DOMAIN items |->
                      IF i = 1 THEN items[i] ELSE <<Symbol(",")>> \o items[i]]
  IN <<Symbol(left)>> \o FlattenSeq(separated) \o <<Symbol(right)>>

Array(items) == Bracketed("[", items, "]")

(* members: pairs of a key and a text.                                     *)
Object(members) ==
  LET present == SelectSeq(members, LAMBDA m : m[2] # <<Absent>>)
  IN Bracketed("{", [i \in DOMAIN present |->
                       <<Text(present[i][1]), Symbol(":")>> \o present[i][2]], "}")

StepText(s) ==
  Object(<< <<"unit", <<s.unit>> >>, <<"command", <<s.command>> >>,
            <<"timeout_ms", <<s.timeout_ms>> >> >>)

SequenceText(q) ==
  Object(<< <<"name", <<q.name>> >>,
            <<"steps", Array([i \in DOMAIN q.steps |-> StepText(q.steps[i])])>> >>)

ScenarioText(s) ==
  Object(<< <<"id", <<s.id>> >>, <<"name", <<s.name>> >>,
            <<"sequences",
              Array([i \in DOMAIN s.sequences |-> SequenceText(s.sequences[i])])>> >>)

EntryText(e) ==
  Object(<< <<"feature", <<e.feature>> >>, <<"condition", <<e.condition>> >>,
            <<"scenario", ScenarioText(e.scenario)>> >>)

Rendered(d) ==
  Object(<< <<"schema_version", <<d.schema_version>> >>,
            <<"workflows",
              Array([i \in DOMAIN d.workflows |-> EntryText(d.workflows[i])])>> >>)

(* The schema, without a parser.                                           *)
IsName(l) == l.type = "STRING" /\ l.text \notin {Empty, Escaped}
IsInteger(l, least, max) ==
  l.type = "PRIMITIVE" /\ least <= l.number /\ l.number <= max

StepConforms(s) ==
  /\ IsInteger(s.unit, 1, UnitCount)
  /\ s.command = Text("execute") /\ IsInteger(s.timeout_ms, 1, U64Max)

ScenarioConforms(s) ==
  /\ IsInteger(s.id, 1, U32Max) /\ IsName(s.name) /\ s.sequences # << >>
  /\ \A i \in DOMAIN s.sequences :
       /\ IsName(s.sequences[i].name) /\ s.sequences[i].steps # << >>
       /\ \A j \in DOMAIN s.sequences[i].steps : StepConforms(s.sequences[i].steps[j])

Conforms(d) ==
  /\ d.schema_version = Primitive(SchemaVersion) /\ d.workflows # << >>
  /\ \A i \in DOMAIN d.workflows :
       LET e == d.workflows[i] IN
       /\ IsInteger(e.feature, 1, U32Max) /\ IsInteger(e.condition, 0, U32Max)
       /\ ScenarioConforms(e.scenario)
       /\ \A j \in 1 .. i - 1 :
            LET f == d.workflows[j] IN
            /\ e.scenario.id # f.scenario.id
            /\ <<e.feature, e.condition>> # <<f.feature, f.condition>>

(* A name that is the key of another field of its object is taken for a    *)
(* second occurrence of that key.                                          *)
Ambiguous(d) ==
  \E i \in DOMAIN d.workflows :
    LET s == d.workflows[i].scenario IN
    \/ s.name.text \in {"id", "name", "sequences"}
    \/ \E j \in DOMAIN s.sequences : s.sequences[j].name.text \in {"name", "steps"}

(* What the service gets to see of a scenario, and of a catalog.           *)
Definition(s) ==
  [id |-> s.id, total_step_count |-> s.total_step_count,
   sequences |->
     [i \in DOMAIN s.sequences |->
        [j \in DOMAIN s.sequences[i].steps |->
           [unit |-> UnitOf[s.sequences[i].steps[j].unit],
            timeout_ms |-> s.sequences[i].steps[j].timeout_ms]]]]

CatalogOf(c) ==
  [k \in {k \in 0 .. U32Max : CatalogFinds(c, FeatureA, k)} |->
     Definition(CatalogFind(c, FeatureA, k))]

Described(d) ==
  LET Number(l) == l.number
      Of(k) == SelectSeq(d.workflows, LAMBDA e :
                 e.feature.number = FeatureA /\ e.condition.number = k)
      Sequences(s) ==
        [i \in DOMAIN s.sequences |-> [j \in DOMAIN s.sequences[i].steps |->
           [unit |-> UnitOf[s.sequences[i].steps[j].unit.number],
            timeout_ms |-> s.sequences[i].steps[j].timeout_ms.number]]]
  IN [k \in {k \in 0 .. U32Max : Of(k) # << >>} |->
        LET s == Of(k)[1].scenario IN
        [id |-> s.id.number, sequences |-> Sequences(s),
         total_step_count |-> Cardinality(UNION {{i} \X DOMAIN s.sequences[i].steps :
                                                   i \in DOMAIN s.sequences})]]

-----------------------------------------------------------------------------
(* domain_workflow_feature_a(): condition 1 runs the units in order,       *)
(* condition 2 in reverse, each in two sequences of one half.              *)
SampleScenario(id, units, timeout_ms) ==
  LET half == Len(units) \div 2
      Steps(part) ==
        [i \in DOMAIN part |-> [unit |-> part[i], timeout_ms |-> timeout_ms]]
  IN [id |-> id, total_step_count |-> Len(units),
      sequences |-> <<Steps(SubSeq(units, 1, half)),
                      Steps(SubSeq(units, half + 1, Len(units)))>>]

WorkflowFeatureA(units, timeout_ms) ==
  <<SampleScenario(1, units, timeout_ms), SampleScenario(2, Reverse(units), timeout_ms)>>

-----------------------------------------------------------------------------
VARIABLE caller    \* the caller's file, its heap, and what it was told

callerVars == <<vars, caller>>

WorkflowsInit ==
  /\ Init
  /\ caller = [at |-> "start", description |-> Null, failing |-> 0,
               heap |-> FreshHeap(0), result |-> "none", catalog |-> NoCatalog]

Loading(description, readable, source, failing) ==
  LET loaded == LoadJsonFile(FreshHeap(failing), readable, source, UnitCount) IN
  caller' = [at |-> "loaded", description |-> description, failing |-> failing,
             heap |-> loaded.heap, result |-> loaded.result, catalog |-> loaded.value]

CallerLoads ==
  /\ caller.at = "start" /\ alive = "no"
  /\ \A u \in Units : unit[u].result_output = Null
  /\ \E failing \in 0 .. MaxAllocations :
       \/ \E d \in Descriptions : Loading(d, "yes", Rendered(d), failing)
       \/ \E f \in BrokenFiles : Loading(Null, f.readable, f.source, failing)
  /\ UNCHANGED vars

CallerDestroys ==
  /\ caller.at = "loaded" /\ caller.result = "OK"
  /\ caller' = [caller EXCEPT !.at = "destroyed", !.catalog = NoCatalog,
                              !.heap = CatalogDestroy(@, caller.catalog)]
  /\ UNCHANGED vars

WorkflowsNext ==
  \/ caller.at = "start" /\ Next /\ UNCHANGED caller
  \/ CallerLoads \/ CallerDestroys

WorkflowsSpec == WorkflowsInit /\ [][WorkflowsNext]_callerVars /\ Fairness

-----------------------------------------------------------------------------
(* Properties.                                                             *)

OwnedBlocks(c) ==
  {c.block, c.entries_block}
  \cup UNION {LET s == c.entries[i].scenario IN
                {s.name_block, s.sequences_block}
                \cup UNION {{s.sequences[j].name_block, s.sequences[j].steps_block} :
                              j \in DOMAIN s.sequences} : i \in DOMAIN c.entries}

(* Whatever is wrong with a file, and whichever allocation fails, exactly  *)
(* the blocks of the catalog that is handed out stay allocated, and none   *)
(* is freed twice; destroying it frees them all.                           *)
HeapBalanced ==
  /\ ~caller.heap.misused
  /\ caller.heap.live = OwnedBlocks(caller.catalog) \ {NoBlock}
  /\ caller.at = "loaded" => (caller.result = "OK") = (caller.catalog # NoCatalog)

(* The two scans of the text and the searches through the token array      *)
(* together accept a text exactly if it says what the schema allows, no    *)
(* name being a key, and what they find is what it says.                   *)
LoadFollowsSchema ==
  caller.at = "loaded" /\ caller.description # Null /\ caller.failing = 0 =>
    LET d == caller.description IN
    /\ caller.result \in {"OK", "SCHEMA_ERROR"}
    /\ (caller.result = "OK") = (Conforms(d) /\ ~Ambiguous(d))
    /\ caller.result = "OK" => CatalogOf(caller.catalog) = Described(d)
=============================================================================
