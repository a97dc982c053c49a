--------------------------- MODULE WorkflowLoader ---------------------------
(***************************************************************************)
(* domain_workflow_loader.c from the token array on: the schema parsers,   *)
(* the catalog they build, its search and its destruction, with every heap *)
(* block they allocate and free.                                           *)
(*                                                                         *)
(* A parser takes the heap and returns it with its result and its value.   *)
(* A block is a number; NoBlock is the null pointer. At most one           *)
(* allocation of a call fails, any one.                                    *)
(***************************************************************************)
EXTENDS WorkflowJson

CONSTANT SchemaVersion   \* DOMAIN_WORKFLOW_SCHEMA_VERSION

NoBlock == 0

(* live: allocated blocks; until_failure: the number of allocations up to  *)
(* and including the one that fails, 0 for none; misused: some block was   *)
(* freed that was not allocated.                                           *)
FreshHeap(until_failure) ==
  [live |-> {}, until_failure |-> until_failure, misused |-> FALSE]

(* malloc(), calloc()                                                      *)
Allocate(heap) ==
  LET n == Cardinality(heap.live) + 1
      free == CHOOSE b \in 1 .. n : b \notin heap.live /\ 1 .. b - 1 \subseteq heap.live
      block == IF heap.until_failure = 1 THEN NoBlock ELSE free
  IN [block |-> block,
      heap  |-> [heap EXCEPT !.live = @ \cup ({block} \ {NoBlock}),
                             !.until_failure = IF @ = 0 THEN 0 ELSE @ - 1]]

Free(heap, block) ==
  [heap EXCEPT !.live = @ \ {block},
               !.misused = @ \/ block \notin heap.live \cup {NoBlock}]

FreeAll(heap, blocks) == FoldLeft(Free, heap, blocks)

Outcome(heap, result, value) == [heap |-> heap, result |-> result, value |-> value]

(* The loop of the parsers over an array, until an element fails. Parse    *)
(* gets the heap, the element and what is parsed so far.                   *)
ParseEach(heap, tokens, array, Parse(_, _, _)) ==
  LET RECURSIVE From(_, _, _)
      From(h, k, sofar) ==
        LET index  == ArrayAt(tokens, array, k)
            parsed == Parse(h, index, sofar)
        IN CASE k > tokens[array].child_count -> Outcome(h, "OK", sofar)
             [] index = NotFound -> Outcome(h, "SCHEMA_ERROR", sofar)
             [] parsed.result # "OK" -> Outcome(parsed.heap, parsed.result, sofar)
             [] OTHER -> From(parsed.heap, k + 1, Append(sofar, parsed.value))
  IN From(heap, 1, << >>)

IsArray(tokens, index) ==
  index # NotFound /\ tokens[index].type = "[" /\ tokens[index].child_count > 0

-----------------------------------------------------------------------------
NoCopy(heap) == [block |-> NoBlock, heap |-> heap]

CopyString(heap, token) ==
  IF token.type = "STRING" /\ token.text \notin {Empty, Escaped}
  THEN Allocate(heap) ELSE NoCopy(heap)

ObjectString(heap, tokens, object, key) ==
  LET index == ObjectFind(tokens, object, key)
  IN  IF index = NotFound THEN NoCopy(heap) ELSE CopyString(heap, tokens[index])

TextOf(tokens, object, key) == tokens[ObjectFind(tokens, object, key)].text

ParseStep(heap, tokens, object, unit_count) ==
  LET command == ObjectFind(tokens, object, "command")
      unit    == ObjectU32(tokens, object, "unit")
      timeout == ObjectU64(tokens, object, "timeout_ms")
      valid   == /\ tokens[object].type = "{"
                 /\ unit \in 1 .. unit_count
                 /\ command # NotFound /\ TokenEquals(tokens[command], "execute")
                 /\ timeout \notin {0, NotInteger}
  IN Outcome(heap, IF valid THEN "OK" ELSE "SCHEMA_ERROR",
             [unit |-> unit, timeout_ms |-> timeout])

(* parse_sequence(): out of memory for the name is a schema error.         *)
ParseSequence(heap, tokens, object, unit_count) ==
  LET steps == ObjectFind(tokens, object, "steps")
      name  == ObjectString(heap, tokens, object, "name")
      array == Allocate(name.heap)
      Parse(h, index, sofar) == ParseStep(h, tokens, index, unit_count)
      Finish(parsed) ==
        IF parsed.result # "OK"
        THEN Outcome(FreeAll(parsed.heap, <<name.block, array.block>>), parsed.result, << >>)
        ELSE Outcome(parsed.heap, "OK",
               [name |-> TextOf(tokens, object, "name"), name_block |-> name.block,
                steps |-> parsed.value, steps_block |-> array.block])
  IN CASE name.block = NoBlock \/ ~IsArray(tokens, steps) ->
            Outcome(Free(name.heap, name.block), "SCHEMA_ERROR", << >>)
       [] array.block = NoBlock ->
            Outcome(Free(array.heap, name.block), "NO_MEMORY", << >>)
       [] OTHER -> Finish(ParseEach(array.heap, tokens, steps, Parse))

(* Mistake: the names are forgotten.                                       *)
StepsBlocks(sequences) == [i \in DOMAIN sequences |-> sequences[i].steps_block]

SequenceBlocks(sequences) ==
  FlattenSeq([i \in DOMAIN sequences |->
                <<sequences[i].name_block, sequences[i].steps_block>>])

(* parse_sequences(): the sequences, their array and how many steps.       *)
ParseSequences(heap, tokens, index, unit_count) ==
  LET array == Allocate(heap)
      Parse(h, object, sofar) == ParseSequence(h, tokens, object, unit_count)
      Finish(parsed) ==
        IF parsed.result # "OK"
        THEN Outcome(FreeAll(parsed.heap, SequenceBlocks(parsed.value) \o <<array.block>>),
                     parsed.result, << >>)
        ELSE Outcome(parsed.heap, "OK",
               [sequences |-> parsed.value, sequences_block |-> array.block,
                total_step_count |->
                  FoldLeft(LAMBDA n, q : n + Len(q.steps), 0, parsed.value)])
  IN IF array.block = NoBlock THEN Outcome(array.heap, "NO_MEMORY", << >>)
     ELSE Finish(ParseEach(array.heap, tokens, index, Parse))

ParseScenario(heap, tokens, object, unit_count) ==
  LET sequences == ObjectFind(tokens, object, "sequences")
      name      == ObjectString(heap, tokens, object, "name")
      id        == ObjectU32(tokens, object, "id")
      valid     == /\ id \notin {0, NotInteger} /\ name.block # NoBlock
                   /\ IsArray(tokens, sequences)
      Finish(parsed) ==
        IF parsed.result # "OK"
        THEN Outcome(Free(parsed.heap, name.block), parsed.result, << >>)
        ELSE Outcome(parsed.heap, "OK",
               [id |-> id, name |-> TextOf(tokens, object, "name"), name_block |-> name.block,
                sequences |-> parsed.value.sequences,
                sequences_block |-> parsed.value.sequences_block,
                total_step_count |-> parsed.value.total_step_count])
  IN IF ~valid THEN Outcome(Free(name.heap, name.block), "SCHEMA_ERROR", << >>)
     ELSE Finish(ParseSequences(name.heap, tokens, sequences, unit_count))

DestroyScenario(heap, scenario) ==
  FreeAll(heap, SequenceBlocks(scenario.sequences)
                  \o <<scenario.name_block, scenario.sequences_block>>)

(* Mistake: only the search key is compared, not the scenario id.          *)
KeyIsDuplicate(entries, feature, condition, scenario_id) ==
  \E i \in DOMAIN entries :
    entries[i].feature = feature /\ entries[i].condition = condition

EntryIsDuplicate(entries, feature, condition, scenario_id) ==
  \E i \in DOMAIN entries :
    \/ entries[i].feature = feature /\ entries[i].condition = condition
    \/ entries[i].scenario.id = scenario_id

(* parse_entry(): entries are those parsed before it.                      *)
ParseEntry(heap, tokens, object, unit_count, entries) ==
  LET scenario  == ObjectFind(tokens, object, "scenario")
      feature   == ObjectU32(tokens, object, "feature")
      condition == ObjectU32(tokens, object, "condition")
      Finish(parsed) ==
        CASE parsed.result # "OK" -> parsed
          [] EntryIsDuplicate(entries, feature, condition, parsed.value.id) ->
               Outcome(DestroyScenario(parsed.heap, parsed.value), "SCHEMA_ERROR", << >>)
          [] OTHER ->
               Outcome(parsed.heap, "OK",
                 [feature |-> feature, condition |-> condition, scenario |-> parsed.value])
  IN IF feature \in {0, NotInteger} \/ condition = NotInteger \/ scenario = NotFound
     THEN Outcome(heap, "SCHEMA_ERROR", << >>)
     ELSE Finish(ParseScenario(heap, tokens, scenario, unit_count))

-----------------------------------------------------------------------------
(* The catalog and the public functions.                                   *)

NoCatalog == [block |-> NoBlock, entries_block |-> NoBlock, entries |-> << >>]

(* domain_workflow_catalog_destroy()                                       *)
CatalogDestroy(heap, catalog) ==
  FreeAll(FoldLeft(LAMBDA h, e : DestroyScenario(h, e.scenario), heap, catalog.entries),
          <<catalog.entries_block, catalog.block>>)

BuildCatalog(heap, tokens, unit_count) ==
  LET version   == ObjectFind(tokens, 1, "schema_version")
      workflows == ObjectFind(tokens, 1, "workflows")
      valid     == /\ version # NotFound /\ tokens[version].type = "PRIMITIVE"
                   /\ tokens[version].number = SchemaVersion
                   /\ IsArray(tokens, workflows)
      catalog   == Allocate(heap)
      array     == Allocate(catalog.heap)
      Parse(h, object, sofar) == ParseEntry(h, tokens, object, unit_count, sofar)
      Built(entries) ==
        [block |-> catalog.block, entries_block |-> array.block, entries |-> entries]
      Finish(parsed) ==
        IF parsed.result # "OK"
        THEN Outcome(CatalogDestroy(parsed.heap, Built(parsed.value)), parsed.result, NoCatalog)
        ELSE Outcome(parsed.heap, "OK", Built(parsed.value))
  IN CASE ~valid -> Outcome(heap, "SCHEMA_ERROR", NoCatalog)
       [] catalog.block = NoBlock -> Outcome(catalog.heap, "NO_MEMORY", NoCatalog)
       [] array.block = NoBlock ->
            Outcome(Free(array.heap, catalog.block), "NO_MEMORY", NoCatalog)
       [] OTHER -> Finish(ParseEach(array.heap, tokens, workflows, Parse))

(* read_json_file(): readable is what opening, sizing and reading the file *)
(* come to; "short" is a read that ends early.                             *)
ReadJsonFile(heap, readable) ==
  LET source == Allocate(heap) IN
  CASE readable = "no" -> Outcome(heap, "IO_ERROR", NoBlock)
    [] source.block = NoBlock -> Outcome(source.heap, "NO_MEMORY", NoBlock)
    [] readable = "short" -> Outcome(Free(source.heap, source.block), "IO_ERROR", NoBlock)
    [] OTHER -> Outcome(source.heap, "OK", source.block)

(* domain_workflow_catalog_load_json_file() for valid arguments.           *)
LoadJsonFile(heap, readable, source, unit_count) ==
  LET read   == ReadJsonFile(heap, readable)
      array  == Allocate(read.heap)
      parser == Tokenize(source)
      built  == IF ValidateDocument(source) /\ parser.ok
                THEN BuildCatalog(array.heap, parser.tokens, unit_count)
                ELSE Outcome(array.heap, "PARSE_ERROR", NoCatalog)
  IN CASE read.result # "OK" -> Outcome(read.heap, read.result, NoCatalog)
       [] array.block = NoBlock ->
            Outcome(Free(array.heap, read.value), "NO_MEMORY", NoCatalog)
       [] OTHER -> [built EXCEPT !.heap = FreeAll(@, <<array.block, read.value>>)]

(* domain_workflow_catalog_find()                                          *)
Matching(catalog, feature, condition) ==
  SelectSeq(catalog.entries,
            LAMBDA e : e.feature = feature /\ e.condition = condition)

CatalogFinds(catalog, feature, condition) ==
  Matching(catalog, feature, condition) # << >>

CatalogFind(catalog, feature, condition) ==
  Matching(catalog, feature, condition)[1].scenario
=============================================================================
