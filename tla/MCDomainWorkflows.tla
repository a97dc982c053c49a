------------------------- MODULE MCDomainWorkflows -------------------------
(* Small workflows for DomainWorkflows: the built-in catalog for two       *)
(* units, with two sequences of one step; in the file that Control may     *)
(* load, read by the loader, also one sequence of two. A timeout is one    *)
(* tick of the clock, or the largest there is.                             *)
EXTENDS DomainWorkflows

CONSTANTS u1, u2

MCUnits == {u1, u2}
MCUnitOf == <<u1, u2>>
MCRequestId == 0 .. 4

MCBuiltin == WorkflowFeatureA(MCUnitOf, 1)

(* The base description, one that differs in one field, and their parts.   *)
Timed(unit_number, timeout_ms) ==
  [unit |-> Primitive(unit_number), command |-> Text("execute"),
   timeout_ms |-> Primitive(timeout_ms)]
One(unit_number) == Timed(unit_number, 1)
Base ==
  [schema_version |-> Primitive(1),
   workflows |-> <<
     [feature |-> Primitive(1), condition |-> Primitive(2),
      scenario |->
        [id |-> Primitive(2), name |-> Text("reverse"),
         sequences |-> << [name |-> Text("first"), steps |-> <<One(2)>>],
                          [name |-> Text("second"), steps |-> <<Timed(1, U64Max)>>] >>]],
     [feature |-> Primitive(1), condition |-> Primitive(1),
      scenario |->
        [id |-> Primitive(3), name |-> Text("other"),
         sequences |-> << [name |-> Text("first"), steps |-> <<One(2), One(1)>>] >>]] >>]

Leaves ==
  {Absent, Primitive(0), Primitive(1), Primitive(2), Primitive(3), Primitive(U32Max + 1),
   Primitive(U64Max + 1), Primitive(NotInteger), Text("execute"), Text(Empty),
   Text(Escaped), Text("name"), Text("steps"), Text("id")}

Variants ==
  UNION {{[Base EXCEPT !.schema_version = l],
          [Base EXCEPT !.workflows[1].feature = l],
          [Base EXCEPT !.workflows[2].condition = l],
          [Base EXCEPT !.workflows[2].scenario.id = l],
          [Base EXCEPT !.workflows[1].scenario.name = l],
          [Base EXCEPT !.workflows[1].scenario.sequences[2].name = l],
          [Base EXCEPT !.workflows[2].scenario.sequences[1].steps[2].unit = l],
          [Base EXCEPT !.workflows[2].scenario.sequences[1].steps[1].command = l],
          [Base EXCEPT !.workflows[1].scenario.sequences[1].steps[1].timeout_ms = l]} :
           l \in Leaves}
  \cup {[Base EXCEPT !.workflows = << >>],
        [Base EXCEPT !.workflows[2].scenario.sequences = << >>],
        [Base EXCEPT !.workflows[1].scenario.sequences[2].steps = << >>]}

(* Texts that are no document, or not one of the schema.                   *)
MCBroken ==
  {[readable |-> "no", source |-> << >>], [readable |-> "short", source |-> << >>]}
  \cup {[readable |-> "yes", source |-> s] :
         s \in {<<Symbol("[")>>, <<Symbol("["), Symbol("]")>>, <<Primitive(1)>>,
                <<Symbol("{"), Symbol("]")>>, Tail(Rendered(Base)),
                Rendered(Base) \o <<Symbol("}")>>,
                Object(<< <<"schema_version", <<Primitive(1)>> >>,
                          <<"workflows", <<Primitive(1)>> >> >>),
                Object(<< <<"schema_version", <<Primitive(1)>> >>,
                          <<"workflows", Array(<< <<Primitive(1)>> >>)>> >>),
                Object(<< <<"schema_version", <<Primitive(1)>> >>,
                          <<"schema_version", <<Primitive(1)>> >>,
                          <<"workflows", Array(<<EntryText(Base.workflows[1])>>)>> >>)}}

MCFile ==
  LET On(u, timeout_ms) == [unit |-> u, timeout_ms |-> timeout_ms]
      Of(id, sequences) == [id |-> id, sequences |-> sequences, total_step_count |-> 2]
  IN <<Of(3, << <<On(u2, 1), On(u1, 1)>> >>), Of(2, << <<On(u2, 1)>>, <<On(u1, U64Max)>> >>)>>
MCCatalogs == {MCBuiltin, MCFile}

(* The file that Control may load says this, and the loader reads it so.   *)
ASSUME FileIsRead ==
  CatalogOf(LoadJsonFile(FreshHeap(0), "yes", Rendered(Base), UnitCount).value) = MCFile

-----------------------------------------------------------------------------
(* The validator accepts exactly the texts of values, here of depth two,   *)
(* and every one of those is tokenized as json_array_at() needs it.        *)
RECURSIVE Texts(_, _)
Texts(scalars, levels) ==
  IF levels = 0 THEN {<<s>> : s \in scalars}
  ELSE LET inner   == Texts(scalars, levels - 1)
           keys    == {s \in scalars : s.type = "STRING"}
           members == {<<k, Symbol(":")>> \o v : k \in keys, v \in inner}
           Contents(items) == {<< >>} \cup items
             \cup {i \o <<Symbol(",")>> \o j : i \in items, j \in items}
       IN inner
          \cup {<<Symbol("[")>> \o c \o <<Symbol("]")>> : c \in Contents(inner)}
          \cup {<<Symbol("{")>> \o c \o <<Symbol("}")>> : c \in Contents(members)}

Scalars == {Text(Empty), Primitive(1)}
Lexemes == Scalars \cup {Symbol(c) : c \in {"{", "}", "[", "]", ":", ","}}

ASSUME DocumentsAreValues ==
  LET texts == Texts(Scalars, 2) IN
  /\ \A s \in BoundedSeq(Lexemes, 5) : ValidateDocument(s) <=> s \in texts
  /\ \A s \in texts : ValidateDocument(s) /\ ValidatedTokenizes(s)

(* Nesting is followed to MaxDepth and no further.                         *)
Nested(n) == [i \in 1 .. 2 * n |-> Symbol(IF i <= n THEN "[" ELSE "]")]

ASSUME DepthIsBounded ==
  \A n \in 1 .. MaxDepth + 3 : ValidateDocument(Nested(n)) <=> n <= MaxDepth + 1

Json == INSTANCE JsonText

(* Both scans of the text agree where a number, literal or string ends.    *)
ASSUME ScansAgree ==
  /\ \A s \in BoundedSeq({"-", "0", "7", ".", "e", "+", ",", "t"}, 5) :
       Json!NumbersAreJson(s) /\ Json!PrimitivesEndAlike(s)
  /\ \A l \in Json!Literals, d \in {",", " ", "]"} : Json!PrimitivesEndAlike(l \o <<d>>)
  /\ \A s \in BoundedSeq({"\"", "\\", "u", "a", "NUL", "z"}, 5) :
       Json!StringsEndAlike(<<"\"">> \o s)
=============================================================================
