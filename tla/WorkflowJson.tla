---------------------------- MODULE WorkflowJson ----------------------------
(***************************************************************************)
(* The structural level of domain_workflow_loader.c: a text, as the        *)
(* sequence of its lexemes, is validated, then tokenized into a flat array *)
(* that keeps parent indices, then searched through that array.            *)
(*                                                                         *)
(* Lexemes carry their text, a primitive the integer it reads as. Their    *)
(* boundaries are JsonText's. Token indices start at 1; NotFound is the    *)
(* code's SIZE_MAX, as an index and as the parent of a root.               *)
(***************************************************************************)
EXTENDS Naturals, FiniteSets, SequencesExt

CONSTANTS
  MaxDepth,   \* depth of nesting the validator follows
  U32Max, U64Max

NotFound == 0
Invalid == 0

(* A primitive that is no integer literal: a fraction, true, -1.           *)
NotInteger == U64Max + 2

Symbol(c)    == [type |-> c, text |-> "", number |-> NotInteger]
Text(t)      == [type |-> "STRING", text |-> t, number |-> NotInteger]
Primitive(n) == [type |-> "PRIMITIVE", text |-> "", number |-> n]

(* Strings of which only the kind matters: with an escape, and empty.      *)
Escaped == "\\"
Empty   == ""

TypeAt(source, p) == IF p \in DOMAIN source THEN source[p].type ELSE "none"

-----------------------------------------------------------------------------
(* json_validate_value() and what it calls: the position after the value   *)
(* that starts at p, or Invalid.                                           *)

RECURSIVE ValueEnd(_, _, _), ItemsEnd(_, _, _), MembersEnd(_, _, _)

ValueEnd(source, p, depth) ==
  IF depth > MaxDepth THEN Invalid
  ELSE CASE TypeAt(source, p) = "[" ->
              IF TypeAt(source, p + 1) = "]" THEN p + 2
              ELSE ItemsEnd(source, p + 1, depth)
         [] TypeAt(source, p) = "{" ->
              IF TypeAt(source, p + 1) = "}" THEN p + 2
              ELSE MembersEnd(source, p + 1, depth)
         [] TypeAt(source, p) \in {"STRING", "PRIMITIVE"} -> p + 1
         [] OTHER -> Invalid

(* json_validate_array() after its bracket.                                *)
ItemsEnd(source, p, depth) ==
  LET q == ValueEnd(source, p, depth + 1) IN
  CASE TypeAt(source, q) = "," -> ItemsEnd(source, q + 1, depth)
    [] TypeAt(source, q) = "]" -> q + 1
    [] OTHER -> Invalid

(* json_validate_object() after its brace.                                 *)
MembersEnd(source, p, depth) ==
  LET keyed == TypeAt(source, p) = "STRING" /\ TypeAt(source, p + 1) = ":"
      q == IF keyed THEN ValueEnd(source, p + 2, depth + 1) ELSE Invalid
  IN
  CASE TypeAt(source, q) = "," -> MembersEnd(source, q + 1, depth)
    [] TypeAt(source, q) = "}" -> q + 1
    [] OTHER -> Invalid

ValidateDocument(source) == ValueEnd(source, 1, 0) = Len(source) + 1

-----------------------------------------------------------------------------
(* json_tokenize(). The capacity is computed from the length of the text   *)
(* in bytes: the shortest text with these lexemes leaves the least room.   *)

ShortestLength(source) ==
  LET strings == {i \in DOMAIN source : source[i].type = "STRING"}
  IN  Len(source) + Cardinality(strings)
        + Cardinality({i \in strings : source[i].text # Empty})

TokenCapacity(source) == ShortestLength(source) \div 2 + 2

AllocateToken(parser, lexeme) ==
  IF Len(parser.tokens) = parser.capacity THEN [parser EXCEPT !.ok = FALSE]
  ELSE LET parent  == parser.current_parent
           counted == IF parent = NotFound THEN parser.tokens
                      ELSE [parser.tokens EXCEPT ![parent].child_count = @ + 1]
       IN [parser EXCEPT
             !.tokens = Append(counted,
                [type |-> lexeme.type, text |-> lexeme.text, number |-> lexeme.number,
                 child_count |-> 0, parent |-> parent])]

OpenContainer(parser, lexeme) ==
  LET p == AllocateToken(parser, lexeme)
  IN  IF p.ok THEN [p EXCEPT !.current_parent = Len(p.tokens)] ELSE p

CloseContainer(parser, type) ==
  LET current == parser.current_parent IN
  IF TypeAt(parser.tokens, current) = type
  THEN [parser EXCEPT !.current_parent = parser.tokens[current].parent]
  ELSE [parser EXCEPT !.ok = FALSE]

TokenizeAt(parser, lexeme) ==
  CASE lexeme.type \in {"{", "["} -> OpenContainer(parser, lexeme)
    [] lexeme.type = "}" -> CloseContainer(parser, "{")
    [] lexeme.type = "]" -> CloseContainer(parser, "[")
    [] lexeme.type \in {":", ","} -> parser
    [] OTHER -> AllocateToken(parser, lexeme)

Tokenize(source) ==
  LET RECURSIVE From(_, _)
      From(parser, p) ==
        IF ~parser.ok \/ p > Len(source) THEN parser
        ELSE From(TokenizeAt(parser, source[p]), p + 1)
      end == From([tokens |-> << >>, capacity |-> TokenCapacity(source),
                   current_parent |-> NotFound, ok |-> TRUE], 1)
  IN [end EXCEPT !.ok = @ /\ end.current_parent = NotFound /\ end.tokens # << >>]

-----------------------------------------------------------------------------
(* Access to the token array.                                              *)

TokenEquals(token, expected) == token.type = "STRING" /\ token.text = expected

Children(tokens, index) ==
  {i \in index + 1 .. Len(tokens) : tokens[i].parent = index}

(* json_object_find(): keys and values are siblings in the array, and a    *)
(* string value that equals the key counts as one more match.              *)
ObjectFind(tokens, object, key) ==
  LET keys == {i \in Children(tokens, object) :
                 /\ TokenEquals(tokens[i], key)
                 /\ i + 1 \in Children(tokens, object)}
  IN  IF tokens[object].type = "{" /\ Cardinality(keys) = 1
      THEN 1 + CHOOSE i \in keys : TRUE
      ELSE NotFound

(* json_array_at(), its element_index counted from 1.                      *)
ArrayAt(tokens, array, k) ==
  LET items == Children(tokens, array) IN
  IF tokens[array].type = "[" /\ k \in 1 .. Cardinality(items)
  THEN CHOOSE i \in items : Cardinality({j \in items : j <= i}) = k
  ELSE NotFound

IsU64(token) == token.type = "PRIMITIVE" /\ token.number <= U64Max

(* json_object_u64(), json_object_u32(): NotInteger when it returns false. *)
ObjectNumber(tokens, object, key, max) ==
  LET index == ObjectFind(tokens, object, key) IN
  IF index # NotFound /\ IsU64(tokens[index]) /\ tokens[index].number <= max
  THEN tokens[index].number ELSE NotInteger

ObjectU32(tokens, object, key) == ObjectNumber(tokens, object, key, U32Max)
ObjectU64(tokens, object, key) == ObjectNumber(tokens, object, key, U64Max)

-----------------------------------------------------------------------------
(* What validation promises the rest of the loader, for one text.          *)

(* A validated text is tokenized within the capacity, and child_count,     *)
(* the only bound the parsers use, is the number of elements that          *)
(* json_array_at() finds.                                                  *)
ValidatedTokenizes(source) ==
  ValidateDocument(source) =>
    LET parser == Tokenize(source) IN
    /\ parser.ok
    /\ \A i \in DOMAIN parser.tokens :
         parser.tokens[i].child_count = Cardinality(Children(parser.tokens, i))
=============================================================================
