------------------------------ MODULE JsonText ------------------------------
(***************************************************************************)
(* The lexical level of domain_workflow_loader.c. A text is read twice,    *)
(* once by the validator and once by the tokenizer, with different code:   *)
(* the token boundaries are right only if both scans end a string or a     *)
(* primitive at the same place.                                            *)
(*                                                                         *)
(* A text is a sequence of characters; those that no branch tells apart    *)
(* are represented by one of them. An operator takes the position where    *)
(* its C function starts and returns the position after what it accepted,  *)
(* or Rejected.                                                            *)
(***************************************************************************)
EXTENDS Naturals, Sequences

Rejected == 0

Space      == {" ", "\t", "\r", "\n"}
Control    == {"\t", "\r", "\n", "NUL"}
Delimiter  == Space \cup {",", "]", "}"}
NonZero    == {"1", "2", "3", "4", "5", "6", "7", "8", "9"}
Digit      == NonZero \cup {"0"}
Hex        == Digit \cup {"a", "b", "c", "d", "e", "f", "A", "B", "C", "D", "E", "F"}

(* strchr() also finds the terminator of the string it searches.           *)
Escapable  == {"\"", "\\", "/", "b", "f", "n", "r", "t", "NUL"}

At(s, p) == IF p <= Len(s) THEN s[p] ELSE "end of text"

(* The position after the run of characters of S that starts at p.         *)
RunEnd(s, p, S) ==
  CHOOSE q \in p .. Len(s) + 1 :
    At(s, q) \notin S /\ \A i \in p .. q - 1 : s[i] \in S

ConsumeInteger(s, p) ==
  LET first == IF At(s, p) = "-" THEN p + 1 ELSE p IN
  CASE At(s, first) = "0"     -> first + 1
    [] At(s, first) \in NonZero -> RunEnd(s, first, Digit)
    [] OTHER                  -> Rejected

DigitsFrom(s, p) == IF At(s, p) \in Digit THEN RunEnd(s, p, Digit) ELSE Rejected

ConsumeFraction(s, p) == IF At(s, p) = "." THEN DigitsFrom(s, p + 1) ELSE p

ConsumeExponent(s, p) ==
  IF At(s, p) \notin {"e", "E"} THEN p
  ELSE DigitsFrom(s, IF At(s, p + 1) \in {"+", "-"} THEN p + 2 ELSE p + 1)

ValidateNumber(s, p) ==
  LET Then(q, Consume(_, _)) == IF q = Rejected THEN Rejected ELSE Consume(s, q)
  IN  Then(Then(ConsumeInteger(s, p), ConsumeFraction), ConsumeExponent)

Literals ==
  {<<"t", "r", "u", "e">>, <<"f", "a", "l", "s", "e">>, <<"n", "u", "l", "l">>}

ValidateLiteral(s, p) ==
  LET Here(l) == Len(l) <= Len(s) + 1 - p /\ SubSeq(s, p, p + Len(l) - 1) = l IN
  IF \E l \in Literals : Here(l)
  THEN p + Len(CHOOSE l \in Literals : Here(l))
  ELSE Rejected

(* json_validate_string(): p is the opening quote.                         *)
ValidateString(s, p) ==
  LET scan[q \in Nat] ==
        CASE At(s, q) = "\"" -> q + 1
          [] At(s, q) = "\\" ->
               CASE At(s, q + 1) = "u" ->
                      IF \A d \in 2 .. 5 : At(s, q + d) \in Hex
                      THEN scan[q + 6] ELSE Rejected
                 [] At(s, q + 1) \in Escapable -> scan[q + 2]
                 [] OTHER -> Rejected
          [] At(s, q) \in Control \cup {"end of text"} -> Rejected
          [] OTHER -> scan[q + 1]
  IN  IF At(s, p) = "\"" THEN scan[p + 1] ELSE Rejected

(* json_parse_string(): the token's end is the closing quote.              *)
ParseString(s, p) ==
  LET scan[q \in Nat] ==
        CASE q > Len(s)      -> Rejected
          [] At(s, q) = "\"" -> q
          [] At(s, q) = "\\" -> IF q < Len(s) THEN scan[q + 2] ELSE Rejected
          [] At(s, q) \in Control -> Rejected
          [] OTHER           -> scan[q + 1]
  IN  scan[p + 1]

(* json_parse_primitive(): the token's end is the delimiter after it.      *)
ParsePrimitive(s, p) ==
  LET end == CHOOSE q \in p .. Len(s) + 1 :
               /\ At(s, q) \in Delimiter \cup {"end of text"}
               /\ \A i \in p .. q - 1 : s[i] \notin Delimiter
  IN  IF end = p \/ \E i \in p .. end - 1 : s[i] \in Control \cup {":"}
      THEN Rejected ELSE end

-----------------------------------------------------------------------------
(* What the scans promise, for one text.                                   *)

Slice(s, a, b) == SubSeq(s, a, b - 1)

(* The number grammar of JSON, by splitting the text in three.             *)
IsNumber(s) ==
  LET Digits(t)   == t # << >> /\ \A i \in DOMAIN t : t[i] \in Digit
      Unsigned(t) == Digits(t) /\ (t[1] = "0" => Len(t) = 1)
      Signed(t, signs, Of(_)) ==
        Of(t) \/ (t # << >> /\ t[1] \in signs /\ Of(Tail(t)))
      Fraction(t) == t = << >> \/ (t[1] = "." /\ Digits(Tail(t)))
      Exponent(t) ==
        t = << >> \/ (t[1] \in {"e", "E"} /\ Signed(Tail(t), {"+", "-"}, Digits))
  IN  \E f \in 1 .. Len(s) + 1 : \E x \in f .. Len(s) + 1 :
        /\ Signed(Slice(s, 1, f), {"-"}, Unsigned)
        /\ Fraction(Slice(s, f, x)) /\ Exponent(Slice(s, x, Len(s) + 1))

(* The validator accepts exactly the numbers of JSON.                      *)
NumbersAreJson(s) == ValidateNumber(s, 1) = Len(s) + 1 <=> IsNumber(s)

(* A string the validator accepted ends at the same quote for the          *)
(* tokenizer.                                                              *)
StringsEndAlike(s) ==
  LET q == ValidateString(s, 1) IN q # Rejected => ParseString(s, 1) = q - 1

(* A number or literal the validator accepted, followed by what may follow *)
(* a value, ends at the same place for the tokenizer.                      *)
PrimitivesEndAlike(s) ==
  \A q \in {ValidateNumber(s, 1), ValidateLiteral(s, 1)} \ {Rejected} :
    At(s, q) \in Delimiter \cup {"end of text"} => ParsePrimitive(s, 1) = q
=============================================================================
