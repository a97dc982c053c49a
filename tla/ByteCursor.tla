----------------------------- MODULE ByteCursor -----------------------------
(***************************************************************************)
(* utility_byte_reader.h and utility_byte_writer.h: a cursor over a buffer *)
(* of the caller, and integers of a width in bytes in either byte order.   *)
(* A cursor is [data, offset], data a sequence and offset the bytes read   *)
(* or written so far; a byte has ByteBase values. OUT_OF_BOUNDS leaves     *)
(* cursor and buffer as they are. utility_id.h, a counter that skips 0, is *)
(* here too.                                                               *)
(***************************************************************************)
EXTENDS Integers, Sequences

CONSTANTS ByteBase, MaxId

Byte == 0 .. ByteBase - 1

ASSUME ByteAssumption == ByteBase \in Nat \ {0, 1} /\ MaxId \in Nat \ {0}

(* ut_byte_reader_init(), ut_byte_writer_init() and remaining().           *)
CursorOn(data) == [data |-> data, offset |-> 0]
Remaining(cursor) == Len(cursor.data) - cursor.offset

OutOfBounds == [result |-> "OUT_OF_BOUNDS"]

(* read_integer(): result gathers the bytes from the most significant on.  *)
ReadInteger(reader, width, little_endian) ==
  LET source(k) == reader.offset + (IF little_endian THEN width - k ELSE k - 1) + 1
      gathered[k \in 0 .. width] ==
        IF k = 0 THEN 0 ELSE gathered[k - 1] * ByteBase + reader.data[source(k)]
  IN IF width > Remaining(reader) THEN OutOfBounds
     ELSE [result |-> "OK", value |-> gathered[width],
           cursor |-> [reader EXCEPT !.offset = @ + width]]

(* write_integer(): the low width bytes of value, the least one first.     *)
WriteInteger(writer, value, width, little_endian) ==
  LET target(k) == writer.offset + (IF little_endian THEN k ELSE width - k - 1) + 1
  IN IF width > Remaining(writer) THEN OutOfBounds
     ELSE [result |-> "OK",
           cursor |->
             [data |-> [i \in DOMAIN writer.data |->
                          IF \E k \in 0 .. width - 1 : i = target(k)
                          THEN LET k == CHOOSE k \in 0 .. width - 1 : i = target(k)
                               IN (value \div ByteBase ^ k) % ByteBase
                          ELSE writer.data[i]],
              offset |-> writer.offset + width]]

(* ut_id_next(): 1 .. MaxId round and round, from any stored value.        *)
NextId(current) == IF current = MaxId THEN 1 ELSE current + 1

-----------------------------------------------------------------------------

(* What is written is read back, by the reader of the same width and       *)
(* order, up to the bits the width has no room for; the bytes before and   *)
(* after are kept; the other order reads the bytes reversed.               *)
ReadsWhatWasWritten(data, offset, value, width, order) ==
  LET writer == [data |-> data, offset |-> offset]
      written == WriteInteger(writer, value, width, order)
      read == ReadInteger([written.cursor EXCEPT !.offset = offset], width, order)
  IN IF offset + width > Len(data)
     THEN written = OutOfBounds /\ ReadInteger(writer, width, order) = OutOfBounds
     ELSE /\ read.value = value % ByteBase ^ width
          /\ read.cursor = written.cursor
          /\ Len(written.cursor.data) = Len(data)
          /\ \A i \in DOMAIN data :
               ~(offset < i /\ i <= offset + width) =>
                 written.cursor.data[i] = data[i]

(* MaxId calls in a row return MaxId different ids and never 0.            *)
IdsInACycle(start) ==
  LET id[k \in 1 .. MaxId] == NextId(IF k = 1 THEN start ELSE id[k - 1])
  IN {id[k] : k \in 1 .. MaxId} = 1 .. MaxId
=============================================================================
