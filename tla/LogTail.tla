------------------------------ MODULE LogTail ------------------------------
(***************************************************************************)
(* What the RAM ring of a logger promises: the newest records that were    *)
(* chosen for it since the last clear, in the order of their sequence      *)
(* numbers, and the number of those a newer record pushed out.             *)
(***************************************************************************)
EXTENDS Naturals, Sequences

CONSTANTS LogCapacity, Level

VARIABLES
  tail,    \* the records a reader can get, oldest first
  lost,    \* how many were pushed out
  stamp    \* the sequence number of the next record

tailVars == <<tail, lost, stamp>>

TailInit == tail = << >> /\ lost = 0 /\ stamp = 0

NextRecord(level) == [sequence |-> stamp, level |-> level]

KeepRecord(level) ==
  /\ stamp' = stamp + 1
  /\ \/ /\ Len(tail) < LogCapacity
        /\ tail' = Append(tail, NextRecord(level))
        /\ UNCHANGED lost
     \/ /\ Len(tail) = LogCapacity
        /\ tail' = Append(Tail(tail), NextRecord(level))
        /\ lost' = lost + 1

(* A record the ring is not to keep still takes a number.                  *)
PassRecord == stamp' = stamp + 1 /\ UNCHANGED <<tail, lost>>

(* A clear forgets the records and neither the count nor the numbering.    *)
ForgetRecords == tail' = << >> /\ UNCHANGED <<lost, stamp>>

Restart == tail' = << >> /\ lost' = 0 /\ stamp' = 0

TailNext ==
  \/ \E level \in Level : KeepRecord(level)
  \/ PassRecord
  \/ ForgetRecords
  \/ Restart

TailSpec == TailInit /\ [][TailNext]_tailVars
=============================================================================
