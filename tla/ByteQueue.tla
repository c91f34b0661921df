----------------------------- MODULE ByteQueue -----------------------------
(***************************************************************************)
(* What a pipe promises its processes: a bounded first-in first-out queue  *)
(* of bytes with two ends.  Bytes go in only while both ends are open; the *)
(* bytes left when the write end closes can still be read.                 *)
(***************************************************************************)
EXTENDS Naturals, Sequences

CONSTANTS Bytes, Capacity

VARIABLES queue, readEnd, writeEnd

absVars == <<queue, readEnd, writeEnd>>

Init == queue = <<>> /\ readEnd = TRUE /\ writeEnd = TRUE

Put(ch) ==
  /\ readEnd /\ writeEnd /\ Len(queue) < Capacity
  /\ queue' = Append(queue, ch)
  /\ UNCHANGED <<readEnd, writeEnd>>

Get ==
  /\ readEnd /\ queue # <<>>
  /\ queue' = Tail(queue)
  /\ UNCHANGED <<readEnd, writeEnd>>

CloseRead == readEnd /\ readEnd' = FALSE /\ UNCHANGED <<queue, writeEnd>>

CloseWrite == writeEnd /\ writeEnd' = FALSE /\ UNCHANGED <<queue, readEnd>>

(* A pipe whose ends are both closed is freed; the next one starts empty.  *)
Open ==
  /\ ~readEnd /\ ~writeEnd
  /\ queue' = <<>> /\ readEnd' = TRUE /\ writeEnd' = TRUE

Next == (\E ch \in Bytes : Put(ch)) \/ Get \/ CloseRead \/ CloseWrite \/ Open

Spec == Init /\ [][Next]_absVars
=============================================================================
