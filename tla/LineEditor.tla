----------------------------- MODULE LineEditor -----------------------------
(***************************************************************************)
(* What the console's input promises: a queue of finished lines and one    *)
(* line that is being typed, at most SIZE characters together.             *)
(***************************************************************************)
EXTENDS Integers, Sequences, SequencesExt

CONSTANTS Readers, SIZE

VARIABLES lines,   \* characters of finished lines that nobody has read
          edit,    \* the line being typed
          got      \* per reader: characters delivered by its current read

vars == <<lines, edit, got>>

(* Nothing has been read; a line may have been begun. *)
Init == lines = <<>> /\ Len(edit) < SIZE /\ got = [p \in Readers |-> 0]

Ends(c) == c \in {"nl", "eof"}

(* A line is finished by its end, or by the last free place. *)
Type(c) ==
  /\ Len(lines) + Len(edit) < SIZE
  /\ IF Ends(c) \/ Len(lines) + Len(edit) + 1 = SIZE
     THEN lines' = lines \o Append(edit, c) /\ edit' = <<>>
     ELSE edit' = Append(edit, c) /\ UNCHANGED lines
  /\ UNCHANGED got

Erase ==
  /\ edit # <<>> /\ edit' = Front(edit)
  /\ UNCHANGED <<lines, got>>

Read(p) ==
  /\ got' = [got EXCEPT ![p] = 0]
  /\ UNCHANGED <<lines, edit>>

Deliver(p) ==
  /\ lines # <<>> /\ Head(lines) # "eof"
  /\ lines' = Tail(lines)
  /\ got' = [got EXCEPT ![p] = @ + 1]
  /\ UNCHANGED edit

EndOfFile(p) ==
  /\ lines # <<>> /\ Head(lines) = "eof" /\ got[p] = 0
  /\ lines' = Tail(lines)
  /\ UNCHANGED <<edit, got>>

(* The destination of a read is not the caller's memory. *)
Lose ==
  /\ lines # <<>> /\ Head(lines) # "eof"
  /\ lines' = Tail(lines)
  /\ UNCHANGED <<edit, got>>

Next ==
  \/ \E c \in {"a", "b", "nl", "eof"} : Type(c)
  \/ Erase \/ Lose
  \/ \E p \in Readers : Read(p) \/ Deliver(p) \/ EndOfFile(p)

Spec == Init /\ [][Next]_vars
=============================================================================
