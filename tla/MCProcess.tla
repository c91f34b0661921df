----------------------------- MODULE MCProcess ------------------------------
(***************************************************************************)
(* The threads of a process and the memory of processes.  They share no    *)
(* state, so each behaviour moves one of them.                             *)
(***************************************************************************)
EXTENDS Threads, Memory

VARIABLE unit

(* Text and data, a gap, overlap, and files that are cut off or refused. *)
Segment(vaddr, filesz, memsz, w, file) ==
  [vaddr |-> vaddr, filesz |-> filesz, memsz |-> memsz, w |-> w, data |-> 7 + vaddr, file |-> file]

MCPrograms ==
  {<<Segment(0, 1, 1, FALSE, "good")>>,
   <<Segment(0, 2, 2, FALSE, "good"), Segment(1, 1, 3, TRUE, "good")>>,
   <<Segment(1, 2, 2, FALSE, "good"), Segment(0, 1, 2, TRUE, "good")>>,
   <<Segment(0, 1, 2, TRUE, "good"), Segment(1, 1, 1, TRUE, "short")>>,
   <<Segment(0, 0, 0, FALSE, "good")>>,
   <<Segment(0, 2, 3, TRUE, "good"), Segment(1, 1, 1, TRUE, "refused")>>}

ProcessInit == unit \in {"threads", "memory"} /\ Init /\ MemoryInit

ProcessNext ==
  \/ unit = "threads" /\ Next /\ UNCHANGED <<unit, memoryVars>>
  \/ unit = "memory" /\ MemoryNext /\ UNCHANGED <<unit, vars>>

ProcessSpec ==
  /\ ProcessInit /\ [][ProcessNext]_<<unit, vars, memoryVars>>
  /\ WF_vars(schedule) /\ WF_vars(timer)
=============================================================================
