----------------------------- MODULE AtomicDisk -----------------------------
(***************************************************************************)
(* What the logging layer of kernel/log.c promises to the file system: a   *)
(* disk whose contents change only by whole groups of operations.  mem is  *)
(* what the running kernel reads, stable what a reboot would find.  A      *)
(* crash throws away mem; it never exposes part of an operation, because   *)
(* stable is only ever set to a mem seen while no operation was active.    *)
(***************************************************************************)
CONSTANTS Procs, Blocks, Vals

VARIABLES
  mem,      \* contents of every block as the running system sees it
  stable,   \* contents of every block after a crash and a recovery
  active    \* processes between begin_op() and end_op()

absVars == <<mem, stable, active>>

Init ==
  /\ mem \in [Blocks -> Vals]
  /\ stable = mem
  /\ active = {}

Begin(p) ==
  /\ p \notin active
  /\ active' = active \cup {p}
  /\ UNCHANGED <<mem, stable>>

Write(p, b, v) ==
  /\ p \in active
  /\ mem' = [mem EXCEPT ![b] = v]
  /\ UNCHANGED <<stable, active>>

End(p) ==
  /\ p \in active
  /\ active' = active \ {p}
  /\ UNCHANGED <<mem, stable>>

(* Group commit: the point at which finished operations become durable.    *)
Commit ==
  /\ active = {}
  /\ stable' = mem
  /\ UNCHANGED <<mem, active>>

Crash ==
  /\ mem' = stable
  /\ active' = {}
  /\ UNCHANGED stable

Next ==
  \/ \E p \in Procs : Begin(p) \/ End(p)
  \/ \E p \in Procs, b \in Blocks, v \in Vals : Write(p, b, v)
  \/ Commit
  \/ Crash

Spec == Init /\ [][Next]_absVars
=============================================================================
