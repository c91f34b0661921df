----------------------------- MODULE ProcSteps ------------------------------
(***************************************************************************)
(* An inductive invariant of the life cycle of processes of kernel/proc.c, *)
(* for any number of CPUs and of slots in proc[], and the proofs that the  *)
(* scheduler, fork(), exit() and reparent() preserve it.                   *)
(***************************************************************************)
EXTENDS Proc, TLAPS

States == {"UNUSED", "USED", "SLEEPING", "RUNNABLE", "RUNNING", "ZOMBIE"}
Alive == {"SLEEPING", "RUNNABLE", "RUNNING"}

(* Labels of code that runs under wait_lock, and those of exit().          *)
Waiting == {"reparent", "wakeup_init", "wakeup_parent", "exit_zombie", "wait_scan", "wait_sleep"}
Exiting == {"exit", "reparent", "wakeup_init", "wakeup_parent", "exit_zombie", "sched_exit", "zombie"}
Labels == Saved \cup Switching \cup Waiting \cup Exiting \cup
          {"user", "fork_copy", "fork_parent", "fork_run", "fork_return", "wait"}

(* killed and havekids decide nothing that matters here. *)
Typed ==
  /\ state \in [Procs -> States]
  /\ chan \in [Procs -> Procs \cup {NoOne}]
  /\ parent \in [Procs -> Procs \cup {NoOne}]
  /\ plock \in [Procs -> CPUs \cup {NoOne}]
  /\ wait_lock \in CPUs \cup {NoOne}
  /\ cproc \in [CPUs -> Procs \cup {NoOne}]
  /\ pc \in [Procs -> Labels]
  /\ child \in [Procs -> Procs \cup {NoOne}]
  /\ scan \in 1 .. NPROC + 1 /\ wk \in 1 .. NPROC + 1

(* What a CPU has to do with the process it runs: it is alone on its       *)
(* stack, and holds p->lock while the process enters or leaves the stack,  *)
(* and wait_lock where the code says so.                                   *)
CpuInv(c) ==
  cproc[c] # NoOne =>
    /\ \A d \in CPUs : cproc[d] = cproc[c] => d = c
    /\ state[cproc[c]] \notin {"UNUSED", "USED"}
    /\ pc[cproc[c]] \in Saved \cup Switching => plock[cproc[c]] = c
    /\ pc[cproc[c]] \in Waiting => wait_lock = c

(* How p->state and the place of p's kernel thread go together.            *)
StateInv(p) ==
  /\ pc[p] \notin Saved \/ state[p] = "RUNNING" => \E c \in CPUs : cproc[c] = p
  /\ pc[p] \notin Saved \cup Switching => state[p] = "RUNNING"
  /\ pc[p] = "sched_yield" => state[p] = "RUNNABLE"
  /\ pc[p] = "sched_sleep" => state[p] = "SLEEPING"
  /\ pc[p] = "sched_exit" => state[p] = "ZOMBIE"
  /\ pc[p] = "forkret" => state[p] \in {"UNUSED", "USED", "RUNNABLE", "RUNNING"}
  /\ pc[p] = "yielded" => state[p] \in {"RUNNABLE", "RUNNING"}
  /\ pc[p] = "sleeping" => state[p] \in Alive
  /\ pc[p] = "zombie" => state[p] \in {"ZOMBIE", "UNUSED"}
  /\ state[p] = "SLEEPING" => chan[p] = p

(* The child that p is making is nobody else's.                            *)
ForkInv(p) ==
  /\ pc[p] \in {"fork_copy", "fork_parent", "fork_run"} =>
       /\ child[p] \in Procs /\ state[child[p]] = "USED"
       /\ \A q \in Procs : pc[q] \in {"fork_copy", "fork_parent", "fork_run"} /\ child[q] = child[p] => q = p
  /\ pc[p] = "fork_run" => parent[child[p]] = p
  /\ pc[p] = "fork_return" =>
       /\ child[p] \in Procs /\ parent[child[p]] = p
       /\ state[child[p]] \notin {"UNUSED", "USED"}

(* A parent is alive, and every process that is more than a claimed slot   *)
(* has one, except init, which never exits.                                *)
ParentInv(p) ==
  /\ parent[p] # NoOne => state[parent[p]] \in Alive
  /\ p # initproc /\ state[p] \notin {"UNUSED", "USED"} => parent[p] # NoOne

InitInv == state[initproc] \in Alive /\ pc[initproc] \notin Exiting

(* What the loops of exit() and wait() have achieved so far.               *)
LoopInv(p) ==
  /\ pc[p] = "reparent" => \A q \in Procs : q < scan => parent[q] # p
  /\ pc[p] = "wakeup_init" => scan \in Procs /\ \A q \in Procs : q <= scan => parent[q] # p
  /\ pc[p] \in {"wakeup_parent", "exit_zombie"} => \A q \in Procs : parent[q] # p
  /\ pc[p] = "wakeup_parent" => \A q \in Procs : parent[p] = q /\ q < wk => state[q] # "SLEEPING"
  /\ pc[p] = "exit_zombie" => \A q \in Procs : parent[p] = q => state[q] # "SLEEPING"
  /\ pc[p] = "wait_scan" => \A q \in Procs : q < scan /\ parent[q] = p => state[q] # "ZOMBIE"
  /\ pc[p] = "wait_sleep" => \A q \in Procs : parent[q] = p => state[q] # "ZOMBIE"

(* A process with a zombie child sleeps only if it is init, has just       *)
(* inherited the child, and is about to be woken.                          *)
WakeInv ==
  \A p, q \in Procs :
    state[p] = "SLEEPING" /\ parent[q] = p /\ state[q] = "ZOMBIE" =>
      p = initproc /\ wk <= initproc /\ \E r \in Procs : pc[r] = "wakeup_init"

(* The inductive invariant. *)
ProcInv ==
  /\ Typed /\ InitInv /\ WakeInv
  /\ \A c \in CPUs : CpuInv(c)
  /\ \A p \in Procs : StateInv(p) /\ ForkInv(p) /\ ParentInv(p) /\ LoopInv(p)
-----------------------------------------------------------------------------
(* Facts about slots and CPUs, and about indices of loops over proc[].     *)
LEMMA SlotFacts == initproc \in Procs /\ NoOne \notin Procs /\ NoOne \notin CPUs
  BY ProcAssumption DEF Procs, initproc

(* The bounds of a loop over proc[], and when it has seen every slot.      *)
LEMMA ScanFacts ==
  /\ Procs \subseteq Int /\ \A p \in Procs : p >= initproc
  /\ 1 \in 1 .. NPROC + 1 /\ \A p \in Procs : p \in 1 .. NPROC + 1
  /\ \A i \in 1 .. NPROC + 1 : i <= NPROC => i \in Procs /\ i + 1 \in 1 .. NPROC + 1
  /\ \A i \in 1 .. NPROC + 1 : i > NPROC => \A p \in Procs : p < i
  BY ProcAssumption DEF Procs, initproc

(* A step that leaves alone the process of CPU c leaves CpuInv(c) alone.   *)
LEMMA OtherCpu ==
  ASSUME NEW c \in CPUs, CpuInv(c), UNCHANGED cproc, wait_lock = c => wait_lock' = c,
         cproc[c] # NoOne => /\ state'[cproc[c]] = state[cproc[c]]
                             /\ pc'[cproc[c]] = pc[cproc[c]]
                             /\ plock'[cproc[c]] = plock[cproc[c]]
  PROVE  CpuInv(c)'
  BY DEF CpuInv

(* What the invariant says of one process and of one CPU.                  *)
LEMMA OfProc ==
  ASSUME ProcInv, NEW q \in Procs
  PROVE  Typed /\ StateInv(q) /\ ForkInv(q) /\ ParentInv(q) /\ LoopInv(q)
  BY DEF ProcInv

LEMMA OfCPU ==
  ASSUME ProcInv, NEW d \in CPUs
  PROVE  Typed /\ CpuInv(d) /\ cproc[d] \in Procs \cup {NoOne}
  BY DEF ProcInv, Typed

(* A process moves on its own stack, outside wait_lock and outside a       *)
(* switch; nobody becomes UNUSED or USED.                                  *)
LEMMA CpuMoves ==
  ASSUME ProcInv, NEW c \in CPUs, NEW p \in Procs, cproc[c] = p,
         UNCHANGED <<cproc, plock, wait_lock>>,
         pc'[p] \notin Saved \cup Switching \cup Waiting,
         \A r \in Procs \ {p} : pc'[r] = pc[r],
         \A r \in Procs : state'[r] \in {"UNUSED", "USED"} => state[r] \in {"UNUSED", "USED"},
         NEW d \in CPUs
  PROVE  CpuInv(d)'
<1>1. CpuInv(d) /\ cproc[d] \in Procs \cup {NoOne}
  BY OfCPU
<1>2. CASE cproc[d] = NoOne
  BY <1>2 DEF CpuInv
<1>3. CASE cproc[d] = p
  BY <1>1, <1>3, SlotFacts DEF CpuInv
<1>4. CASE cproc[d] \in Procs \ {p}
  <2>1. pc'[cproc[d]] = pc[cproc[d]] /\ cproc[d] # NoOne
    BY <1>4, SlotFacts
  <2> QED BY <1>1, <1>4, <2>1 DEF CpuInv
<1> QED BY <1>1, <1>2, <1>3, <1>4

(* Nobody falls asleep or becomes a zombie.                                *)
LEMMA WakeFrame ==
  ASSUME WakeInv, wk' = wk,
         \A r \in Procs : /\ state'[r] = "SLEEPING" => state[r] = "SLEEPING"
                          /\ state'[r] = "ZOMBIE" => state[r] = "ZOMBIE" /\ parent'[r] = parent[r]
                          /\ pc[r] = "wakeup_init" => pc'[r] = "wakeup_init"
  PROVE  WakeInv'
  BY Zenon DEF WakeInv

(* The loops stay where they are, and nobody gets a parent, falls asleep   *)
(* or becomes a zombie.                                                    *)
LEMMA LoopFrame ==
  ASSUME NEW q \in Procs, LoopInv(q), pc'[q] \in Waiting => pc'[q] = pc[q],
         scan' = scan, wk' = wk,
         \A r \in Procs : /\ parent'[r] \in {parent[r], NoOne}
                          /\ state'[r] = "SLEEPING" => state[r] = "SLEEPING"
                          /\ state'[r] = "ZOMBIE" => state[r] = "ZOMBIE"
  PROVE  LoopInv(q)'
<1>1. CASE pc'[q] \in Waiting
  <2>1. pc'[q] = pc[q]
    BY <1>1
  <2>2. /\ \A r \in Procs : parent'[r] # q \/ parent[r] = q
        /\ \A r \in Procs : parent'[q] = r => parent[q] = r
    BY SlotFacts
  <2> QED BY <2>1, <2>2 DEF LoopInv
<1>2. CASE pc'[q] \notin Waiting
  BY <1>2 DEF LoopInv, Waiting
<1> QED BY <1>1, <1>2

(* A fork() goes on while its child's slot is left alone, but for being    *)
(* woken or scheduled.                                                     *)
LEMMA ForkFrame ==
  ASSUME NEW q \in Procs, ForkInv(q), child' = child,
         pc'[q] = pc[q],
         \A r \in Procs : pc'[r] \in {"fork_copy", "fork_parent", "fork_run"} => pc'[r] = pc[r],
         pc[q] \in {"fork_copy", "fork_parent", "fork_run", "fork_return"} =>
           /\ parent'[child[q]] = parent[child[q]]
           /\ \/ state'[child[q]] = state[child[q]]
              \/ {state[child[q]], state'[child[q]]} \cap {"UNUSED", "USED"} = {}
  PROVE  ForkInv(q)'
<1>1. CASE pc[q] \in {"fork_copy", "fork_parent", "fork_run"}
  BY <1>1 DEF ForkInv
<1>2. CASE pc[q] = "fork_return"
  BY <1>2 DEF ForkInv
<1>3. CASE pc[q] \notin {"fork_copy", "fork_parent", "fork_run", "fork_return"}
  BY <1>3 DEF ForkInv
<1> QED BY <1>1, <1>2, <1>3

(* A process that is left alone, on its CPU if it has one.                 *)
LEMMA StateFrame ==
  ASSUME NEW q \in Procs, StateInv(q), pc'[q] = pc[q], state'[q] = state[q],
         chan'[q] = chan[q], cproc' = cproc
  PROVE  StateInv(q)'
  BY DEF StateInv

(* A process moves on its own stack and changes nothing else.              *)
LEMMA MoveFrame ==
  ASSUME ProcInv, NEW p \in Procs, NEW q \in Procs,
         state' = state, chan' = chan, cproc' = cproc, child' = child, parent' = parent,
         pc[p] \notin Saved \cup Switching,
         pc'[p] \notin Saved \cup Switching \cup {"fork_copy", "fork_parent", "fork_run", "fork_return"},
         \A r \in Procs \ {p} : pc'[r] = pc[r]
  PROVE  StateInv(q)' /\ ForkInv(q)' /\ ParentInv(q)'
<1>1. StateInv(q) /\ ForkInv(q) /\ ParentInv(q)
  BY OfProc
<1>2. ParentInv(q)'
  BY <1>1 DEF ParentInv
<1>3. CASE q = p
  <2>1. StateInv(p)'
    BY <1>1, <1>3 DEF StateInv, Saved, Switching
  <2>2. ForkInv(p)'
    BY DEF ForkInv
  <2> QED BY <1>2, <1>3, <2>1, <2>2
<1>4. CASE q # p
  <2>1. pc'[q] = pc[q] /\ \A r \in Procs : pc'[r] \in {"fork_copy", "fork_parent", "fork_run"} => pc'[r] = pc[r]
    BY <1>4
  <2>2. StateInv(q)'
    BY <1>1, <2>1, StateFrame
  <2>3. ForkInv(q)'
    BY <1>1, <2>1, ForkFrame
  <2> QED BY <1>2, <2>2, <2>3
<1> QED BY <1>3, <1>4

(* After userinit() there is init, RUNNABLE, and no other process.         *)
LEMMA ProcInitial == Init => ProcInv
<1> SUFFICES ASSUME Init PROVE ProcInv
  OBVIOUS
<1> USE SlotFacts, ScanFacts DEF Init
<1>1. Typed
  BY DEF Typed, States, Labels, Saved
<1>2. InitInv /\ WakeInv /\ \A c \in CPUs : CpuInv(c)
  BY DEF CpuInv, InitInv, WakeInv, Alive, Exiting
<1>3. ASSUME NEW p \in Procs PROVE StateInv(p) /\ ForkInv(p) /\ ParentInv(p) /\ LoopInv(p)
  BY DEF StateInv, ForkInv, ParentInv, LoopInv, Saved
<1> QED
  BY <1>1, <1>2, <1>3 DEF ProcInv

(* A scheduler takes up a RUNNABLE process, whose lock was free, so that no CPU was on its stack. *)
LEMMA ScheduleKeeps ==
  ASSUME NEW c \in CPUs, NEW p \in Procs, ProcInv, schedule(c, p)
  PROVE  ProcInv'
<1> USE SlotFacts DEF schedule, Free, loopVars
<1>1. Typed'
  BY DEF ProcInv, Typed, States
<1>2. ASSUME NEW d \in CPUs PROVE CpuInv(d)'
  BY DEF Saved, Waiting, ProcInv, Typed, CpuInv, StateInv
<1>3. InitInv'
  BY DEF ProcInv, InitInv, Alive
<1>4. WakeInv'
  BY DEF ProcInv, WakeInv
<1>5. ASSUME NEW q \in Procs PROVE StateInv(q)'
  BY DEF Saved, ProcInv, Typed, CpuInv, StateInv, Alive
<1>6. ASSUME NEW q \in Procs PROVE ForkInv(q)'
  BY DEF ProcInv, ForkInv
<1>7. ASSUME NEW q \in Procs PROVE ParentInv(q)'
  BY DEF ProcInv, ParentInv, Alive
<1>8. ASSUME NEW q \in Procs PROVE LoopInv(q)'
  BY DEF ProcInv, LoopInv
<1> QED
  BY <1>1, <1>2, <1>3, <1>4, <1>5, <1>6, <1>7, <1>8 DEF ProcInv

(* The thread leaves its stack with p->lock held. *)
LEMMA SchedKeeps ==
  ASSUME NEW c \in CPUs, NEW p \in Procs, ProcInv, sched(c, p)
  PROVE  ProcInv'
<1> USE SlotFacts DEF sched, Goto, loopVars
<1>1. Typed'
  BY DEF Saved, Switching, ProcInv, Typed, Labels
<1>2. ASSUME NEW d \in CPUs PROVE CpuInv(d)'
  BY DEF Switching, Waiting, ProcInv, CpuInv
<1>3. InitInv'
  BY DEF Switching, ProcInv, InitInv, Exiting
<1>4. WakeInv'
  BY DEF Switching, ProcInv, WakeInv
<1>5. ASSUME NEW q \in Procs PROVE StateInv(q)'
  BY DEF Saved, Switching, ProcInv, Typed, StateInv, Alive
<1>6. ASSUME NEW q \in Procs PROVE ForkInv(q)'
  BY DEF Switching, ProcInv, ForkInv
<1>7. ASSUME NEW q \in Procs PROVE ParentInv(q)'
  BY DEF ProcInv, ParentInv
<1>8. ASSUME NEW q \in Procs PROVE LoopInv(q)'
  BY DEF Switching, ProcInv, LoopInv
<1> QED
  BY <1>1, <1>2, <1>3, <1>4, <1>5, <1>6, <1>7, <1>8 DEF ProcInv

(* The scheduler lets go of a process whose context is saved. *)
LEMMA SchedReturnKeeps ==
  ASSUME NEW c \in CPUs, NEW p \in Procs, ProcInv, sched_return(c, p)
  PROVE  ProcInv'
<1> USE SlotFacts DEF sched_return, loopVars
<1>1. Typed'
  BY DEF ProcInv, Typed
<1>2. ASSUME NEW d \in CPUs PROVE CpuInv(d)'
  BY DEF ProcInv, Typed, CpuInv
<1>3. InitInv'
  BY DEF ProcInv, InitInv
<1>4. WakeInv'
  BY DEF ProcInv, WakeInv
<1>5. ASSUME NEW q \in Procs PROVE StateInv(q)'
  BY DEF ProcInv, StateInv
<1>6. ASSUME NEW q \in Procs PROVE ForkInv(q)'
  BY DEF ProcInv, ForkInv
<1>7. ASSUME NEW q \in Procs PROVE ParentInv(q)'
  BY DEF ProcInv, ParentInv
<1>8. ASSUME NEW q \in Procs PROVE LoopInv(q)'
  BY DEF ProcInv, LoopInv
<1> QED
  BY <1>1, <1>2, <1>3, <1>4, <1>5, <1>6, <1>7, <1>8 DEF ProcInv

(* A scheduled thread goes on. *)
LEMMA ResumeKeeps ==
  ASSUME NEW c \in CPUs, NEW p \in Procs, ProcInv, resume(c, p)
  PROVE  ProcInv'
<1> USE SlotFacts DEF resume, Goto, loopVars
<1>1. Typed'
  BY DEF ProcInv, Typed, Labels
<1>2. ASSUME NEW d \in CPUs PROVE CpuInv(d)'
  BY DEF Saved, Switching, Waiting, ProcInv, Typed, CpuInv
<1>3. InitInv'
  BY DEF ProcInv, InitInv, Exiting
<1>4. WakeInv'
  BY DEF Saved, ProcInv, WakeInv
<1>5. ASSUME NEW q \in Procs PROVE StateInv(q)'
  BY DEF ProcInv, StateInv
<1>6. ASSUME NEW q \in Procs PROVE ForkInv(q)'
  BY DEF ProcInv, ForkInv
<1>7. ASSUME NEW q \in Procs PROVE ParentInv(q)'
  BY DEF ProcInv, ParentInv
<1>8. ASSUME NEW q \in Procs PROVE LoopInv(q)'
  BY DEF ProcInv, LoopInv
<1> QED
  BY <1>1, <1>2, <1>3, <1>4, <1>5, <1>6, <1>7, <1>8 DEF ProcInv

(* yield() *)
LEMMA YieldKeeps ==
  ASSUME NEW c \in CPUs, NEW p \in Procs, ProcInv, yield(c, p)
  PROVE  ProcInv'
<1> USE SlotFacts DEF yield, At, Goto, Free, Hold, loopVars
<1>1. Typed'
  BY DEF Switching, ProcInv, Typed, States, Labels
<1>2. ASSUME NEW d \in CPUs PROVE CpuInv(d)'
  BY DEF Waiting, ProcInv, Typed, CpuInv
<1>3. InitInv'
  BY DEF ProcInv, Typed, InitInv, Exiting, Alive
<1>4. WakeInv'
  BY DEF ProcInv, WakeInv
<1>5. ASSUME NEW q \in Procs PROVE StateInv(q)'
  BY DEF Switching, ProcInv, Typed, StateInv
<1>6. ASSUME NEW q \in Procs PROVE ForkInv(q)'
  BY DEF ProcInv, CpuInv, ForkInv
<1>7. ASSUME NEW q \in Procs PROVE ParentInv(q)'
  BY DEF ProcInv, CpuInv, ParentInv, Alive
<1>8. ASSUME NEW q \in Procs PROVE LoopInv(q)'
  BY DEF ProcInv, LoopInv
<1> QED
  BY <1>1, <1>2, <1>3, <1>4, <1>5, <1>6, <1>7, <1>8 DEF ProcInv

(* allocproc() finds a slot that is nobody's child in the making. *)
LEMMA ForkKeeps ==
  ASSUME NEW c \in CPUs, NEW p \in Procs, NEW np \in Procs, ProcInv, fork(c, p, np)
  PROVE  ProcInv'
<1> USE SlotFacts DEF fork, At, Free, loopVars
<1>0. p # np /\ \A d \in CPUs : cproc[d] # np
  BY DEF ProcInv, CpuInv
<1>1. Typed'
  BY DEF Saved, ProcInv, Typed, States, Labels
<1>2. ASSUME NEW d \in CPUs PROVE CpuInv(d)'
  <2>1. CASE cproc[d] = NoOne
    BY <2>1 DEF CpuInv
  <2>2. CASE cproc[d] = p
    BY <1>0, <2>2 DEF ProcInv, Typed, CpuInv, Waiting, Saved, Switching
  <2>3. CASE cproc[d] \notin {p, NoOne}
    <3>1. cproc[d] \in Procs /\ CpuInv(d)
      BY <2>3 DEF ProcInv, Typed
    <3>2. /\ state'[cproc[d]] = state[cproc[d]] /\ pc'[cproc[d]] = pc[cproc[d]]
          /\ plock'[cproc[d]] = plock[cproc[d]]
      BY <1>0, <2>3 DEF ProcInv, Typed
    <3> QED
      BY <3>1, <3>2, OtherCpu, Zenon
  <2> QED
    BY <2>1, <2>2, <2>3
<1>3. InitInv'
  BY DEF ProcInv, Typed, InitInv, Exiting, Alive
<1>4. WakeInv'
  BY <1>0 DEF Saved, ProcInv, Typed, WakeInv, StateInv
<1>5. /\ \A r \in Procs : state'[r] = IF r = np THEN "USED" ELSE state[r]
      /\ \A r \in Procs : child'[r] = IF r = p THEN np ELSE child[r]
      /\ \A r \in Procs : pc'[r] = IF r = p THEN "fork_copy" ELSE IF r = np THEN "forkret" ELSE pc[r]
  BY <1>0 DEF ProcInv, Typed
<1>6. /\ UNCHANGED <<chan, parent, cproc, scan, wk>>
      /\ cproc[c] = p /\ pc[p] = "user" /\ state[np] = "UNUSED"
  OBVIOUS
<1>7. ASSUME NEW q \in Procs
      PROVE  StateInv(q)' /\ ForkInv(q)' /\ ParentInv(q)' /\ LoopInv(q)'
  <2> HIDE DEF fork
  <2>1. StateInv(q) /\ StateInv(p) /\ ForkInv(q) /\ ParentInv(q) /\ LoopInv(q) /\ Typed
    BY <1>7, OfProc
  <2>2. StateInv(q)'
    <3>1. CASE q = p
      <4>1. state'[q] = state[q] /\ pc'[q] = "fork_copy" /\ chan'[q] = chan[q]
        BY <1>0, <1>5, <1>6, <3>1
      <4> QED BY <1>6, <2>1, <3>1, <4>1 DEF StateInv, Saved, Switching
    <3>2. CASE q = np
      <4>1. state'[q] = "USED" /\ pc'[q] = "forkret"
        BY <1>0, <1>5, <3>2
      <4> QED BY <4>1 DEF StateInv, Saved, Switching
    <3>3. CASE q \notin {p, np}
      <4>1. state'[q] = state[q] /\ pc'[q] = pc[q] /\ chan'[q] = chan[q]
        BY <1>5, <1>6, <3>3
      <4> QED BY <1>6, <2>1, <4>1, StateFrame
    <3> QED BY <3>1, <3>2, <3>3
  <2>3. \A r \in Procs : pc[r] \in {"fork_copy", "fork_parent", "fork_run", "fork_return"} =>
                           child[r] \in Procs /\ child[r] # np
    <3> SUFFICES ASSUME NEW r \in Procs,
                        pc[r] \in {"fork_copy", "fork_parent", "fork_run", "fork_return"}
                 PROVE  child[r] \in Procs /\ child[r] # np
      OBVIOUS
    <3>1. ForkInv(r)
      BY OfProc
    <3> QED BY <1>6, <3>1 DEF ForkInv
  <2>4. ForkInv(q)'
    <3>1. CASE q = p
      <4>1. child'[q] = np /\ state'[np] = "USED" /\ pc'[q] = "fork_copy"
        BY <1>5, <3>1
      <4>2. \A r \in Procs : pc'[r] \in {"fork_copy", "fork_parent", "fork_run"} /\ child'[r] = np => r = p
        BY <1>5, <2>3
      <4> QED BY <3>1, <4>1, <4>2 DEF ForkInv
    <3>2. CASE q = np
      BY <1>0, <1>5, <3>2 DEF ForkInv
    <3>3. CASE q \notin {p, np}
      <4>1. pc'[q] = pc[q] /\ child'[q] = child[q]
        BY <1>5, <3>3
      <4>2. CASE pc[q] \in {"fork_copy", "fork_parent", "fork_run", "fork_return"}
        <5>1. /\ child[q] \in Procs /\ child[q] # np /\ state'[child[q]] = state[child[q]]
              /\ parent'[child[q]] = parent[child[q]]
          BY <1>5, <1>6, <2>3, <4>2
        <5>2. \A r \in Procs : pc'[r] \in {"fork_copy", "fork_parent", "fork_run"} /\ child'[r] = child[q]
                               => pc[r] \in {"fork_copy", "fork_parent", "fork_run"} /\ child[r] = child[q]
          BY <1>5, <5>1
        <5> QED BY <2>1, <4>1, <4>2, <5>1, <5>2 DEF ForkInv
      <4>3. CASE pc[q] \notin {"fork_copy", "fork_parent", "fork_run", "fork_return"}
        BY <4>1, <4>3 DEF ForkInv
      <4> QED BY <4>2, <4>3
    <3> QED BY <3>1, <3>2, <3>3
  <2>5. ParentInv(q)'
    <3>1. parent[q] # NoOne => parent[q] \in Procs /\ parent[q] # np
      BY <1>6, <2>1 DEF Typed, ParentInv, Alive
    <3>2. /\ parent'[q] = parent[q]
          /\ parent[q] # NoOne => state'[parent[q]] = state[parent[q]]
          /\ state'[q] = state[q] \/ state'[q] = "USED"
      BY <1>5, <1>6, <3>1
    <3> QED BY <2>1, <3>2 DEF ParentInv
  <2>6. LoopInv(q)'
    <3>1. pc'[q] \in Waiting => pc'[q] = pc[q]
      BY <1>5 DEF Waiting
    <3>2. \A r \in Procs : /\ parent'[r] \in {parent[r], NoOne}
                           /\ state'[r] = "SLEEPING" => state[r] = "SLEEPING"
                           /\ state'[r] = "ZOMBIE" => state[r] = "ZOMBIE"
      BY <1>5, <1>6
    <3> QED BY <1>6, <2>1, <3>1, <3>2, LoopFrame
  <2> QED BY <2>2, <2>4, <2>5, <2>6
<1> QED
  BY <1>1, <1>2, <1>3, <1>4, <1>7 DEF ProcInv

(* The child is copied, or its slot given back. *)
LEMMA ForkCopyKeeps ==
  ASSUME NEW c \in CPUs, NEW p \in Procs, ProcInv, fork_copy(c, p)
  PROVE  ProcInv'
<1> USE SlotFacts DEF Saved, Switching, Waiting
<1>1. /\ cproc[c] = p /\ pc[p] = "fork_copy"
      /\ child[p] \in Procs /\ p # child[p] /\ state[child[p]] = "USED"
      /\ \A d \in CPUs : cproc[d] # child[p]
  <2>1. cproc[c] = p /\ pc[p] = "fork_copy" /\ ForkInv(p) /\ StateInv(p)
    BY OfProc DEF fork_copy, At
  <2>2. child[p] \in Procs /\ p # child[p] /\ state[child[p]] = "USED"
    BY <2>1 DEF ForkInv, StateInv
  <2>3. ASSUME NEW d \in CPUs, cproc[d] = child[p] PROVE FALSE
    BY <2>2, <2>3, OfCPU DEF CpuInv
  <2> QED BY <2>1, <2>2, <2>3
<1>2. /\ \A r \in Procs \ {child[p]} : /\ state'[r] = state[r] /\ chan'[r] = chan[r]
                                       /\ parent'[r] = parent[r] /\ plock'[r] = plock[r]
      /\ \A r \in Procs \ {p} : pc'[r] = pc[r] /\ child'[r] = child[r]
      /\ UNCHANGED <<wait_lock, cproc, scan, wk>>
      /\ \/ /\ pc'[p] = "fork_parent" /\ child'[p] = child[p]
            /\ state'[child[p]] = "USED" /\ parent'[child[p]] = parent[child[p]]
         \/ pc'[p] = "user" /\ state'[child[p]] = "UNUSED" /\ parent'[child[p]] = NoOne
  <2> USE <1>1 DEF fork_copy, At, Goto, loopVars
  <2>1. CASE Goto(p, "fork_parent") /\ UNCHANGED <<state, chan, killed, parent, child>>
    BY <2>1 DEF ProcInv, Typed
  <2>2. CASE freeproc(child[p]) /\ child' = [child EXCEPT ![p] = NoOne] /\ Goto(p, "user")
    BY DEF ProcInv, Typed, freeproc
  <2> QED
    BY <2>1, <2>2
<1>3. Typed'
  BY <1>1 DEF ProcInv, Typed, States, Labels, fork_copy, Goto, freeproc, loopVars
<1>4. ASSUME NEW d \in CPUs PROVE CpuInv(d)'
  <2>1. CpuInv(d) /\ Typed
    BY DEF ProcInv
  <2>2. CASE cproc[d] = p
    BY <1>1, <1>2, <2>1, <2>2 DEF CpuInv
  <2>3. CASE cproc[d] # p
    BY <1>1, <1>2, <2>1, <2>3, OtherCpu DEF Typed
  <2> QED
    BY <2>2, <2>3
<1>5. InitInv'
  BY <1>1, <1>2 DEF ProcInv, InitInv, Exiting, Alive
<1>6. WakeInv'
  <2>1. \A r \in Procs : /\ state'[r] = "SLEEPING" => state[r] = "SLEEPING"
                         /\ state'[r] = "ZOMBIE" => state[r] = "ZOMBIE" /\ parent'[r] = parent[r]
                         /\ pc[r] = "wakeup_init" => pc'[r] = "wakeup_init"
    BY <1>1, <1>2
  <2> QED BY <1>2, <2>1, WakeFrame DEF ProcInv
<1>7. ASSUME NEW q \in Procs PROVE StateInv(q)'
  <2>1. StateInv(q) /\ Typed
    BY DEF ProcInv
  <2>2. CASE q = p
    BY <1>1, <1>2, <2>1, <2>2 DEF StateInv
  <2>3. CASE q # p /\ q # child[p]
    BY <1>2, <2>1, <2>3 DEF StateInv
  <2>4. CASE q = child[p]
    <3>1. pc[q] = "forkret"
      BY <1>1, <2>1, <2>4 DEF StateInv, Alive
    <3> QED
      BY <1>1, <1>2, <2>4, <3>1 DEF StateInv
  <2> QED
    BY <2>2, <2>3, <2>4
<1>8. ASSUME NEW q \in Procs PROVE ForkInv(q)'
  <2>1. Typed /\ ForkInv(p) /\ ForkInv(q)
    BY DEF ProcInv
  <2>2. CASE q = p
    BY <1>1, <1>2, <2>1 DEF ForkInv
  <2>3. CASE q # p
    <3>1. pc'[q] = pc[q] /\ child'[q] = child[q]
      BY <1>2, <2>3
    <3>2. CASE pc[q] \in {"fork_copy", "fork_parent", "fork_run", "fork_return"}
      <4>1. child[q] \in Procs /\ child[q] # child[p]
        <5>1. ForkInv(p)
          BY OfProc
        <5> QED BY <1>1, <2>1, <2>3, <3>2, <5>1 DEF ForkInv
      <4>2. state'[child[q]] = state[child[q]] /\ parent'[child[q]] = parent[child[q]]
        BY <1>2, <4>1
      <4>3. \A r \in Procs : pc'[r] \in {"fork_copy", "fork_parent", "fork_run"} /\ child'[r] = child[q]
                             => pc[r] \in {"fork_copy", "fork_parent", "fork_run"} /\ child[r] = child[q]
        BY <1>1, <1>2, <4>1
      <4> QED BY <2>1, <3>1, <4>1, <4>2, <4>3 DEF ForkInv
    <3>3. CASE pc[q] \notin {"fork_copy", "fork_parent", "fork_run", "fork_return"}
      BY <3>1, <3>3 DEF ForkInv
    <3> QED BY <3>2, <3>3
  <2> QED
    BY <2>2, <2>3
<1>9. ASSUME NEW q \in Procs PROVE ParentInv(q)'
  <2>1. Typed /\ ParentInv(q)
    BY DEF ProcInv
  <2>2. parent'[q] \in {parent[q], NoOne} /\ (state'[q] = state[q] \/ q = child[p])
    BY <1>1, <1>2
  <2>3. parent[q] # NoOne => parent[q] \in Procs /\ parent[q] # child[p]
    BY <1>1, <2>1 DEF Typed, ParentInv, Alive
  <2>4. parent[q] # NoOne => state'[parent[q]] = state[parent[q]]
    BY <1>2, <2>3
  <2>5. q = child[p] => state'[q] \in {"UNUSED", "USED"}
    BY <1>2
  <2>6. q # child[p] => parent'[q] = parent[q]
    BY <1>2
  <2> QED
    BY <2>1, <2>2, <2>4, <2>5, <2>6 DEF ParentInv
<1>10. ASSUME NEW q \in Procs PROVE LoopInv(q)'
  <2>1. \A r \in Procs : /\ parent'[r] \in {parent[r], NoOne}
                         /\ state'[r] = "SLEEPING" => state[r] = "SLEEPING"
                         /\ state'[r] = "ZOMBIE" => state[r] = "ZOMBIE"
    BY <1>1, <1>2
  <2>2. pc'[q] \in Waiting => pc'[q] = pc[q]
    BY <1>1, <1>2
  <2> QED BY <1>2, <2>1, <2>2, OfProc, LoopFrame
<1> QED
  BY <1>3, <1>4, <1>5, <1>6, <1>7, <1>8, <1>9, <1>10 DEF ProcInv

(* The child gets its parent. *)
LEMMA ForkParentKeeps ==
  ASSUME NEW c \in CPUs, NEW p \in Procs, ProcInv, fork_parent(c, p)
  PROVE  ProcInv'
<1> USE SlotFacts DEF fork_parent, At, Goto, loopVars
<1>1. Typed'
  BY Zenon DEF ProcInv, Typed, Labels
<1>2. ASSUME NEW d \in CPUs PROVE CpuInv(d)'
  <2>1. pc'[p] \notin Saved \cup Switching \cup Waiting /\ cproc[c] = p
    BY DEF ProcInv, Typed, Saved, Switching, Waiting
  <2>2. \A r \in Procs \ {p} : pc'[r] = pc[r]
    BY DEF ProcInv, Typed
  <2> QED BY <2>1, <2>2, CpuMoves
<1>3. InitInv'
  <2>1. pc'[initproc] \in {pc[initproc], "fork_run"} /\ InitInv
    BY DEF ProcInv, Typed
  <2> QED BY <2>1 DEF InitInv, Exiting
<1>4. WakeInv'
  BY DEF ProcInv, WakeInv, ForkInv
<1>5. ASSUME NEW q \in Procs PROVE StateInv(q)'
  <2>1. StateInv(q) /\ Typed /\ pc[p] = "fork_parent"
    BY OfProc
  <2>2. CASE q = p
    BY <2>1, <2>2 DEF StateInv, Typed, Saved, Switching
  <2>3. CASE q # p
    <3>1. pc'[q] = pc[q]
      BY <2>1, <2>3 DEF Typed
    <3> QED BY <2>1, <3>1, StateFrame
  <2> QED BY <2>2, <2>3
<1>6. ASSUME NEW q \in Procs PROVE ForkInv(q)'
  BY DEF ProcInv, Typed, ForkInv
<1>7. ASSUME NEW q \in Procs PROVE ParentInv(q)'
  <2>1. ParentInv(q) /\ StateInv(p) /\ Typed /\ pc[p] = "fork_parent"
    BY OfProc
  <2>2. state[p] = "RUNNING" /\ parent'[q] \in {p, parent[q]} /\ state' = state /\ p # NoOne
    BY <2>1 DEF StateInv, Typed, Saved, Switching
  <2> QED BY <2>1, <2>2 DEF ParentInv, Alive
<1>8. ASSUME NEW q \in Procs PROVE LoopInv(q)'
  <2>1. ForkInv(p) /\ StateInv(q) /\ Typed /\ wait_lock = NoOne
    BY OfProc
  <2>2. pc[q] \notin Waiting
    <3> SUFFICES ASSUME pc[q] \in Waiting PROVE FALSE
      OBVIOUS
    <3>1. PICK d \in CPUs : cproc[d] = q
      BY <2>1 DEF StateInv, Saved, Waiting
    <3> QED BY <2>1, <3>1, OfCPU DEF CpuInv
  <2>3. pc'[q] \in {pc[q], "fork_run"}
    BY <2>1 DEF Typed
  <2> QED BY <2>2, <2>3 DEF LoopInv, Waiting
<1> QED
  BY <1>1, <1>2, <1>3, <1>4, <1>5, <1>6, <1>7, <1>8 DEF ProcInv

(* The child may run; its parent is alive. *)
LEMMA ForkRunKeeps ==
  ASSUME NEW c \in CPUs, NEW p \in Procs, ProcInv, fork_run(c, p)
  PROVE  ProcInv'
<1> USE SlotFacts
<1>1. Typed'
  BY Zenon DEF ProcInv, Typed, States, Labels, fork_run, At, Goto, Free, loopVars
<1>2. /\ cproc[c] = p /\ pc[p] = "fork_run" /\ Typed /\ ForkInv(p)
      /\ UNCHANGED <<chan, parent, plock, wait_lock, cproc, child, scan, wk>>
  BY OfProc DEF fork_run, At, loopVars
<1>3. /\ child[p] \in Procs /\ state[child[p]] = "USED" /\ parent[child[p]] = p
      /\ \A q \in Procs : pc[q] \in {"fork_copy", "fork_parent", "fork_run"} /\ child[q] = child[p] => q = p
  BY <1>2 DEF ForkInv
<1>4. /\ \A r \in Procs : pc'[r] = IF r = p THEN "fork_return" ELSE pc[r]
      /\ \A r \in Procs : state'[r] = IF r = child[p] THEN "RUNNABLE" ELSE state[r]
  BY <1>2 DEF fork_run, Goto, Typed
<1>5. ASSUME NEW d \in CPUs PROVE CpuInv(d)'
  <2>1. \A r \in Procs : state'[r] \in {"UNUSED", "USED"} => state[r] \in {"UNUSED", "USED"}
    BY <1>4
  <2>2. pc'[p] \notin Saved \cup Switching \cup Waiting
    BY <1>4 DEF Saved, Switching, Waiting
  <2> QED BY <1>2, <1>4, <2>1, <2>2, CpuMoves
<1>6. InitInv'
  BY <1>4 DEF ProcInv, InitInv, Exiting, Alive
<1>7. WakeInv'
  BY <1>2, <1>4, WakeFrame DEF ProcInv
<1>8. ASSUME NEW q \in Procs PROVE StateInv(q)'
  <2>1. StateInv(q) /\ cproc' = cproc /\ chan' = chan
    BY <1>2, OfProc
  <2>2. CASE q = p
    BY <1>2, <1>3, <1>4, <2>1, <2>2 DEF StateInv, Saved, Switching
  <2>3. CASE q = child[p]
    <3>1. q # p /\ pc'[q] = pc[q] /\ state'[q] = "RUNNABLE" /\ state[q] = "USED"
      BY <1>2, <1>3, <1>4, <2>1, <2>3 DEF StateInv, Saved, Switching
    <3> QED BY <2>1, <3>1 DEF StateInv, Saved, Switching, Alive
  <2>4. CASE q \notin {p, child[p]}
    <3>1. pc'[q] = pc[q] /\ state'[q] = state[q]
      BY <1>4, <2>4
    <3> QED BY <2>1, <3>1, StateFrame
  <2> QED BY <2>2, <2>3, <2>4
<1>9. ASSUME NEW q \in Procs PROVE ForkInv(q)'
  <2>1. ForkInv(q) /\ child' = child /\ parent' = parent
    BY <1>2, OfProc
  <2>2. CASE q = p
    BY <1>2, <1>3, <1>4, <2>1, <2>2 DEF ForkInv
  <2>3. CASE q # p
    <3>1. pc'[q] = pc[q] /\ \A r \in Procs : pc'[r] \in {"fork_copy", "fork_parent", "fork_run"} => pc'[r] = pc[r]
      BY <1>4, <2>3
    <3>2. CASE pc[q] \in {"fork_copy", "fork_parent", "fork_run"}
      <4>1. child[q] \in Procs /\ child[q] # child[p]
        BY <1>3, <2>1, <2>3, <3>2 DEF ForkInv
      <4>2. state'[child[q]] = state[child[q]]
        BY <1>4, <4>1
      <4> QED BY <2>1, <3>1, <3>2, <4>2, ForkFrame
    <3>3. CASE pc[q] = "fork_return"
      <4>1. child[q] \in Procs /\ child[q] # child[p]
        BY <1>3, <2>1, <3>3 DEF ForkInv
      <4>2. state'[child[q]] = state[child[q]]
        BY <1>4, <4>1
      <4> QED BY <2>1, <3>1, <3>3, <4>2, ForkFrame
    <3>4. CASE pc[q] \notin {"fork_copy", "fork_parent", "fork_run", "fork_return"}
      BY <2>1, <3>1, <3>4, ForkFrame
    <3> QED BY <3>2, <3>3, <3>4
  <2> QED BY <2>2, <2>3
<1>10. ASSUME NEW q \in Procs PROVE ParentInv(q)'
  <2>1. /\ ParentInv(q) /\ StateInv(p) /\ parent' = parent
        /\ parent[q] \in Procs \cup {NoOne}
    BY <1>2, OfProc DEF Typed
  <2>2. state[p] = "RUNNING"
    BY <1>2, <2>1 DEF StateInv, Saved, Switching
  <2>3. CASE q = child[p]
    <3>1. parent[q] = p /\ p # child[p] /\ state'[p] = "RUNNING"
      BY <1>3, <1>4, <2>2, <2>3
    <3> QED BY <2>1, <3>1 DEF ParentInv, Alive
  <2>4. CASE q # child[p]
    <3>1. state'[q] = state[q] /\ (parent[q] # NoOne => state'[parent[q]] \in {state[parent[q]], "RUNNABLE"})
      BY <1>4, <2>1, <2>4
    <3> QED BY <2>1, <3>1 DEF ParentInv, Alive
  <2> QED BY <2>3, <2>4
<1>11. ASSUME NEW q \in Procs PROVE LoopInv(q)'
  <2>1. pc'[q] \in Waiting => pc'[q] = pc[q]
    BY <1>4 DEF Waiting
  <2>2. \A r \in Procs : /\ parent'[r] \in {parent[r], NoOne}
                         /\ state'[r] = "SLEEPING" => state[r] = "SLEEPING"
                         /\ state'[r] = "ZOMBIE" => state[r] = "ZOMBIE"
    BY <1>2, <1>4
  <2> QED BY <1>2, <2>1, <2>2, OfProc, LoopFrame
<1> QED
  BY <1>1, <1>5, <1>6, <1>7, <1>8, <1>9, <1>10, <1>11 DEF ProcInv

(* fork() returns. *)
LEMMA ForkReturnKeeps ==
  ASSUME NEW c \in CPUs, NEW p \in Procs, ProcInv, fork_return(c, p)
  PROVE  ProcInv'
<1> USE SlotFacts DEF fork_return, At, Goto, loopVars
<1>1. Typed'
  BY DEF ProcInv, Typed, Labels
<1>2. ASSUME NEW d \in CPUs PROVE CpuInv(d)'
  <2>1. pc'[p] \notin Saved \cup Switching \cup Waiting /\ cproc[c] = p
    BY DEF ProcInv, Typed, Saved, Switching, Waiting
  <2>2. \A r \in Procs \ {p} : pc'[r] = pc[r]
    BY DEF ProcInv, Typed
  <2> QED BY <2>1, <2>2, CpuMoves
<1>3. InitInv'
  <2>1. pc'[initproc] \in {pc[initproc], "user"} /\ InitInv
    BY DEF ProcInv, Typed
  <2> QED BY <2>1 DEF InitInv, Exiting
<1>4. WakeInv'
  BY DEF ProcInv, WakeInv
<1>5. ASSUME NEW q \in Procs PROVE StateInv(q)'
  <2>1. StateInv(q) /\ Typed /\ pc[p] = "fork_return"
    BY OfProc
  <2>2. CASE q = p
    BY <2>1, <2>2 DEF StateInv, Typed, Saved, Switching
  <2>3. CASE q # p
    <3>1. pc'[q] = pc[q]
      BY <2>1, <2>3 DEF Typed
    <3> QED BY <2>1, <3>1, StateFrame
  <2> QED BY <2>2, <2>3
<1>6. ASSUME NEW q \in Procs PROVE ForkInv(q)'
  <2>1. ForkInv(q) /\ Typed
    BY OfProc
  <2>2. \A r \in Procs : pc'[r] = IF r = p THEN "user" ELSE pc[r]
    BY <2>1 DEF Typed
  <2>3. \A r \in Procs : child'[r] = IF r = p THEN NoOne ELSE child[r]
    BY <2>1 DEF Typed
  <2>4. state' = state /\ parent' = parent
    OBVIOUS
  <2> HIDE DEF fork_return
  <2>5. CASE q = p
    BY <2>2, <2>5 DEF ForkInv
  <2>6. CASE q # p
    BY <2>1, <2>2, <2>3, <2>4, <2>6 DEF ForkInv
  <2> QED BY <2>5, <2>6
<1>7. ASSUME NEW q \in Procs PROVE ParentInv(q)'
  BY DEF ProcInv, ForkInv, ParentInv
<1>8. ASSUME NEW q \in Procs PROVE LoopInv(q)'
  <2>1. LoopInv(q) /\ Typed
    BY OfProc
  <2>2. pc'[q] \in Waiting => pc'[q] = pc[q]
    BY <2>1 DEF Typed, Waiting
  <2>3. scan' = scan /\ wk' = wk /\ parent' = parent /\ state' = state
    OBVIOUS
  <2> HIDE DEF fork_return
  <2> QED BY <2>1, <2>2, <2>3, LoopFrame
<1> QED
  BY <1>1, <1>2, <1>3, <1>4, <1>5, <1>6, <1>7, <1>8 DEF ProcInv

(* exit() before it takes wait_lock. *)
LEMMA ExitKeeps ==
  ASSUME NEW c \in CPUs, NEW p \in Procs, ProcInv, exit(c, p)
  PROVE  ProcInv'
<1> USE SlotFacts DEF exit, At, Goto, loopVars
<1>1. Typed'
  BY DEF Waiting, ProcInv, Typed, Labels, Exiting
<1>2. ASSUME NEW d \in CPUs PROVE CpuInv(d)'
  <2>1. pc'[p] \notin Saved \cup Switching \cup Waiting /\ cproc[c] = p
    BY DEF ProcInv, Typed, Saved, Switching, Waiting
  <2>2. \A r \in Procs \ {p} : pc'[r] = pc[r]
    BY DEF ProcInv, Typed
  <2> QED BY <2>1, <2>2, CpuMoves
<1>3. InitInv'
  <2>1. pc'[initproc] = pc[initproc] /\ InitInv
    BY DEF ProcInv, Typed
  <2> QED BY <2>1 DEF InitInv
<1>4. WakeInv'
  BY DEF ProcInv, WakeInv
<1>5. pc'[p] = "exit" /\ \A r \in Procs \ {p} : pc'[r] = pc[r]
  BY DEF ProcInv, Typed
<1>6. ASSUME NEW q \in Procs PROVE StateInv(q)' /\ ForkInv(q)' /\ ParentInv(q)'
  BY <1>5, MoveFrame DEF Saved, Switching
<1>7. ASSUME NEW q \in Procs PROVE LoopInv(q)'
  <2>1. pc'[q] \in Waiting => pc'[q] = pc[q]
    BY <1>5 DEF Waiting
  <2> QED BY <2>1, OfProc, LoopFrame
<1> QED
  BY <1>1, <1>2, <1>3, <1>4, <1>6, <1>7 DEF ProcInv

(* exit() takes wait_lock. *)
LEMMA ExitLockKeeps ==
  ASSUME NEW c \in CPUs, NEW p \in Procs, ProcInv, exit_lock(c, p)
  PROVE  ProcInv'
<1> USE SlotFacts, ScanFacts DEF exit_lock, At, Goto
<1>1. Typed'
  BY DEF ProcInv, Typed, Labels, Exiting
<1>2. ASSUME NEW d \in CPUs PROVE CpuInv(d)'
  BY DEF Saved, Switching, ProcInv, CpuInv
<1>3. InitInv'
  BY DEF ProcInv, InitInv, Exiting
<1>4. WakeInv'
  BY DEF ProcInv, WakeInv
<1>5. pc'[p] = "reparent" /\ \A r \in Procs \ {p} : pc'[r] = pc[r]
  BY DEF ProcInv, Typed
<1>6. ASSUME NEW q \in Procs PROVE StateInv(q)' /\ ForkInv(q)' /\ ParentInv(q)'
  BY <1>5, MoveFrame DEF Saved, Switching
<1>7. ASSUME NEW q \in Procs PROVE LoopInv(q)'
  <2>1. CASE q = p
    <3>1. \A r \in Procs : ~(r < scan')
      BY DEF initproc
    <3> QED BY <1>5, <2>1, <3>1 DEF LoopInv
  <2>2. CASE q # p
    <3>1. StateInv(q) /\ wait_lock = NoOne /\ \A d \in CPUs : CpuInv(d)
      BY OfProc, OfCPU
    <3>2. pc[q] \notin Waiting
      BY <3>1 DEF StateInv, CpuInv, Saved, Waiting
    <3> QED BY <1>5, <2>2, <3>2 DEF LoopInv, Waiting
  <2> QED BY <2>1, <2>2
<1> QED
  BY <1>1, <1>2, <1>3, <1>4, <1>6, <1>7 DEF ProcInv

(* A child goes to init, or is not a child. *)
LEMMA ReparentKeeps ==
  ASSUME NEW c \in CPUs, NEW p \in Procs, ProcInv, reparent(c, p)
  PROVE  ProcInv'
<1> USE SlotFacts, ScanFacts DEF Saved, Switching, Waiting
<1>1. cproc[c] = p /\ pc[p] = "reparent" /\ p # initproc
  BY DEF reparent, At, ProcInv, InitInv, Exiting
<1>2. \A r \in Procs : pc[r] \in Waiting => r = p
  BY <1>1 DEF ProcInv, CpuInv, StateInv
<1>3. UNCHANGED <<state, chan, plock, wait_lock, cproc, child>>
  BY DEF reparent
<1>4. CASE scan > NPROC /\ Goto(p, "wakeup_parent") /\ wk' = 1 /\ UNCHANGED <<parent, scan>>
  <2>1. Typed'
    BY <1>3, <1>4 DEF ProcInv, Typed, Labels, Goto
  <2>2. InitInv' /\ WakeInv'
    BY <1>1, <1>3, <1>4 DEF ProcInv, InitInv, WakeInv, Goto
  <2>3. ASSUME NEW d \in CPUs PROVE CpuInv(d)'
    BY <1>1, <1>3, <1>4 DEF ProcInv, CpuInv, Goto
  <2>4. ASSUME NEW q \in Procs PROVE StateInv(q)' /\ ForkInv(q)' /\ ParentInv(q)'
    <3>1. pc'[p] = "wakeup_parent" /\ \A r \in Procs \ {p} : pc'[r] = pc[r]
      BY <1>4 DEF ProcInv, Typed, Goto
    <3> QED BY <1>1, <1>3, <1>4, <3>1, MoveFrame
  <2>5. ASSUME NEW q \in Procs PROVE LoopInv(q)'
    <3>1. pc'[p] = "wakeup_parent" /\ wk' = 1 /\ \A r \in Procs \ {p} : pc'[r] = pc[r]
      BY <1>4 DEF ProcInv, Typed, Goto
    <3>2. CASE q = p
      <4>1. (\A r \in Procs : r < scan) /\ (\A r \in Procs : ~(r < 1)) /\ parent' = parent
        BY <1>4 DEF ProcInv, Typed, initproc
      <4>2. \A r \in Procs : parent[r] # p
        BY <1>1, <4>1, OfProc DEF LoopInv
      <4> QED BY <3>1, <3>2, <4>1, <4>2 DEF LoopInv
    <3>3. CASE q # p
      <4>1. pc'[q] \notin Waiting
        BY <1>2, <3>1, <3>3
      <4> QED BY <4>1 DEF LoopInv
    <3> QED BY <3>2, <3>3
  <2> QED
    BY <2>1, <2>2, <2>3, <2>4, <2>5 DEF ProcInv
<1>5. CASE /\ scan <= NPROC /\ IsChild(scan, p)
           /\ parent' = [parent EXCEPT ![scan] = initproc]
           /\ wk' = 1 /\ Goto(p, "wakeup_init") /\ UNCHANGED scan
  <2>1. /\ scan \in Procs /\ parent[scan] = p
        /\ parent'[scan] = initproc /\ \A r \in Procs \ {scan} : parent'[r] = parent[r]
        /\ pc' = [pc EXCEPT ![p] = "wakeup_init"]
    BY <1>5 DEF ProcInv, Typed, IsChild, Goto
  <2>2. Typed'
    BY <1>3, <1>5, <2>1 DEF ProcInv, Typed, Labels
  <2>3. InitInv'
    BY <1>1, <1>3, <2>1 DEF ProcInv, InitInv
  <2>4. WakeInv'
    BY <1>3, <1>5, <2>1 DEF ProcInv, Typed, WakeInv
  <2>5. ASSUME NEW d \in CPUs PROVE CpuInv(d)'
    BY <1>1, <1>3, <2>1 DEF ProcInv, CpuInv
  <2>6. ASSUME NEW q \in Procs PROVE StateInv(q)' /\ ParentInv(q)'
    <3>1. StateInv(q) /\ ParentInv(q) /\ InitInv /\ Typed
      BY OfProc DEF ProcInv
    <3>2. ParentInv(q)'
      <4>1. parent'[q] \in {parent[q], initproc} /\ (parent'[q] # parent[q] => parent'[q] = initproc)
        BY <2>1
      <4> QED BY <1>3, <3>1, <4>1 DEF ParentInv, InitInv
    <3>3. pc'[q] = IF q = p THEN "wakeup_init" ELSE pc[q]
      BY <2>1, <3>1 DEF Typed
    <3>4. StateInv(q)'
      <4>1. CASE q = p
        BY <1>1, <1>3, <3>1, <3>3, <4>1 DEF StateInv
      <4>2. CASE q # p
        BY <1>3, <3>1, <3>3, <4>2, StateFrame
      <4> QED BY <4>1, <4>2
    <3> QED BY <3>2, <3>4
  <2>7. ASSUME NEW q \in Procs PROVE ForkInv(q)'
    BY ZenonT(60), <1>3, <2>1 DEF ProcInv, Typed, ForkInv
  <2>8. ASSUME NEW q \in Procs PROVE LoopInv(q)'
    <3>1. CASE q = p
      <4>1. \A r \in Procs : r <= scan => r < scan \/ r = scan
        BY <2>1
      <4>2. LoopInv(p) /\ scan' = scan /\ pc'[p] = "wakeup_init"
        BY <1>5, <2>1, OfProc DEF Typed
      <4>3. \A r \in Procs : r <= scan => parent'[r] # p
        BY <1>1, <2>1, <4>1, <4>2 DEF LoopInv
      <4> QED BY <2>1, <3>1, <4>2, <4>3 DEF LoopInv
    <3>2. CASE q # p
      <4>1. pc'[q] = pc[q]
        BY <2>1, <3>2, OfProc DEF Typed
      <4>2. pc'[q] \notin Waiting
        BY <1>2, <3>2, <4>1
      <4> QED BY <4>2 DEF LoopInv
    <3> QED BY <3>1, <3>2
  <2> QED
    BY <2>2, <2>3, <2>4, <2>5, <2>6, <2>7, <2>8 DEF ProcInv
<1>6. CASE scan <= NPROC /\ ~IsChild(scan, p) /\ scan' = NextSlot(scan) /\ UNCHANGED <<parent, wk, pc>>
  <2>1. scan \in Procs /\ scan' = scan + 1 /\ scan' \in 1 .. NPROC + 1 /\ parent[scan] # p
    BY <1>6 DEF ProcInv, Typed, IsChild, NextSlot
  <2>2. Typed' /\ InitInv' /\ WakeInv'
    BY <1>3, <1>6, <2>1 DEF ProcInv, Typed, InitInv, WakeInv
  <2>3. ASSUME NEW d \in CPUs PROVE CpuInv(d)'
    BY <1>3, <1>6 DEF ProcInv, CpuInv
  <2>4. ASSUME NEW q \in Procs PROVE StateInv(q)' /\ ForkInv(q)' /\ ParentInv(q)'
    BY <1>1, <1>3, <1>6, MoveFrame
  <2>5. ASSUME NEW q \in Procs PROVE LoopInv(q)'
    <3>1. CASE q = p
      <4>1. \A r \in Procs : r < scan + 1 => r < scan \/ r = scan
        BY <2>1
      <4>2. LoopInv(p)
        BY OfProc
      <4>3. \A r \in Procs : r < scan' => parent'[r] # p
        BY <1>1, <1>6, <2>1, <4>1, <4>2 DEF LoopInv
      <4> QED BY <1>1, <1>6, <3>1, <4>3 DEF LoopInv
    <3>2. CASE q # p
      <4>1. pc'[q] \notin Waiting
        BY <1>2, <1>6, <3>2
      <4> QED BY <4>1 DEF LoopInv
    <3> QED BY <3>1, <3>2
  <2> QED
    BY <2>2, <2>3, <2>4, <2>5 DEF ProcInv
<1>7. scan > NPROC \/ scan <= NPROC
  BY ProcAssumption DEF ProcInv, Typed
<1> QED
  BY <1>4, <1>5, <1>6, <1>7 DEF reparent
=============================================================================
