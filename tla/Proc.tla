-------------------------------- MODULE Proc --------------------------------
(***************************************************************************)
(* Process life cycle of kernel/proc.c: allocproc, fork_core, exit,        *)
(* reparent, wait, sleep, wakeup, kill, yield, sched and the per-CPU       *)
(* scheduler loop, with the locks they take.  p->lock and wait_lock are    *)
(* held by CPUs and stay held across swtch(), as in the code.  A step runs *)
(* from one lock operation to the next.                                    *)
(*                                                                         *)
(* reparent(), the wakeup() calls of exit() and the scan of wait() run     *)
(* under wait_lock, so one copy of their loop indices serves all.          *)
(***************************************************************************)
EXTENDS Integers, FiniteSets

CONSTANTS
  NPROC,   \* slots of proc[]; slot 1 is initproc
  CPUs,
  NoOne    \* a lock nobody holds, a CPU or a pointer that is 0

ASSUME ProcAssumption ==
  /\ NPROC \in Nat /\ NPROC >= 2
  /\ IsFiniteSet(CPUs) /\ CPUs # {}
  /\ NoOne \notin CPUs \cup (1 .. NPROC)

Procs == 1 .. NPROC
initproc == 1

VARIABLES
  state,     \* p->state
  chan,      \* p->chan; wait() sleeps on the process itself
  killed,    \* p->killed
  parent,    \* p->parent
  plock,     \* CPU that holds p->lock
  wait_lock, \* CPU that holds wait_lock
  cproc,     \* c->proc
  pc,        \* where the kernel thread of p is (its saved context)
  child,     \* np, in fork_core()
  scan,      \* pp, in reparent() and wait()
  wk,        \* p, in wakeup()
  havekids   \* in wait()

vars == <<state, chan, killed, parent, plock, wait_lock, cproc, pc, child, scan,
          wk, havekids>>
loopVars == <<scan, wk, havekids>>

(* Labels at which the thread is off its stack, its context saved.         *)
Saved == {"forkret", "yielded", "sleeping", "zombie"}
(* Labels at which it is about to swtch() to the scheduler.                *)
Switching == {"sched_yield", "sched_sleep", "sched_exit"}

Init ==
  /\ state = [p \in Procs |-> IF p = initproc THEN "RUNNABLE" ELSE "UNUSED"]
  /\ chan = [p \in Procs |-> NoOne]
  /\ killed = [p \in Procs |-> FALSE]
  /\ parent = [p \in Procs |-> NoOne]
  /\ plock = [p \in Procs |-> NoOne]
  /\ wait_lock = NoOne
  /\ cproc = [c \in CPUs |-> NoOne]
  /\ pc = [p \in Procs |-> "forkret"]
  /\ child = [p \in Procs |-> NoOne]
  /\ scan = 1 /\ wk = 1 /\ havekids = FALSE

(* The kernel thread of p, on CPU c, has reached a label.                  *)
At(c, p, label) == cproc[c] = p /\ pc[p] = label

Goto(p, label) == pc' = [pc EXCEPT ![p] = label]

Free(p) == plock[p] = NoOne

(* Variant of Hold that does not keep the lock.                            *)
Hold_Nothing(c, p) == UNCHANGED plock

(* acquire(&p->lock), kept across the following swtch().                   *)
Hold(c, p) == plock' = [plock EXCEPT ![p] = c]

NextSlot(i) == i + 1

(* Variants of IsChild: one that overlooks zombies, one that takes any     *)
(* process with a parent.                                                  *)
IsChild_Live(q, p) == parent[q] = p /\ state[q] # "ZOMBIE"
IsChild_Any(q, p) == parent[q] # NoOne

(* pp->parent == p                                                         *)
IsChild(q, p) == parent[q] = p

-----------------------------------------------------------------------------
(* Scheduler: either policy picks some RUNNABLE process, and enters it     *)
(* with its lock held.                                                     *)

schedule(c, p) ==
  /\ cproc[c] = NoOne
  /\ Free(p) /\ state[p] = "RUNNABLE"
  /\ plock' = [plock EXCEPT ![p] = c]
  /\ state' = [state EXCEPT ![p] = "RUNNING"]
  /\ cproc' = [cproc EXCEPT ![c] = p]
  /\ UNCHANGED <<chan, killed, parent, wait_lock, pc, child, loopVars>>

(* The swtch() in sched(): the context is saved and the CPU leaves p's     *)
(* kernel stack, still holding p->lock.                                    *)
sched(c, p) ==
  /\ cproc[c] = p /\ pc[p] \in Switching
  /\ Goto(p, CASE pc[p] = "sched_yield" -> "yielded"
               [] pc[p] = "sched_sleep" -> "sleeping"
               [] pc[p] = "sched_exit" -> "zombie")
  /\ UNCHANGED <<state, chan, killed, parent, plock, wait_lock, cproc, child, loopVars>>

(* The scheduler after swtch() has returned to it.                         *)
sched_return(c, p) ==
  /\ cproc[c] = p /\ pc[p] \in Saved /\ state[p] # "RUNNING"
  /\ cproc' = [cproc EXCEPT ![c] = NoOne]
  /\ plock' = [plock EXCEPT ![p] = NoOne]
  /\ UNCHANGED <<state, chan, killed, parent, wait_lock, pc, child, loopVars>>

(* A scheduled thread continues after its swtch(): forkret() and yield()   *)
(* release p->lock, sleep() also clears p->chan and wants wait_lock back.  *)
resume(c, p) ==
  /\ cproc[c] = p /\ pc[p] \in Saved /\ state[p] = "RUNNING"
  /\ chan' = [chan EXCEPT ![p] = IF pc[p] = "sleeping" THEN NoOne ELSE @]
  /\ plock' = [plock EXCEPT ![p] = NoOne]
  /\ Goto(p, IF pc[p] = "sleeping" THEN "wait" ELSE "user")
  /\ UNCHANGED <<state, killed, parent, wait_lock, cproc, child, loopVars>>

(* yield(), from a timer interrupt.                                        *)
yield(c, p) ==
  /\ At(c, p, "user") /\ Free(p)
  /\ Hold(c, p)
  /\ state' = [state EXCEPT ![p] = "RUNNABLE"]
  /\ Goto(p, "sched_yield")
  /\ UNCHANGED <<chan, killed, parent, wait_lock, cproc, child, loopVars>>

-----------------------------------------------------------------------------
(* fork_core()                                                             *)

(* allocproc() returns np with its lock held.  killed is not reset here.   *)
(* The killed() test of usertrap() on entry is part of the call's first    *)
(* step: a kill() that falls between the two has the effect of one after.  *)
fork(c, p, np) ==
  /\ At(c, p, "user") /\ ~killed[p]
  /\ Free(np) /\ state[np] = "UNUSED"
  /\ plock' = [plock EXCEPT ![np] = c]
  /\ state' = [state EXCEPT ![np] = "USED"]
  /\ child' = [child EXCEPT ![p] = np]
  /\ pc' = [pc EXCEPT ![p] = "fork_copy", ![np] = "forkret"]
  /\ UNCHANGED <<chan, killed, parent, wait_lock, cproc, loopVars>>

freeproc(q) ==
  /\ state' = [state EXCEPT ![q] = "UNUSED"]
  /\ chan' = [chan EXCEPT ![q] = NoOne]
  /\ killed' = [killed EXCEPT ![q] = FALSE]
  /\ parent' = [parent EXCEPT ![q] = NoOne]

(* Copying the address space and the files succeeds or fails.              *)
fork_copy(c, p) ==
  /\ At(c, p, "fork_copy")
  /\ plock' = [plock EXCEPT ![child[p]] = NoOne]
  /\ \/ /\ Goto(p, "fork_parent")
        /\ UNCHANGED <<state, chan, killed, parent, child>>
     \/ /\ freeproc(child[p])
        /\ child' = [child EXCEPT ![p] = NoOne]
        /\ Goto(p, "user")
  /\ UNCHANGED <<wait_lock, cproc, loopVars>>

fork_parent(c, p) ==
  /\ At(c, p, "fork_parent")
  /\ wait_lock = NoOne
  /\ parent' = [parent EXCEPT ![child[p]] = p]
  /\ Goto(p, "fork_run")
  /\ UNCHANGED <<state, chan, killed, plock, wait_lock, cproc, child, loopVars>>

fork_run(c, p) ==
  /\ At(c, p, "fork_run")
  /\ Free(child[p])
  /\ state' = [state EXCEPT ![child[p]] = "RUNNABLE"]
  /\ Goto(p, "fork_return")
  /\ UNCHANGED <<chan, killed, parent, plock, wait_lock, cproc, child, loopVars>>

(* fork() and deadfork() read np->pid, and deadfork() writes np->deadline, *)
(* with no lock held.                                                      *)
fork_return(c, p) ==
  /\ At(c, p, "fork_return")
  /\ child' = [child EXCEPT ![p] = NoOne]
  /\ Goto(p, "user")
  /\ UNCHANGED <<state, chan, killed, parent, plock, wait_lock, cproc, loopVars>>

-----------------------------------------------------------------------------
(* exit()                                                                  *)

exit(c, p) ==
  /\ At(c, p, "user") /\ p # initproc
  /\ Goto(p, "exit")
  /\ UNCHANGED <<state, chan, killed, parent, plock, wait_lock, cproc, child, loopVars>>

exit_lock(c, p) ==
  /\ At(c, p, "exit")
  /\ wait_lock = NoOne
  /\ wait_lock' = c
  /\ scan' = 1
  /\ Goto(p, "reparent")
  /\ UNCHANGED <<state, chan, killed, parent, plock, cproc, child, wk, havekids>>

(* One turn of the loop of reparent(), up to the call of wakeup().         *)
reparent(c, p) ==
  /\ At(c, p, "reparent")
  /\ IF scan > NPROC
     THEN Goto(p, "wakeup_parent") /\ wk' = 1 /\ UNCHANGED <<parent, scan>>
     ELSE IF IsChild(scan, p)
     THEN /\ parent' = [parent EXCEPT ![scan] = initproc]
          /\ wk' = 1
          /\ Goto(p, "wakeup_init")
          /\ UNCHANGED scan
     ELSE scan' = NextSlot(scan) /\ UNCHANGED <<parent, wk, pc>>
  /\ UNCHANGED <<state, chan, killed, plock, wait_lock, cproc, child, havekids>>

(* Variant of Sleeper that tests for the wrong state.                      *)
Sleeper_Runnable(q, ch) == state[q] = "RUNNABLE" /\ chan[q] = ch

Sleeper(q, ch) == state[q] = "SLEEPING" /\ chan[q] = ch

(* One turn of the loop of wakeup(ch) in process p.                        *)
wakeup(p, ch) ==
  /\ wk <= NPROC
  /\ wk # p => Free(wk)
  /\ state' = [state EXCEPT ![wk] =
                 IF wk # p /\ Sleeper(wk, ch) THEN "RUNNABLE" ELSE @]
  /\ wk' = NextSlot(wk)

wakeup_init(c, p) ==
  /\ At(c, p, "wakeup_init")
  /\ \/ wakeup(p, initproc) /\ UNCHANGED <<scan, pc>>
     \/ /\ wk > NPROC
        /\ scan' = NextSlot(scan)
        /\ Goto(p, "reparent")
        /\ UNCHANGED <<state, wk>>
  /\ UNCHANGED <<chan, killed, parent, plock, wait_lock, cproc, child, havekids>>

wakeup_parent(c, p) ==
  /\ At(c, p, "wakeup_parent")
  /\ \/ wakeup(p, parent[p]) /\ UNCHANGED pc
     \/ /\ wk > NPROC
        /\ Goto(p, "exit_zombie")
        /\ UNCHANGED <<state, wk>>
  /\ UNCHANGED <<chan, killed, parent, plock, wait_lock, cproc, child, scan, havekids>>

exit_zombie(c, p) ==
  /\ At(c, p, "exit_zombie")
  /\ Free(p)
  /\ Hold(c, p)
  /\ state' = [state EXCEPT ![p] = "ZOMBIE"]
  /\ wait_lock' = NoOne
  /\ Goto(p, "sched_exit")
  /\ UNCHANGED <<chan, killed, parent, cproc, child, loopVars>>

-----------------------------------------------------------------------------
(* wait()                                                                  *)

wait(c, p) ==
  /\ At(c, p, "user") /\ ~killed[p]
  /\ Goto(p, "wait")
  /\ UNCHANGED <<state, chan, killed, parent, plock, wait_lock, cproc, child, loopVars>>

wait_acquire(c, p) ==
  /\ At(c, p, "wait")
  /\ wait_lock = NoOne
  /\ wait_lock' = c
  /\ scan' = 1 /\ havekids' = FALSE
  /\ Goto(p, "wait_scan")
  /\ UNCHANGED <<state, chan, killed, parent, plock, cproc, child, wk>>

(* One turn of the scan: skip, note a live child, or reap a dead one (or   *)
(* give up because copyout() of its status fails).                         *)
wait_scan(c, p) ==
  /\ At(c, p, "wait_scan") /\ scan <= NPROC
  /\ \/ /\ ~IsChild(scan, p)
        /\ scan' = NextSlot(scan)
        /\ UNCHANGED <<state, chan, killed, parent, wait_lock, pc, havekids>>
     \/ /\ IsChild(scan, p) /\ Free(scan) /\ state[scan] # "ZOMBIE"
        /\ havekids' = TRUE
        /\ scan' = NextSlot(scan)
        /\ UNCHANGED <<state, chan, killed, parent, wait_lock, pc>>
     \/ /\ IsChild(scan, p) /\ Free(scan) /\ state[scan] = "ZOMBIE"
        /\ freeproc(scan) \/ UNCHANGED <<state, chan, killed, parent>>
        /\ wait_lock' = NoOne
        /\ Goto(p, "user")
        /\ UNCHANGED <<scan, havekids>>
  /\ UNCHANGED <<plock, cproc, child, wk>>

(* After the scan: give up, or go to sleep.                                *)
wait_decide(c, p) ==
  /\ At(c, p, "wait_scan") /\ scan > NPROC
  /\ IF ~havekids \/ killed[p]
     THEN wait_lock' = NoOne /\ Goto(p, "user")
     ELSE Goto(p, "wait_sleep") /\ UNCHANGED wait_lock
  /\ UNCHANGED <<state, chan, killed, parent, plock, cproc, child, loopVars>>

(* Variant of sleep that releases the condition lock before it takes       *)
(* p->lock: the process is not yet asleep when the lock is free.           *)
sleep_ReleaseFirst(c, p) ==
  /\ At(c, p, "wait_sleep")
  /\ \/ wait_lock = c /\ wait_lock' = NoOne /\ UNCHANGED <<plock, chan, state, pc>>
     \/ /\ wait_lock # c /\ Free(p)
        /\ plock' = [plock EXCEPT ![p] = c]
        /\ chan' = [chan EXCEPT ![p] = p]
        /\ state' = [state EXCEPT ![p] = "SLEEPING"]
        /\ Goto(p, "sched_sleep")
        /\ UNCHANGED wait_lock
  /\ UNCHANGED <<killed, parent, cproc, child, loopVars>>

(* sleep(p, &wait_lock)                                                    *)
sleep(c, p) ==
  /\ At(c, p, "wait_sleep")
  /\ Free(p)
  /\ Hold(c, p)
  /\ wait_lock' = NoOne
  /\ chan' = [chan EXCEPT ![p] = p]
  /\ state' = [state EXCEPT ![p] = "SLEEPING"]
  /\ Goto(p, "sched_sleep")
  /\ UNCHANGED <<killed, parent, cproc, child, loopVars>>

-----------------------------------------------------------------------------
(* kill(pid): q is the slot whose pid matches.  An UNUSED slot has pid 0,  *)
(* and kill(0) finds it.  Nobody kills init, whose exit is a panic.        *)

kill(c, p, q) ==
  /\ At(c, p, "user") /\ ~killed[p]
  /\ q # initproc /\ Free(q)
  /\ killed' = [killed EXCEPT ![q] = TRUE]
  /\ state' = [state EXCEPT ![q] = IF @ = "SLEEPING" THEN "RUNNABLE" ELSE @]
  /\ UNCHANGED <<chan, parent, plock, wait_lock, cproc, pc, child, loopVars>>

-----------------------------------------------------------------------------
Kernel(c, p) ==
  \/ sched(c, p) \/ sched_return(c, p) \/ resume(c, p)
  \/ fork_copy(c, p) \/ fork_parent(c, p) \/ fork_run(c, p) \/ fork_return(c, p)
  \/ exit_lock(c, p) \/ reparent(c, p) \/ wakeup_init(c, p) \/ wakeup_parent(c, p)
  \/ exit_zombie(c, p)
  \/ wait_acquire(c, p) \/ wait_scan(c, p) \/ wait_decide(c, p) \/ sleep(c, p)

Next ==
  \E c \in CPUs, p \in Procs :
    \/ schedule(c, p) \/ yield(c, p) \/ exit(c, p) \/ wait(c, p)
    \/ \E q \in Procs : fork(c, p, q) \/ kill(c, p, q)
    \/ Kernel(c, p)

Spec == Init /\ [][Next]_vars

(* A CPU keeps executing kernel code.  Timer interrupts keep arriving, so  *)
(* a process outside critical sections yields again and again, and the     *)
(* scan of proc[] by rr_scheduler() reaches every process that is RUNNABLE *)
(* again and again.                                                        *)
Fairness ==
  /\ \A c \in CPUs, p \in Procs : WF_vars(Kernel(c, p)) /\ SF_vars(yield(c, p))
  /\ \A p \in Procs : SF_vars(\E c \in CPUs : schedule(c, p))

FairSpec == Spec /\ Fairness

-----------------------------------------------------------------------------
(* No two CPUs ever run the same process, and so share its kernel stack:   *)
(* p->lock is held from the choice by a scheduler until the thread runs,   *)
(* and from the change of p->state until the thread has left its stack.    *)
(* wait() frees a zombie only after its CPU has left the zombie's kernel   *)
(* stack ("make sure the child isn't still in exit() or swtch()").         *)
OneCpuPerProcess ==
  /\ \A c, d \in CPUs : cproc[c] = cproc[d] /\ cproc[c] # NoOne => c = d
  /\ \A c \in CPUs : cproc[c] # NoOne => state[cproc[c]] # "UNUSED"

(* Every process that can run, or waits to be reaped, has a live parent:   *)
(* fork sets it before the child can run, exit passes children to init.    *)
ParentIsAlive ==
  wait_lock = NoOne =>
    \A p \in Procs \ {initproc} :
      state[p] \notin {"UNUSED", "USED"} =>
        /\ parent[p] \in Procs
        /\ state[parent[p]] \in {"SLEEPING", "RUNNABLE", "RUNNING"}

(* wakeups of wait()ing parents are not lost (proc.c:39): whenever         *)
(* wait_lock is free no process sleeps in wait() with a zombie child.      *)
NoLostExit ==
  wait_lock = NoOne =>
    \A p, q \in Procs :
      state[p] = "SLEEPING" /\ parent[q] = p => state[q] # "ZOMBIE"

(* fork() and deadfork() use np after they have made it runnable and       *)
(* released its lock.  np may have run and exited, but it is still the     *)
(* child: only its parent, which is here, could have reaped it.            *)
ForkResultIsChild ==
  \A p \in Procs :
    pc[p] = "fork_return" =>
      parent[child[p]] = p /\ state[child[p]] \notin {"UNUSED", "USED"}

(* A parent in wait() with a child that has exited returns from wait().    *)
WaitReturns ==
  \A p, q \in Procs :
    (pc[p] \in {"wait", "wait_scan", "wait_sleep", "sched_sleep", "sleeping"}
       /\ parent[q] = p /\ state[q] = "ZOMBIE")
    ~> pc[p] = "user"
=============================================================================
