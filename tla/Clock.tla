------------------------------- MODULE Clock -------------------------------
(***************************************************************************)
(* The clock: clockintr() of kernel/trap.c with the wakeup(&ticks) and     *)
(* drop_dead_processes() it calls, sys_sleep(), deadfork() and             *)
(* cpu_usage(), at the level of tickslock and the p->locks they nest.      *)
(* ticks is a C uint and wraps around.                                     *)
(*                                                                         *)
(* Interrupts are off while a spinlock is held, so the handler interrupts  *)
(* only a process that holds none, and that process then waits for it.     *)
(***************************************************************************)
EXTENDS Integers, FiniteSets

CONSTANTS
  NPROC,
  UINT,      \* number of values of a uint, 2^32 in the code
  MAXTICKS,  \* bound: largest argument of sleep() and deadfork()
  MAXLAG,    \* bound: a call of sleep() is over within so many ticks
  NoOne

ASSUME ClockAssumption ==
  /\ NPROC \in Nat \ {0} /\ MAXTICKS \in Nat
  /\ UINT \in Nat /\ MAXLAG \in Nat
  /\ MAXTICKS < MAXLAG /\ MAXLAG < UINT
  /\ NoOne \notin 0 .. NPROC

Procs == 1 .. NPROC
clock == 0                 \* the interrupt handler, as the holder of a lock
INF == UINT - 1            \* (uint) -1: no deadline

VARIABLES
  ticks, tickslock,
  plock, state, killed, deadline,  \* fields of struct proc
  pc, ticks0, n,                   \* where each process is; locals of sys_sleep()
  slept,                           \* ticks since sys_sleep() read ticks0
  child, newdl,                    \* np and the sum, in deadfork()
  handler, slot, cur               \* clockintr(): place, loop index, myproc()

vars == <<ticks, tickslock, plock, state, killed, deadline, pc, ticks0, n, slept,
          child, newdl, handler, slot, cur>>
procVars == <<plock, state, killed, deadline>>
sleepVars == <<ticks0, n, slept>>
forkVars == <<child, newdl>>
clockVars == <<handler, slot, cur>>

Init ==
  /\ ticks = 0 /\ tickslock = NoOne
  /\ plock = [p \in Procs |-> NoOne]
  /\ state = [p \in Procs |-> IF p = 1 THEN "RUNNING" ELSE "UNUSED"]
  /\ killed = [p \in Procs |-> FALSE]
  /\ deadline = [p \in Procs |-> INF]
  /\ pc = [p \in Procs |-> "user"]
  /\ ticks0 = [p \in Procs |-> 0]
  /\ n = [p \in Procs |-> 0]
  /\ slept = [p \in Procs |-> 0]
  /\ child = [p \in Procs |-> NoOne]
  /\ newdl = [p \in Procs |-> 0]
  /\ handler = "off" /\ slot = 1 /\ cur = NoOne

(* Process p executes, and has reached a label.                            *)
At(p, label) == state[p] = "RUNNING" /\ cur # p /\ pc[p] = label

Goto(p, label) == pc' = [pc EXCEPT ![p] = label]

Free(p) == plock[p] = NoOne

-----------------------------------------------------------------------------
(* sys_sleep()                                                             *)

sys_sleep(p, k) ==
  /\ At(p, "user") /\ ~killed[p]
  /\ tickslock = NoOne
  /\ tickslock' = p
  /\ ticks0' = [ticks0 EXCEPT ![p] = ticks]
  /\ n' = [n EXCEPT ![p] = k]
  /\ slept' = [slept EXCEPT ![p] = 0]
  /\ Goto(p, "s_loop")
  /\ UNCHANGED <<ticks, procVars, forkVars, clockVars>>

(* Variant of TooEarly that is off by one.                                 *)
TooEarly_ByOne(p) == ((ticks - ticks0[p]) % UINT) + 1 < n[p]

(* ticks - ticks0 < n                                                      *)
TooEarly(p) == (ticks - ticks0[p]) % UINT < n[p]

(* The loop: return after n ticks or when killed, else go on to sleep().   *)
sys_sleep_loop(p) ==
  /\ At(p, "s_loop")
  /\ TooEarly(p) => Free(p)                    \* killed() takes p->lock
  /\ IF TooEarly(p) /\ ~killed[p]
     THEN Goto(p, "s_block") /\ UNCHANGED <<tickslock, sleepVars>>
     ELSE /\ Goto(p, "user")
          /\ tickslock' = NoOne
          /\ ticks0' = [ticks0 EXCEPT ![p] = 0]
          /\ n' = [n EXCEPT ![p] = 0]
          /\ slept' = [slept EXCEPT ![p] = 0]
  /\ UNCHANGED <<ticks, procVars, forkVars, clockVars>>

(* sleep(&ticks, &tickslock)                                               *)
sys_sleep_block(p) ==
  /\ At(p, "s_block")
  /\ Free(p)
  /\ tickslock' = NoOne
  /\ state' = [state EXCEPT ![p] = "SLEEPING"]
  /\ Goto(p, "s_wake")
  /\ UNCHANGED <<ticks, plock, killed, deadline, sleepVars, forkVars, clockVars>>

sys_sleep_wake(p) ==
  /\ At(p, "s_wake")
  /\ tickslock = NoOne
  /\ tickslock' = p
  /\ Goto(p, "s_loop")
  /\ UNCHANGED <<ticks, procVars, sleepVars, forkVars, clockVars>>

-----------------------------------------------------------------------------
(* cpu_usage() takes p->lock, then tickslock.                              *)

cpu_usage(p) ==
  /\ At(p, "user") /\ ~killed[p]
  /\ Free(p)
  /\ plock' = [plock EXCEPT ![p] = p]
  /\ Goto(p, "cpu_usage")
  /\ UNCHANGED <<ticks, tickslock, state, killed, deadline, sleepVars, forkVars, clockVars>>

cpu_usage_read(p) ==
  /\ At(p, "cpu_usage")
  /\ tickslock = NoOne
  /\ plock' = [plock EXCEPT ![p] = NoOne]
  /\ Goto(p, "user")
  /\ UNCHANGED <<ticks, tickslock, state, killed, deadline, sleepVars, forkVars, clockVars>>

-----------------------------------------------------------------------------
(* deadfork(): the child already runs when its deadline is computed, and   *)
(* neither ticks nor np->deadline is locked.                               *)

deadfork(p, np, ttl) ==
  /\ At(p, "user") /\ ~killed[p]
  /\ state[np] = "UNUSED" /\ Free(np)
  /\ state' = [state EXCEPT ![np] = "RUNNABLE"]
  /\ child' = [child EXCEPT ![p] = np]
  /\ newdl' = [newdl EXCEPT ![p] = (ticks + ttl) % UINT]
  /\ Goto(p, "deadfork")
  /\ UNCHANGED <<ticks, tickslock, plock, killed, deadline, sleepVars, clockVars>>

deadfork_set(p) ==
  /\ At(p, "deadfork")
  /\ deadline' = [deadline EXCEPT ![child[p]] = newdl[p]]
  /\ child' = [child EXCEPT ![p] = NoOne]
  /\ newdl' = [newdl EXCEPT ![p] = 0]
  /\ Goto(p, "user")
  /\ UNCHANGED <<ticks, tickslock, plock, state, killed, sleepVars, clockVars>>

(* exit() and the wait() of a parent that is not in deadfork().            *)
exit(p) ==
  /\ At(p, "user") /\ p # 1 /\ Free(p)
  /\ state' = [state EXCEPT ![p] = "ZOMBIE"]
  /\ UNCHANGED <<ticks, tickslock, plock, killed, deadline, pc, sleepVars, forkVars, clockVars>>

reap(q) ==
  /\ state[q] = "ZOMBIE" /\ Free(q) /\ \A p \in Procs : child[p] # q
  /\ state' = [state EXCEPT ![q] = "UNUSED"]
  /\ killed' = [killed EXCEPT ![q] = FALSE]
  /\ deadline' = [deadline EXCEPT ![q] = INF]   \* by the next allocproc()
  /\ UNCHANGED <<ticks, tickslock, plock, pc, sleepVars, forkVars, clockVars>>

(* The scheduler of a free CPU.                                            *)
schedule(p) ==
  /\ state[p] = "RUNNABLE" /\ Free(p)
  /\ state' = [state EXCEPT ![p] = "RUNNING"]
  /\ UNCHANGED <<ticks, tickslock, plock, killed, deadline, pc, sleepVars, forkVars, clockVars>>

-----------------------------------------------------------------------------
(* clockintr() on CPU 0, on top of process p or of the idle scheduler.     *)

Sleeps(p) == pc[p] \in {"s_loop", "s_block", "s_wake"}

Interruptible(p) == At(p, "user") \/ At(p, "s_wake") \/ At(p, "deadfork")

(* ticks++                                                                 *)
Tick == (ticks + 1) % UINT

clockintr(p) ==
  /\ handler = "off"
  /\ p # NoOne => Interruptible(p)
  /\ tickslock = NoOne
  /\ tickslock' = clock
  /\ ticks' = Tick
  /\ \A q \in Procs : slept[q] < MAXLAG
  /\ slept' = [q \in Procs |-> IF Sleeps(q) THEN slept[q] + 1 ELSE 0]
  /\ handler' = "wakeup" /\ slot' = 1 /\ cur' = p
  /\ UNCHANGED <<procVars, pc, ticks0, n, forkVars>>

(* Variant of Wakened that misses the last slot of proc[].                 *)
Wakened_AllButLast == state[slot] = "SLEEPING" /\ slot < NPROC

(* proc[slot] sleeps on &ticks.                                            *)
Wakened == state[slot] = "SLEEPING"

(* One turn of the loop of wakeup(&ticks), which skips myproc().           *)
clock_wakeup ==
  /\ handler = "wakeup"
  /\ slot # cur => Free(slot)
  /\ state' = [state EXCEPT ![slot] = IF slot # cur /\ Wakened THEN "RUNNABLE" ELSE @]
  /\ IF slot < NPROC THEN slot' = slot + 1 /\ UNCHANGED handler
                     ELSE slot' = 1 /\ handler' = "drop"
  /\ UNCHANGED <<ticks, tickslock, plock, killed, deadline, pc, sleepVars, forkVars, cur>>

Alive(p) == state[p] \notin {"UNUSED", "ZOMBIE"}

(* Variant of Expired that misses the last slot of proc[].                 *)
Expired_AllButLast(p) ==
  p < NPROC /\ Alive(p) /\ deadline[p] # INF /\ deadline[p] <= ticks

Expired(p) == Alive(p) /\ deadline[p] # INF /\ deadline[p] <= ticks

(* One turn of the loop of drop_dead_processes(ticks).                     *)
clock_drop ==
  /\ handler = "drop"
  /\ Free(slot)
  /\ killed' = [killed EXCEPT ![slot] = @ \/ Expired(slot)]
  /\ state' = [state EXCEPT ![slot] =
                 IF Expired(slot) /\ @ = "SLEEPING" THEN "RUNNABLE" ELSE @]
  /\ IF slot < NPROC
     THEN slot' = slot + 1 /\ UNCHANGED <<tickslock, handler, cur>>
     ELSE slot' = 1 /\ tickslock' = NoOne /\ handler' = "off" /\ cur' = NoOne
  /\ UNCHANGED <<ticks, plock, deadline, pc, sleepVars, forkVars>>

-----------------------------------------------------------------------------
(* Steps inside a system call.                                             *)
Call(p) ==
  \/ sys_sleep_loop(p) \/ sys_sleep_block(p) \/ sys_sleep_wake(p)
  \/ cpu_usage_read(p) \/ deadfork_set(p)

Handler == clock_wakeup \/ clock_drop

Next ==
  \/ \E p \in Procs :
       \/ Call(p) \/ cpu_usage(p) \/ exit(p) \/ reap(p) \/ schedule(p)
       \/ \E k \in 0 .. MAXTICKS :
            sys_sleep(p, k) \/ \E np \in Procs : deadfork(p, np, k)
  \/ \E p \in Procs \cup {NoOne} : clockintr(p)
  \/ Handler

Spec == Init /\ [][Next]_vars

(* The timer keeps firing, and spinning CPUs get their locks in the end    *)
(* when these are free again and again; runnable processes are scheduled,  *)
(* and a killed process exits when it next returns to user space.          *)
Fairness ==
  /\ WF_vars(Handler)
  /\ SF_vars(\E p \in Procs \cup {NoOne} : clockintr(p))
  /\ \A p \in Procs :
       SF_vars(Call(p)) /\ SF_vars(schedule(p)) /\ SF_vars(killed[p] /\ exit(p))

FairSpec == Spec /\ Fairness

-----------------------------------------------------------------------------
(* sys_sleep(n) of a process that is not killed returns only after n       *)
(* ticks, also when ticks wraps around meanwhile.                          *)
SleepsLongEnough ==
  [][\A p \in Procs :
       pc[p] = "s_loop" /\ pc'[p] = "user" /\ ~killed[p] => slept[p] >= n[p]]_vars

(* The interrupt has come while a process is between the two acquire()s of *)
(* cpu_usage(): each waits for the other's lock, and the clock stops.      *)
LockCycle == tickslock = clock /\ \E p \in Procs : pc[p] = "cpu_usage"

(* A process whose deadline has passed is killed and exits, asleep or not  *)
(* (user/cu_sched.c:33), even when a tick falls between the two steps of   *)
(* deadfork(); only the deadlock with cpu_usage() prevents it.             *)
DeadlineKills ==
  \A p \in Procs \ {1} :
    (deadline[p] # INF /\ deadline[p] <= ticks) ~> (~Alive(p) \/ LockCycle)

(* sys_sleep() returns, unless the clock stops.                            *)
SleepReturns == \A p \in Procs : Sleeps(p) ~> (pc[p] = "user" \/ LockCycle)

(* acquire() "Loops (spins) until the lock is acquired." (spinlock.c:20):  *)
(* cpu_usage() gets tickslock.                                             *)
AcquireReturns == \A p \in Procs : pc[p] = "cpu_usage" ~> pc[p] = "user"
=============================================================================
