------------------------------ MODULE Threads ------------------------------
(***************************************************************************)
(* The threads of one process: create_thread(), join_thread(),             *)
(* stop_thread() and thread_cleanup() of kernel/proc.c, the choice of a    *)
(* thread by the two schedulers, and sched().                              *)
(*                                                                         *)
(* A process has one kernel stack and one trapframe page, p->trapframe,    *)
(* which the trampoline loads and saves.  The registers of the thread that *)
(* runs are copied into that page and out again, those of main stay in it. *)
(* Critical sections under p->lock are one step; the process runs on one   *)
(* CPU at a time, whose c->thread is the variable thread.  A system call   *)
(* may leave the CPU half way, and go on under another thread: what it     *)
(* does to "the running thread" it then does to that one.                  *)
(***************************************************************************)
EXTENDS Integers, FiniteSets

CONSTANTS
  MAX_THREAD,  \* param.h
  FirstTids,   \* what nexttid may be when this process makes its first thread
  MAXTID       \* bound: largest thread id

ASSUME ThreadsAssumption ==
  /\ MAX_THREAD \in Nat \ {0} /\ MAXTID \in Nat
  /\ FirstTids \subseteq 1 .. MAXTID

Slots == 0 .. MAX_THREAD - 1
Tids == 0 .. MAXTID
main == 0                  \* slot of the main thread, and its trapframe page
None == -1

VARIABLES
  pstate,           \* p->state
  state, id, join,  \* p->threads[]
  tf,               \* the thread's own trapframe page, by thread id
  pages,            \* trapframe pages that are allocated
  frame,            \* contents of p->trapframe
  ptf,              \* main's registers, in the scheduler's local variable
  thread, picked,   \* c->thread, and the slot the scheduler's tf points to
  last,             \* p->last_running_thread_index
  nexttid,
  at,               \* what is on the kernel stack: nothing ("user"), a system
                    \* call, one that only has to return, or exit()
  call,             \* the thread that made the system call
  regs,             \* how far each thread really is
  put_off           \* has a system call ever left the CPU half way?

vars == <<pstate, state, id, join, tf, pages, frame, ptf, thread, picked, last,
          nexttid, at, call, regs, put_off>>
slotVars == <<id, join, nexttid>>
cpuVars == <<tf, frame, ptf, thread, picked, last>>
ghostVars == <<regs, put_off>>

(* Registers: whose they are, how far that thread has come (modulo 2), and *)
(* whether a0 holds a value of its own, not the result of another's call.  *)
Frame(w) == [who |-> w, n |-> 0, own |-> TRUE]

(* What kfree() fills a page with.                                         *)
Junk == [who |-> None, n |-> 0, own |-> FALSE]

(* The page of a slot: p->trapframe for main, else one per thread.         *)
Page(i) == IF i = main THEN main ELSE id[i]

Init ==
  /\ pstate = "RUNNABLE"
  /\ state = [i \in Slots |-> "FREE"]
  /\ id = [i \in Slots |-> 0] /\ join = [i \in Slots |-> 0]
  /\ tf = [w \in Tids |-> Frame(w)]
  /\ pages = {main}
  /\ frame = Frame(main) /\ ptf = Frame(main)
  /\ thread = None /\ picked = main /\ last = 0
  /\ nexttid \in FirstTids
  /\ at = "user" /\ call = None
  /\ regs = [w \in Tids |-> 0] /\ put_off = FALSE

(* The slot that runs.                                                     *)
Current == IF thread = None THEN main ELSE thread

User == pstate = "RUNNING" /\ at = "user"
InCall == pstate = "RUNNING" /\ at = "call"

-----------------------------------------------------------------------------
(* The schedulers                                                          *)

Runnable == {i \in Slots : state[i] = "RUNNABLE"}

(* Variant of Turn that always starts at slot 0.                           *)
Turn_FromZero(i) == i

(* After how many others slot i is looked at.                              *)
Turn(i) == (i - last - 1) % MAX_THREAD

(* rr_scheduler() or min_cpu_usage_scheduler() has chosen the process.     *)
schedule_main ==
  /\ pstate = "RUNNABLE" /\ state[main] = "FREE"
  /\ pstate' = "RUNNING"
  /\ UNCHANGED <<state, slotVars, pages, cpuVars, at, call, ghostVars>>

schedule_thread ==
  /\ pstate = "RUNNABLE" /\ state[main] # "FREE"
  /\ \E i \in Runnable :
       /\ \A j \in Runnable : Turn(i) <= Turn(j)
       /\ state' = [state EXCEPT ![i] = "RUNNING"]
       /\ thread' = i /\ picked' = i /\ last' = i
       /\ IF i = main THEN UNCHANGED <<frame, ptf>>
                      ELSE ptf' = frame /\ frame' = tf[Page(i)]
  /\ pstate' = "RUNNING"
  /\ UNCHANGED <<slotVars, tf, pages, at, call, ghostVars>>

(* Variant of Saves that does not look at the thread's state.              *)
Saves_Always(s) == thread # None

(* sched() saves the registers of a thread that still exists.              *)
Saves(s) == thread # None /\ s[thread] # "FREE"

(* Variant of Restored that leaves the registers in p->trapframe.          *)
Restored_Never(f) == f

(* The scheduler after swtch() puts main's registers back.                 *)
Restored(f) == IF picked # main THEN ptf ELSE f

(* sched() with the thread states s, f in p->trapframe and pg in the other *)
(* pages, and the scheduler after swtch().                                 *)
sched(s, f, pg, ps) ==
  /\ pstate' = ps
  /\ state' = [i \in Slots |->
                 IF i = thread /\ Saves(s) /\ s[i] = "RUNNING" THEN "RUNNABLE" ELSE s[i]]
  /\ tf' = IF Saves(s) /\ thread # main THEN [pg EXCEPT ![Page(thread)] = f] ELSE pg
  /\ frame' = Restored(f)
  /\ ptf' = Frame(main)
  /\ thread' = None /\ picked' = main
  /\ UNCHANGED last

-----------------------------------------------------------------------------
(* User code, the timer, and other system calls                            *)

(* User code runs on, unless it got junk for a program counter.            *)
step ==
  /\ User /\ frame # Junk
  /\ frame' = [frame EXCEPT !.n = 1 - @]
  /\ regs' = [regs EXCEPT ![Page(Current)] = 1 - @]
  /\ UNCHANGED <<pstate, state, slotVars, pages, tf, ptf, thread, picked, last, at, call,
                 put_off>>

(* A timer interrupt in user mode, and one in the kernel or a sleep()      *)
(* there, which leaves what the kernel does on its stack.                  *)
timer ==
  /\ pstate = "RUNNING"
  /\ sched(state, frame, tf, "RUNNABLE")
  /\ put_off' = (put_off \/ at # "user")
  /\ UNCHANGED <<slotVars, pages, at, call, regs>>

syscall ==
  /\ User
  /\ at' = "call" /\ call' = Page(Current)
  /\ UNCHANGED <<pstate, state, slotVars, pages, cpuVars, ghostVars>>

(* p->trapframe->a0 = syscalls[num](), whosever registers are there now.   *)
syscall_return ==
  /\ pstate = "RUNNING" /\ at \in {"call", "return"}
  /\ frame' = [frame EXCEPT !.own = (call = frame.who)]
  /\ at' = "user" /\ call' = None
  /\ UNCHANGED <<pstate, state, slotVars, pages, tf, ptf, thread, picked, last, ghostVars>>

-----------------------------------------------------------------------------
(* The thread calls                                                        *)

(* alloctid() returns nexttid, and leaves it one higher.                   *)
alloctid(next) == next

Free(s) == {i \in Slots : s[i] = "FREE"}

(* The first call makes its caller the main thread, in slot 0.             *)
create_thread ==
  /\ InCall
  /\ LET first == state[main] = "FREE"
         s == IF first THEN [state EXCEPT ![main] = "RUNNING"] ELSE state
         d == IF first THEN [id EXCEPT ![main] = alloctid(nexttid)] ELSE id
         next == IF first THEN nexttid + 1 ELSE nexttid
         tid == alloctid(next)
     IN  /\ next <= MAXTID
         /\ thread' = IF first THEN main ELSE thread
         /\ \/ /\ Free(s) = {}
               /\ state' = s /\ id' = d /\ nexttid' = next
               /\ join' = [join EXCEPT ![main] = IF first THEN 0 ELSE @]
               /\ UNCHANGED <<pages, tf, regs>>
            \/ \E i \in Free(s) :
                 /\ \A k \in Free(s) : i <= k
                 /\ state' = [s EXCEPT ![i] = "RUNNABLE"]
                 /\ id' = [d EXCEPT ![i] = tid]
                 /\ join' = [join EXCEPT ![main] = IF first THEN 0 ELSE @, ![i] = 0]
                 /\ nexttid' = next + 1
                 /\ pages' = pages \cup {tid}
                 /\ tf' = [tf EXCEPT ![tid] = Frame(tid)]
                 /\ regs' = [regs EXCEPT ![tid] = 0]
  /\ at' = "return"
  /\ UNCHANGED <<pstate, frame, ptf, picked, last, call, put_off>>

Joinable(i, tid) == id[i] = tid /\ state[i] # "FREE"

(* The end of a call that goes to yield() and usertrapret(), past the end  *)
(* of syscall().                                                           *)
NoReturn == at' = "user" /\ call' = None

(* join_thread() of a thread that exists; else it returns -1.  The store   *)
(* through a null c->thread panics, which ends the system.                 *)
join_thread(tid) ==
  /\ InCall /\ thread # None
  /\ \E i \in Slots : Joinable(i, tid)
  /\ join' = [join EXCEPT ![thread] = tid]
  /\ sched([state EXCEPT ![thread] = "JOINED"], frame, tf, "RUNNABLE")
  /\ NoReturn
  /\ UNCHANGED <<id, nexttid, pages, ghostVars>>

(* Variant of Joiners that wakes one thread only.                          *)
Joiners_One(i) ==
  {j \in Slots \ {i} : /\ state[j] = "JOINED" /\ join[j] = id[i]
                       /\ \A k \in Slots : state[k] = "JOINED" /\ join[k] = id[i] => j <= k}

(* The threads that wait for slot i.                                       *)
Joiners(i) == {j \in Slots \ {i} : state[j] = "JOINED" /\ join[j] = id[i]}

(* The states after slot i is freed and its joiners are woken.             *)
Woken(i) ==
  [j \in Slots |-> IF j = i THEN "FREE" ELSE IF j \in Joiners(i) THEN "RUNNABLE" ELSE state[j]]

(* thread_cleanup(): is this the main thread?                              *)
EndsProcess(i) == id[i] = 1

(* p->trapframe and the other pages after kfree() of those of the slots s. *)
FrameAfter(s) == IF main \in s THEN Junk ELSE frame
PagesAfter(s) == [w \in Tids |-> IF \E i \in s \ {main} : id[i] = w THEN Junk ELSE tf[w]]

(* How far a thread that is gone had come no longer matters.               *)
RegsAfter(s) == [w \in Tids |-> IF \E i \in s \ {main} : id[i] = w THEN 0 ELSE regs[w]]

(* stop_thread() of slot i, and cleanup() of a thread whose function       *)
(* returned: yield() and usertrapret(), or exit().  A tid that no slot has *)
(* returns -1.                                                             *)
thread_cleanup(i) ==
  /\ InCall
  /\ \/ /\ state[i] = "FREE"
        /\ sched(state, frame, tf, "RUNNABLE")
        /\ NoReturn
        /\ UNCHANGED <<join, pages, regs>>
     \/ /\ state[i] # "FREE" /\ ~EndsProcess(i)
        /\ sched(Woken(i), FrameAfter({i}), PagesAfter({i}), "RUNNABLE")
        /\ join' = [j \in Slots |-> IF j \in Joiners(i) THEN 0 ELSE join[j]]
        /\ pages' = pages \ {Page(i)}
        /\ regs' = RegsAfter({i})
        /\ NoReturn
     \/ /\ state[i] # "FREE" /\ EndsProcess(i)
        /\ state' = [state EXCEPT ![i] = "FREE"]
        /\ LET used == {k \in Slots : state[k] # "FREE"}
           IN  /\ frame' = FrameAfter(used) /\ tf' = PagesAfter(used)
               /\ pages' = pages \ {Page(j) : j \in used}
               /\ regs' = RegsAfter(used)
        /\ at' = "exit" /\ call' = None
        /\ UNCHANGED <<pstate, join, ptf, thread, picked, last>>
  /\ UNCHANGED <<id, nexttid, put_off>>

(* exit() from any thread, which may still leave the CPU before it is      *)
(* done; the thread pages stay allocated.                                  *)
exit ==
  /\ InCall
  /\ at' = "exit" /\ call' = None
  /\ UNCHANGED <<pstate, state, slotVars, pages, cpuVars, ghostVars>>

(* The end of exit().                                                      *)
exit_sched ==
  /\ pstate = "RUNNING" /\ at = "exit"
  /\ sched(state, frame, tf, "ZOMBIE")
  /\ UNCHANGED <<slotVars, pages, at, call, ghostVars>>

(* freeproc()                                                              *)
reap ==
  /\ pstate = "ZOMBIE"
  /\ pstate' = "UNUSED"
  /\ pages' = pages \ {main}
  /\ UNCHANGED <<state, slotVars, cpuVars, at, call, ghostVars>>

-----------------------------------------------------------------------------
schedule == schedule_main \/ schedule_thread

Next ==
  \/ schedule \/ step \/ timer \/ syscall \/ syscall_return
  \/ create_thread \/ exit \/ exit_sched \/ reap
  \/ \E tid \in Tids : join_thread(tid)
  \/ \E i \in Slots : thread_cleanup(i)

Spec == Init /\ [][Next]_vars

(* The process is scheduled whenever a thread of it can run, and the timer *)
(* keeps interrupting it.                                                  *)
FairSpec == Spec /\ WF_vars(schedule) /\ WF_vars(timer)

-----------------------------------------------------------------------------
(* As long as main has not been stopped, a thread runs with its own        *)
(* registers as it left them, whatever thread's trap or call put the       *)
(* process off the CPU: the copies between p->trapframe, t->trapframe and  *)
(* the scheduler's ptf lose nothing and mix nothing up.  The exception is  *)
(* a0, which is its own as long as no system call has left the CPU half    *)
(* way: such a call stores its result in the a0 of the thread that runs    *)
(* when it returns (syscall.c:165).                                        *)
OwnRegisters ==
  pstate = "RUNNING" /\ main \in pages =>
    /\ frame.who = Page(Current) /\ frame.n = regs[Page(Current)]
    /\ put_off \/ frame.own

(* A thread in join_thread() waits for a thread that still exists, so that *)
(* thread_cleanup() of that thread will find it, unless the process is on  *)
(* its way out.                                                            *)
NoLostJoin ==
  pstate \in {"RUNNABLE", "RUNNING"} /\ at # "exit" =>
    \A i \in Slots : state[i] = "JOINED" => \E j \in Slots : id[j] = join[i] /\ state[j] # "FREE"

(* A step writes no freed page, and leaves no thread running without one.  *)
UsesLivePages ==
  /\ \A w \in Tids : tf'[w] \notin {tf[w], Junk} => w \in pages'
  /\ thread' # None => Page(thread)' \in pages'

(* As long as main has not been stopped, no freed trapframe page is used:  *)
(* sched() does not save the registers of a thread that has just stopped   *)
(* itself, exit() of a process with threads included, and the scheduler    *)
(* runs no thread whose page is gone.                                      *)
SavesToLivePage == [][(main \in pages') => UsesLivePages]_vars

(* Every runnable thread gets to run, or is stopped, or its process ends,  *)
(* as long as main, without whose slot the schedulers look at no thread    *)
(* (proc.c:525), has not been stopped.                                     *)
ThreadRuns ==
  \A i \in Slots :
    state[i] = "RUNNABLE" ~>
      (state[i] # "RUNNABLE" \/ state[main] = "FREE" \/ pstate \in {"ZOMBIE", "UNUSED"})

(* "main thread cleaning up terminates the whole process" (proc.c:1158).   *)
MainStopEndsProcess ==
  [][state[main] # "FREE" /\ state'[main] = "FREE" => at' = "exit"]_vars
=============================================================================
