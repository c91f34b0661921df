--------------------------- MODULE ThreadsProofs ---------------------------
(***************************************************************************)
(* Proofs about the threads of a process, for any MAX_THREAD.  As long as  *)
(* main has not been stopped, the registers of a thread are at every       *)
(* moment in one of three places: in p->trapframe, in the page of the      *)
(* thread, or, those of the main thread, in ptf on the stack of the        *)
(* scheduler.  LiveInv says in which one.  BaseInv holds whatever happens: *)
(* thread ids are not used twice, so that no two slots share a page, and   *)
(* no join is lost.                                                        *)
(***************************************************************************)
EXTENDS Threads, TLAPS

States == {"FREE", "RUNNABLE", "RUNNING", "JOINED"}
Regs == [who : Tids \cup {None}, n : {0, 1}, own : BOOLEAN]

(* f has the registers of page w as its thread left them, a0 included if   *)
(* no system call was ever put off.                                        *)
Holds(f, w) == f.who = w /\ f.n = regs[w] /\ (put_off \/ f.own)

Typed ==
  /\ pstate \in {"RUNNABLE", "RUNNING", "ZOMBIE", "UNUSED"}
  /\ state \in [Slots -> States]
  /\ id \in [Slots -> Tids] /\ join \in [Slots -> Tids]
  /\ tf \in [Tids -> Regs] /\ frame \in Regs /\ ptf \in Regs
  /\ regs \in [Tids -> {0, 1}]
  /\ pages \subseteq Tids
  /\ thread \in Slots \cup {None} /\ picked \in Slots
  /\ nexttid \in 1 .. MAXTID + 1

(* Thread ids are never used twice; only slots that were never used share  *)
(* the id 0.                                                               *)
IdInv ==
  /\ \A i \in Slots : id[i] < nexttid /\ (state[i] # "FREE" => id[i] >= 1)
  /\ \A i, j \in Slots : i # j /\ id[i] = id[j] => id[i] = 0

(* c->thread names a thread that runs, unless the process is about to end. *)
ThreadInv ==
  /\ pstate # "RUNNING" => thread = None
  /\ thread # None /\ at # "exit" => state[thread] = "RUNNING"

BaseInv == Typed /\ IdInv /\ ThreadInv /\ NoLostJoin

(* On the CPU: p->trapframe holds the registers of the thread that runs,   *)
(* the scheduler's ptf those of main when that is another one, and a       *)
(* system call that was never put off is that thread's own.                *)
RunInv ==
  pstate = "RUNNING" =>
    /\ thread = None <=> state[main] = "FREE"
    /\ thread # None => state[thread] = "RUNNING"
    /\ picked = Current
    /\ Holds(frame, Page(Current))
    /\ picked # main => Holds(ptf, main)
    /\ at \in {"call", "return"} => put_off \/ call = Page(Current)

(* Off the CPU: p->trapframe holds the registers of main.                  *)
OffInv ==
  pstate = "RUNNABLE" =>
    /\ picked = main /\ Holds(frame, main)
    /\ at \in {"call", "return"} => put_off

(* A thread that does not run has its registers in its page, which is      *)
(* allocated as long as the thread exists.                                 *)
PageInv(i) ==
  pstate \in {"RUNNABLE", "RUNNING"} /\ i # main /\ state[i] # "FREE" =>
    id[i] \in pages /\ (i # thread => Holds(tf[id[i]], id[i]))

(* While main has not been stopped.  There are no threads without it.      *)
LiveInv ==
  /\ RunInv /\ OffInv /\ \A i \in Slots : PageInv(i)
  /\ state[main] = "FREE" => \A i \in Slots : state[i] = "FREE"

ThreadsInv == BaseInv /\ (main \in pages => LiveInv)

-----------------------------------------------------------------------------
(* The slots, the ids, and the constants that name some of them.           *)
LEMMA SlotFacts ==
  /\ main \in Slots /\ None \notin Slots /\ None # main
  /\ Slots \subseteq Nat /\ Tids \subseteq Nat /\ main \in Tids
  /\ MAXTID \in Nat /\ FirstTids \subseteq 1 .. MAXTID
BY ThreadsAssumption DEF main, None, Slots, Tids

(* The registers a thread starts with, and those of a freed page.          *)
LEMMA FrameTyped ==
  /\ \A w \in Tids : Frame(w) \in Regs /\ Frame(w).who = w /\ Frame(w).n = 0 /\ Frame(w).own
  /\ Junk \in Regs
BY DEF Frame, Junk, Regs

(* A process begins with no thread and its registers in p->trapframe.      *)
LEMMA ThreadsInitial ==
  ASSUME Init
  PROVE  ThreadsInv
<1> USE SlotFacts, FrameTyped
<1>1. Typed
  BY DEF Init, Typed, States, main
<1>2. IdInv /\ ThreadInv /\ NoLostJoin
  BY DEF Init, IdInv, ThreadInv, NoLostJoin
<1>3. RunInv /\ OffInv
  <2>1. Holds(frame, main)
    BY DEF Init, Holds
  <2> QED BY <2>1 DEF Init, RunInv, OffInv
<1>4. ASSUME NEW i \in Slots PROVE PageInv(i)
  BY DEF Init, PageInv
<1> QED BY <1>1, <1>2, <1>3, <1>4 DEF ThreadsInv, BaseInv, LiveInv, Init

-----------------------------------------------------------------------------
(* sched() and the scheduler after it, with thread states s of which none  *)
(* is new: what it leaves is well-formed.                                  *)
LEMMA SchedBase ==
  ASSUME Typed, IdInv, pstate = "RUNNING",
         NEW s \in [Slots -> States], NEW f \in Regs, NEW pg \in [Tids -> Regs],
         NEW ps \in {"RUNNABLE", "ZOMBIE"}, sched(s, f, pg, ps),
         UNCHANGED <<id, nexttid>>,
         join' \in [Slots -> Tids], pages' \subseteq pages, regs' \in [Tids -> {0, 1}],
         \A i \in Slots : s[i] # "FREE" => state[i] # "FREE",
         ps = "RUNNABLE" /\ at' # "exit" =>
           \A i \in Slots : s[i] = "JOINED" =>
             \E j \in Slots : id[j] = join'[i] /\ s[j] # "FREE"
  PROVE  /\ BaseInv'
         /\ \A i \in Slots : state'[i] = "FREE" <=> s[i] = "FREE"
<1> USE SlotFacts, FrameTyped
<1>1. ASSUME NEW i \in Slots
      PROVE  /\ state'[i] = "FREE" <=> s[i] = "FREE"
             /\ state'[i] = "JOINED" <=> s[i] = "JOINED"
  BY DEF sched
<1>2. state' \in [Slots -> States]
  BY DEF sched, States
<1>3. tf' \in [Tids -> Regs]
  BY DEF sched
<1>4. frame' \in Regs
  BY DEF sched, Restored, Typed
<1>5. Typed'
  BY <1>2, <1>3, <1>4 DEF Typed, sched
<1>6. IdInv'
  BY <1>1 DEF IdInv
<1>7. ThreadInv' /\ NoLostJoin'
  BY <1>1 DEF ThreadInv, NoLostJoin, sched
<1> QED BY <1>1, <1>5, <1>6, <1>7 DEF BaseInv

(* ... and, as long as main lives, the registers of the thread that ran    *)
(* are in its page, unless it is gone, and those of main are back in       *)
(* p->trapframe.                                                           *)
LEMMA SchedLive ==
  ASSUME Typed, IdInv, LiveInv, pstate = "RUNNING",
         NEW s \in [Slots -> States], NEW pg \in [Tids -> Regs],
         NEW ps \in {"RUNNABLE", "ZOMBIE"}, sched(s, frame, pg, ps),
         UNCHANGED id, put_off => put_off',
         \A i \in Slots : state'[i] = "FREE" <=> s[i] = "FREE",
         s[main] = "FREE" <=> state[main] = "FREE",
         \A i \in Slots \ {main} : s[i] # "FREE" =>
           /\ state[i] # "FREE" /\ id[i] \in pages'
           /\ pg[id[i]] = tf[id[i]] /\ regs'[id[i]] = regs[id[i]],
         regs'[main] = regs[main],
         at' \in {"call", "return"} => put_off'
  PROVE  LiveInv'
<1> USE SlotFacts
<1>1. /\ thread # None => state[thread] = "RUNNING"
      /\ picked = Current /\ Holds(frame, Page(Current)) /\ (picked # main => Holds(ptf, main))
  BY DEF LiveInv, RunInv
<1>2. pstate' = ps /\ thread' = None /\ picked' = main
  BY DEF sched
<1>3. Holds(frame, main)'
  <2>1. frame' = (IF picked # main THEN ptf ELSE frame)
    BY DEF sched, Restored
  <2>2. picked = main => Page(Current) = main
    BY <1>1 DEF Page
  <2>3. Holds(frame', main)
    BY ZenonT(60), <1>1, <2>1, <2>2
  <2> QED BY <2>3 DEF Holds
<1>4. ASSUME NEW i \in Slots PROVE PageInv(i)'
  <2>1. SUFFICES ASSUME i # main, s[i] # "FREE"
                 PROVE  id[i] \in pages' /\ Holds(tf[id[i]], id[i])'
    BY DEF PageInv
  <2>2. id[i] \in Tids /\ regs'[id[i]] = regs[id[i]]
    BY <2>1 DEF Typed
  <2>3. CASE i = thread
    <3>1. tf' = [pg EXCEPT ![id[i]] = frame] /\ Holds(frame, id[i])
      BY <1>1, <2>1, <2>3 DEF sched, Saves, Page, Current
    <3>2. tf'[id[i]] = frame
      BY <2>2, <3>1
    <3> QED BY <2>1, <2>2, <3>1, <3>2 DEF Holds
  <2>4. CASE i # thread
    <3>1. Holds(tf[id[i]], id[i])
      BY <2>1, <2>4 DEF LiveInv, PageInv
    <3>2. Saves(s) /\ thread # main => Page(thread) # id[i]
      BY <2>1, <2>4 DEF IdInv, Page, Saves, Typed
    <3>3. tf'[id[i]] = tf[id[i]]
      BY <2>1, <2>2, <3>2 DEF sched
    <3> QED BY <2>1, <2>2, <3>1, <3>3 DEF Holds
  <2> QED BY <2>3, <2>4
<1>5. RunInv' /\ OffInv'
  BY <1>2, <1>3 DEF RunInv, OffInv
<1>6. state'[main] = "FREE" => \A i \in Slots : state'[i] = "FREE"
  BY DEF LiveInv
<1> QED BY <1>4, <1>5, <1>6 DEF LiveInv

-----------------------------------------------------------------------------
(* A process without threads runs as main.                                 *)
LEMMA schedule_mainKeeps ==
  ASSUME ThreadsInv, schedule_main
  PROVE  ThreadsInv'
<1> USE SlotFacts
<1>1. /\ pstate = "RUNNABLE" /\ pstate' = "RUNNING" /\ state[main] = "FREE"
      /\ UNCHANGED <<state, id, join, nexttid, tf, pages, frame, ptf, thread, picked, at, call,
                     regs, put_off>>
  BY DEF schedule_main, slotVars, cpuVars, ghostVars
<1>2. BaseInv'
  BY <1>1 DEF ThreadsInv, BaseInv, Typed, IdInv, ThreadInv, NoLostJoin
<1>3. ASSUME LiveInv PROVE LiveInv'
  <2>1. picked = main /\ thread = None /\ Holds(frame, main)
        /\ (at \in {"call", "return"} => put_off)
    BY <1>1, <1>3 DEF LiveInv, OffInv, ThreadsInv, BaseInv, ThreadInv
  <2>2. Current' = main /\ Page(Current)' = main
    BY <1>1, <2>1 DEF Current, Page
  <2>3. Holds(frame, main)'
    BY <1>1, <2>1 DEF Holds
  <2>4. RunInv' /\ OffInv'
    BY <1>1, <2>1, <2>2, <2>3 DEF RunInv, OffInv
  <2>5. ASSUME NEW i \in Slots PROVE PageInv(i)'
    BY <1>1, <1>3 DEF LiveInv, PageInv
  <2> QED BY <1>1, <1>3, <2>4, <2>5 DEF LiveInv
<1> QED BY <1>1, <1>2, <1>3 DEF ThreadsInv

(* The thread that is chosen finds its registers in p->trapframe; main's   *)
(* are in the scheduler's ptf meanwhile.                                   *)
LEMMA schedule_threadKeeps ==
  ASSUME ThreadsInv, schedule_thread
  PROVE  ThreadsInv'
<1> USE SlotFacts
<1>1. Typed /\ IdInv /\ NoLostJoin
  BY DEF ThreadsInv, BaseInv
<1>2. PICK i \in Slots :
        /\ state[i] = "RUNNABLE" /\ state' = [state EXCEPT ![i] = "RUNNING"]
        /\ thread' = i /\ picked' = i
        /\ IF i = main THEN UNCHANGED <<frame, ptf>>
                       ELSE ptf' = frame /\ frame' = tf[Page(i)]
  BY ZenonT(60) DEF schedule_thread, Runnable
<1>3. /\ pstate = "RUNNABLE" /\ pstate' = "RUNNING" /\ state[main] # "FREE"
      /\ UNCHANGED <<id, join, nexttid, tf, pages, at, call, regs, put_off>>
  BY DEF schedule_thread, slotVars, ghostVars
<1>4. id[i] \in Tids /\ (i # main => Page(i) = id[i])
  BY <1>1, <1>2 DEF Typed, Page
<1>5. \A j \in Slots : state'[j] = IF j = i THEN "RUNNING" ELSE state[j]
  BY <1>1, <1>2 DEF Typed
<1>6. Typed'
  <2>1. frame' \in Regs /\ ptf' \in Regs
    <3>1. CASE i = main
      BY <1>1, <1>2, <3>1 DEF Typed
    <3>2. CASE i # main
      <4>1. frame' = tf[id[i]] /\ ptf' = frame
        BY <1>2, <1>4, <3>2
      <4> QED BY ZenonT(60), <1>1, <1>4, <4>1 DEF Typed
    <3> QED BY <3>1, <3>2
  <2> QED BY <1>1, <1>2, <1>3, <2>1 DEF Typed, States
<1>7. IdInv'
  BY <1>1, <1>2, <1>3, <1>5 DEF IdInv
<1>8. ThreadInv' /\ NoLostJoin'
  BY <1>1, <1>2, <1>3, <1>5 DEF ThreadInv, NoLostJoin
<1>9. ASSUME LiveInv PROVE LiveInv'
  <2>1. thread = None /\ Holds(frame, main) /\ (at \in {"call", "return"} => put_off)
    BY <1>3, <1>9 DEF LiveInv, OffInv, ThreadsInv, BaseInv, ThreadInv
  <2>2. i # main => Holds(tf[id[i]], id[i])
    BY <1>2, <1>3, <1>9, <2>1 DEF LiveInv, PageInv
  <2>3. Current' = i /\ Page(Current)' = Page(i)
    BY <1>2, <1>3 DEF Current, Page
  <2>4. Holds(frame', Page(i)) /\ (i # main => Holds(ptf', main))
    BY ZenonT(60), <1>2, <1>4, <2>1, <2>2 DEF Page
  <2>5. Holds(frame, Page(Current))' /\ (picked' # main => Holds(ptf, main)')
    BY <1>2, <1>3, <2>3, <2>4 DEF Holds
  <2>6. RunInv' /\ OffInv'
    BY <1>2, <1>3, <1>5, <2>1, <2>3, <2>5 DEF RunInv, OffInv
  <2>7. ASSUME NEW j \in Slots PROVE PageInv(j)'
    BY <1>2, <1>3, <1>5, <1>9, <2>1 DEF LiveInv, PageInv, Holds
  <2> QED BY <1>3, <1>5, <2>6, <2>7 DEF LiveInv
<1> QED BY <1>3, <1>6, <1>7, <1>8, <1>9 DEF ThreadsInv, BaseInv

(* A thread changes its own registers only.                                *)
LEMMA stepKeeps ==
  ASSUME ThreadsInv, step
  PROVE  ThreadsInv'
<1> USE SlotFacts
<1>1. Typed /\ IdInv /\ ThreadInv /\ NoLostJoin
  BY DEF ThreadsInv, BaseInv
<1>2. PICK me \in Tids : me = Page(Current)
  BY <1>1 DEF Typed, Page, Current
<1>3. /\ pstate = "RUNNING" /\ frame' = [frame EXCEPT !.n = 1 - @]
      /\ regs' = [regs EXCEPT ![me] = 1 - @]
      /\ UNCHANGED <<pstate, state, id, join, nexttid, pages, tf, ptf, thread, picked, at, call,
                     put_off>>
  BY <1>2 DEF step, User, slotVars
<1>4. regs[me] \in {0, 1} /\ regs' \in [Tids -> {0, 1}] /\ regs'[me] = 1 - regs[me]
      /\ \A w \in Tids \ {me} : regs'[w] = regs[w]
  BY <1>1, <1>3 DEF Typed
<1>5. frame' \in Regs /\ frame'.who = frame.who /\ frame'.n = 1 - frame.n
      /\ frame'.own = frame.own
  BY <1>1, <1>3 DEF Typed, Regs
<1>6. BaseInv'
  BY <1>1, <1>3, <1>4, <1>5 DEF BaseInv, Typed, IdInv, ThreadInv, NoLostJoin
<1>7. ASSUME LiveInv PROVE LiveInv'
  <2>1. /\ picked = Current /\ Holds(frame, me) /\ (picked # main => Holds(ptf, main))
        /\ (thread = None <=> state[main] = "FREE")
        /\ (thread # None => state[thread] = "RUNNING")
        /\ at \in {"call", "return"} => put_off \/ call = me
    BY <1>2, <1>3, <1>7 DEF LiveInv, RunInv
  <2>2. Current' = Current /\ Page(Current)' = me
    BY <1>2, <1>3 DEF Current, Page
  <2>3. Holds(frame, Page(Current))'
    BY <1>3, <1>4, <1>5, <2>1, <2>2 DEF Holds
  <2>4. picked # main => me # main
    BY <1>1, <1>2, <2>1 DEF IdInv, Page, Current, main, Typed
  <2>5. picked # main => Holds(ptf, main)'
    BY <1>3, <1>4, <2>1, <2>4 DEF Holds
  <2>6. RunInv' /\ OffInv'
    BY <1>3, <2>1, <2>2, <2>3, <2>5 DEF RunInv, OffInv
  <2>7. ASSUME NEW i \in Slots PROVE PageInv(i)'
    <3>1. i # main /\ state[i] # "FREE" /\ i # thread => id[i] \in Tids \ {me}
      BY <1>1, <1>2 DEF IdInv, Page, Current, main, Typed
    <3> QED BY <1>3, <1>4, <1>7, <3>1 DEF LiveInv, PageInv, Holds
  <2> QED BY <1>3, <1>7, <2>6, <2>7 DEF LiveInv
<1> QED BY <1>3, <1>6, <1>7 DEF ThreadsInv

(* A system call begins on the kernel stack of the process.                *)
LEMMA syscallKeeps ==
  ASSUME ThreadsInv, syscall \/ exit
  PROVE  ThreadsInv'
<1>1. /\ pstate = "RUNNING"
      /\ \/ at' = "call" /\ call' = Page(Current)
         \/ at' = "exit"
      /\ UNCHANGED <<pstate, state, id, join, nexttid, pages, tf, frame, ptf, thread, picked,
                     regs, put_off>>
  BY DEF syscall, exit, User, InCall, slotVars, cpuVars, ghostVars
<1>2. BaseInv'
  <2>1. at' # "exit" => at # "exit"
    BY DEF syscall, exit, User, InCall
  <2> QED BY <1>1, <2>1 DEF ThreadsInv, BaseInv, Typed, IdInv, ThreadInv, NoLostJoin
<1>3. ASSUME LiveInv PROVE LiveInv'
  <2>1. Current' = Current /\ Page(Current)' = Page(Current)
    BY <1>1 DEF Current, Page
  <2>2. RunInv' /\ OffInv'
    BY <1>1, <1>3, <2>1 DEF LiveInv, RunInv, OffInv, Holds
  <2>3. ASSUME NEW i \in Slots PROVE PageInv(i)'
    BY <1>1, <1>3 DEF LiveInv, PageInv, Holds
  <2> QED BY <1>1, <1>3, <2>2, <2>3 DEF LiveInv
<1> QED BY <1>1, <1>2, <1>3 DEF ThreadsInv

(* It ends with a store to the a0 that is then in p->trapframe, and leaves *)
(* the other registers alone.                                              *)
LEMMA syscall_returnKeeps ==
  ASSUME ThreadsInv, syscall_return
  PROVE  ThreadsInv'
<1> USE SlotFacts
<1>1. /\ pstate = "RUNNING" /\ at \in {"call", "return"} /\ at' = "user"
      /\ frame' = [frame EXCEPT !.own = (call = frame.who)]
      /\ UNCHANGED <<pstate, state, id, join, nexttid, pages, tf, ptf, thread, picked,
                     regs, put_off>>
  BY DEF syscall_return, slotVars, ghostVars
<1>2. frame \in Regs /\ frame' \in Regs /\ frame'.who = frame.who /\ frame'.n = frame.n
      /\ frame'.own = (call = frame.who)
  BY <1>1 DEF ThreadsInv, BaseInv, Typed, Regs
<1>3. BaseInv'
  BY <1>1, <1>2 DEF ThreadsInv, BaseInv, Typed, IdInv, ThreadInv, NoLostJoin
<1>4. ASSUME LiveInv PROVE LiveInv'
  <2>1. Current' = Current /\ Page(Current)' = Page(Current)
    BY <1>1 DEF Current, Page
  <2>2. Holds(frame, Page(Current)) /\ (put_off \/ call = Page(Current))
    BY <1>1, <1>4 DEF LiveInv, RunInv
  <2>3. Holds(frame, Page(Current))'
    BY <1>1, <1>2, <2>1, <2>2 DEF Holds
  <2>4. RunInv' /\ OffInv'
    BY <1>1, <1>4, <2>1, <2>3 DEF LiveInv, RunInv, OffInv, Holds
  <2>5. ASSUME NEW i \in Slots PROVE PageInv(i)'
    BY <1>1, <1>4 DEF LiveInv, PageInv, Holds
  <2> QED BY <1>1, <1>4, <2>4, <2>5 DEF LiveInv
<1> QED BY <1>1, <1>3, <1>4 DEF ThreadsInv

(* freeproc() ends the process.                                            *)
LEMMA reapKeeps ==
  ASSUME ThreadsInv, reap
  PROVE  ThreadsInv'
<1>1. /\ pstate = "ZOMBIE" /\ pstate' = "UNUSED" /\ pages' = pages \ {main}
      /\ UNCHANGED <<state, id, join, nexttid, tf, frame, ptf, thread, picked, regs>>
  BY DEF reap, slotVars, cpuVars, ghostVars
<1> QED BY <1>1 DEF ThreadsInv, BaseInv, Typed, IdInv, ThreadInv, NoLostJoin

(* The timer takes the process off the CPU, and puts off a call.           *)
LEMMA timerKeeps ==
  ASSUME ThreadsInv, timer
  PROVE  ThreadsInv'
<1> USE SlotFacts
<1>1. Typed /\ IdInv /\ NoLostJoin
  BY DEF ThreadsInv, BaseInv
<1>2. /\ pstate = "RUNNING" /\ sched(state, frame, tf, "RUNNABLE")
      /\ put_off' = (put_off \/ at # "user")
      /\ UNCHANGED <<id, join, nexttid, pages, at, regs>>
  BY DEF timer, slotVars
<1>3. BaseInv' /\ \A i \in Slots : state'[i] = "FREE" <=> state[i] = "FREE"
  <2>1. at # "exit" => \A i \in Slots : state[i] = "JOINED" =>
          \E j \in Slots : id[j] = join[i] /\ state[j] # "FREE"
    BY <1>1, <1>2 DEF NoLostJoin
  <2> QED BY <1>1, <1>2, <2>1, SchedBase DEF Typed
<1>4. ASSUME LiveInv PROVE LiveInv'
  <2>1. \A i \in Slots \ {main} : state[i] # "FREE" => id[i] \in pages
    BY <1>2, <1>4 DEF LiveInv, PageInv
  <2>2. (put_off => put_off') /\ (at' \in {"call", "return"} => put_off')
    BY <1>2
  <2> QED BY <1>1, <1>2, <1>3, <1>4, <2>1, <2>2, SchedLive DEF Typed
<1> QED BY <1>2, <1>3, <1>4 DEF ThreadsInv

(* exit() takes the process off the CPU for good.                          *)
LEMMA exit_schedKeeps ==
  ASSUME ThreadsInv, exit_sched
  PROVE  ThreadsInv'
<1> USE SlotFacts
<1>1. Typed /\ IdInv
  BY DEF ThreadsInv, BaseInv
<1>2. /\ pstate = "RUNNING" /\ at = "exit" /\ sched(state, frame, tf, "ZOMBIE")
      /\ UNCHANGED <<id, join, nexttid, pages, at, regs, put_off>>
  BY DEF exit_sched, slotVars, ghostVars
<1>3. BaseInv' /\ \A i \in Slots : state'[i] = "FREE" <=> state[i] = "FREE"
  BY <1>1, <1>2, SchedBase DEF Typed
<1>4. ASSUME LiveInv PROVE LiveInv'
  <2>1. \A i \in Slots \ {main} : state[i] # "FREE" => id[i] \in pages
    BY <1>2, <1>4 DEF LiveInv, PageInv
  <2> QED BY <1>1, <1>2, <1>3, <1>4, <2>1, SchedLive DEF Typed
<1> QED BY <1>2, <1>3, <1>4 DEF ThreadsInv

(* A thread that joins one that exists waits for it.                       *)
LEMMA join_threadKeeps ==
  ASSUME ThreadsInv, NEW tid \in Tids, join_thread(tid)
  PROVE  ThreadsInv'
<1> USE SlotFacts
<1>1. Typed /\ IdInv /\ NoLostJoin
  BY DEF ThreadsInv, BaseInv
<1>2. PICK s : s = [state EXCEPT ![thread] = "JOINED"]
  OBVIOUS
<1>3. /\ pstate = "RUNNING" /\ at = "call" /\ at' = "user" /\ sched(s, frame, tf, "RUNNABLE")
      /\ \E i \in Slots : id[i] = tid /\ state[i] # "FREE"
      /\ join' = [join EXCEPT ![thread] = tid]
      /\ UNCHANGED <<id, nexttid, pages, regs, put_off>>
  BY <1>2 DEF join_thread, InCall, NoReturn, Joinable, ghostVars
<1>4. thread \in Slots /\ state[thread] = "RUNNING"
  BY <1>1, <1>3 DEF ThreadsInv, BaseInv, ThreadInv, join_thread, Typed
<1>5. /\ s \in [Slots -> States] /\ join' \in [Slots -> Tids] /\ regs' \in [Tids -> {0, 1}]
      /\ tf \in [Tids -> Regs] /\ frame \in Regs /\ pages' \subseteq pages
  BY <1>1, <1>2, <1>3 DEF Typed, States
<1>6. \A i \in Slots : /\ s[i] = IF i = thread THEN "JOINED" ELSE state[i]
                       /\ join'[i] = IF i = thread THEN tid ELSE join[i]
  BY <1>1, <1>2, <1>3 DEF Typed
<1>7. \A i \in Slots : s[i] # "FREE" <=> state[i] # "FREE"
  BY <1>4, <1>6
<1>8. ASSUME NEW i \in Slots, s[i] = "JOINED"
      PROVE  \E j \in Slots : id[j] = join'[i] /\ s[j] # "FREE"
  <2>1. CASE i = thread
    BY <1>3, <1>6, <1>7, <2>1
  <2>2. CASE i # thread
    BY <1>1, <1>3, <1>6, <1>7, <1>8, <2>2 DEF NoLostJoin
  <2> QED BY <2>1, <2>2
<1>9. BaseInv' /\ \A i \in Slots : state'[i] = "FREE" <=> s[i] = "FREE"
  <2>1. \A i \in Slots : s[i] = "JOINED" =>
          \E j \in Slots : id[j] = join'[i] /\ s[j] # "FREE"
    BY <1>8
  <2>2. \A i \in Slots : s[i] # "FREE" => state[i] # "FREE"
    BY <1>7
  <2>3. Typed /\ IdInv /\ pstate = "RUNNING" /\ sched(s, frame, tf, "RUNNABLE")
        /\ UNCHANGED <<id, nexttid>>
    BY <1>1, <1>3
  <2> QED BY <1>5, <2>1, <2>2, <2>3, SchedBase
<1>10. ASSUME LiveInv PROVE LiveInv'
  <2>1. \A i \in Slots \ {main} : state[i] # "FREE" => id[i] \in pages
    BY <1>3, <1>10 DEF LiveInv, PageInv
  <2> QED BY <1>1, <1>3, <1>5, <1>7, <1>9, <1>10, <2>1, SchedLive
<1> QED BY <1>3, <1>9, <1>10 DEF ThreadsInv

(* The pages and the registers after kfree() of those of some slots.       *)
LEMMA FreedTyped ==
  ASSUME Typed, NEW u \in SUBSET Slots
  PROVE  /\ FrameAfter(u) \in Regs /\ PagesAfter(u) \in [Tids -> Regs]
         /\ RegsAfter(u) \in [Tids -> {0, 1}]
         /\ \A w \in Tids : PagesAfter(u)[w] \in {tf[w], Junk}
<1> USE SlotFacts, FrameTyped
<1>1. FrameAfter(u) \in Regs /\ RegsAfter(u) \in [Tids -> {0, 1}]
  BY DEF FrameAfter, RegsAfter, Typed
<1>2. PagesAfter(u) \in [Tids -> Regs] /\ \A w \in Tids : PagesAfter(u)[w] \in {tf[w], Junk}
  BY DEF PagesAfter, Typed
<1> QED BY <1>1, <1>2

(* Freeing a slot wakes the threads that wait for it, and frees the page   *)
(* of no other.                                                            *)
LEMMA StopKeeps ==
  ASSUME ThreadsInv, NEW i \in Slots, pstate = "RUNNING", at = "call", at' = "user",
         state[i] # "FREE", UNCHANGED <<id, nexttid, put_off>>,
         sched(Woken(i), FrameAfter({i}), PagesAfter({i}), "RUNNABLE"),
         join' = [j \in Slots |-> IF j \in Joiners(i) THEN 0 ELSE join[j]],
         pages' = pages \ {Page(i)}, regs' = RegsAfter({i})
  PROVE  ThreadsInv'
<1> USE SlotFacts
<1>1. Typed /\ IdInv /\ NoLostJoin
  BY DEF ThreadsInv, BaseInv
<1>2. PICK s, pg, f : s = Woken(i) /\ pg = PagesAfter({i}) /\ f = FrameAfter({i})
  OBVIOUS
<1>3. /\ s \in [Slots -> States] /\ join' \in [Slots -> Tids] /\ pages' \subseteq pages
      /\ f \in Regs /\ pg \in [Tids -> Regs] /\ regs' \in [Tids -> {0, 1}]
  <2>1. s \in [Slots -> States] /\ join' \in [Slots -> Tids]
    BY <1>1, <1>2 DEF Typed, States, Woken, main
  <2>2. f \in Regs /\ pg \in [Tids -> Regs] /\ regs' \in [Tids -> {0, 1}]
    BY <1>1, <1>2, FreedTyped
  <2> QED BY <2>1, <2>2
<1>4. \A j \in Slots : s[j] # "FREE" <=> j # i /\ state[j] # "FREE"
  BY <1>1, <1>2 DEF Woken, Joiners
<1>5. \A j \in Slots : s[j] = "JOINED" => \E k \in Slots : id[k] = join'[j] /\ s[k] # "FREE"
  <2> SUFFICES ASSUME NEW j \in Slots, s[j] = "JOINED"
               PROVE  \E k \in Slots : id[k] = join'[j] /\ s[k] # "FREE"
    OBVIOUS
  <2>1. j # i /\ j \notin Joiners(i) /\ state[j] = "JOINED"
    BY <1>2 DEF Woken
  <2>2. join'[j] = join[j] /\ join[j] # id[i]
    BY <2>1 DEF Joiners
  <2>3. PICK k \in Slots : id[k] = join[j] /\ state[k] # "FREE"
    BY <1>1, <2>1 DEF NoLostJoin
  <2> QED BY <1>4, <2>2, <2>3
<1>6. sched(s, f, pg, "RUNNABLE")
  BY <1>2
<1>7. BaseInv' /\ \A j \in Slots : state'[j] = "FREE" <=> s[j] = "FREE"
  <2>1. \A j \in Slots : s[j] # "FREE" => state[j] # "FREE"
    BY <1>4
  <2> QED BY <1>1, <1>3, <1>5, <1>6, <2>1, SchedBase
<1>8. ASSUME main \in pages' PROVE LiveInv'
  <2>1. LiveInv /\ i # main
    BY <1>8 DEF ThreadsInv, Page
  <2>2. f = frame /\ (s[main] = "FREE" <=> state[main] = "FREE")
    BY <1>2, <1>4, <2>1 DEF FrameAfter
  <2>3. ASSUME NEW j \in Slots \ {main}, s[j] # "FREE"
        PROVE  /\ state[j] # "FREE" /\ id[j] \in pages'
               /\ pg[id[j]] = tf[id[j]] /\ regs'[id[j]] = regs[id[j]]
    <3>1. j # i /\ state[j] # "FREE" /\ id[j] \in pages /\ id[j] \in Tids
      BY <1>1, <1>4, <2>1, <2>3 DEF LiveInv, PageInv, Typed
    <3>2. id[j] # id[i] /\ Page(i) = id[i]
      BY <1>1, <2>1, <3>1 DEF IdInv, Page
    <3> QED BY <1>2, <3>1, <3>2 DEF PagesAfter, RegsAfter
  <2>4. regs'[main] = regs[main]
    BY <1>1, <2>1 DEF RegsAfter, IdInv, main
  <2>5. sched(s, frame, pg, "RUNNABLE")
    BY <1>6, <2>2
  <2>6. \A j \in Slots \ {main} : s[j] # "FREE" =>
           /\ state[j] # "FREE" /\ id[j] \in pages'
           /\ pg[id[j]] = tf[id[j]] /\ regs'[id[j]] = regs[id[j]]
    BY <2>3
  <2>7. at' \notin {"call", "return"} /\ (put_off => put_off')
    OBVIOUS
  <2> QED BY <1>1, <1>3, <1>7, <2>1, <2>2, <2>4, <2>5, <2>6, <2>7, SchedLive
<1> QED BY <1>7, <1>8 DEF ThreadsInv

(* Stopping the main thread of the first process with threads frees all    *)
(* pages, p->trapframe first, and goes on to exit().                       *)
LEMMA EndKeeps ==
  ASSUME ThreadsInv, NEW i \in Slots, pstate = "RUNNING", at' = "exit", state[i] # "FREE",
         state' = [state EXCEPT ![i] = "FREE"],
         NEW u, u = {k \in Slots : state[k] # "FREE"},
         frame' = FrameAfter(u), tf' = PagesAfter(u), regs' = RegsAfter(u),
         pages' = pages \ {Page(j) : j \in u},
         UNCHANGED <<pstate, id, join, nexttid, ptf, thread, picked>>
  PROVE  ThreadsInv' /\ main \notin pages'
<1> USE SlotFacts
<1>1. Typed /\ IdInv
  BY DEF ThreadsInv, BaseInv
<1>2. Typed'
  <2>1. u \in SUBSET Slots /\ pages' \subseteq pages
    OBVIOUS
  <2>2. frame' \in Regs /\ tf' \in [Tids -> Regs] /\ regs' \in [Tids -> {0, 1}]
    BY <1>1, <2>1, FreedTyped
  <2>3. state' \in [Slots -> States]
    BY <1>1 DEF Typed, States
  <2> QED BY <1>1, <2>1, <2>2, <2>3 DEF Typed
<1>3. IdInv'
  BY <1>1 DEF IdInv, Typed
<1>4. ThreadInv' /\ NoLostJoin'
  BY DEF ThreadsInv, BaseInv, ThreadInv, NoLostJoin
<1>5. main \notin pages'
  <2>1. SUFFICES ASSUME main \in pages PROVE main \in u
    BY DEF Page
  <2> QED BY <2>1 DEF ThreadsInv, LiveInv
<1> QED BY <1>2, <1>3, <1>4, <1>5 DEF ThreadsInv, BaseInv

(* stop_thread(), and the end of a thread's function.                      *)
LEMMA thread_cleanupKeeps ==
  ASSUME ThreadsInv, NEW i \in Slots, thread_cleanup(i)
  PROVE  ThreadsInv'
<1> USE SlotFacts
<1>1. Typed /\ IdInv /\ NoLostJoin /\ pstate = "RUNNING" /\ at = "call"
      /\ UNCHANGED <<id, nexttid, put_off>>
  BY DEF ThreadsInv, BaseInv, thread_cleanup, InCall
<1>2. CASE /\ state[i] = "FREE" /\ sched(state, frame, tf, "RUNNABLE") /\ NoReturn
           /\ UNCHANGED <<join, pages, regs>>
  <2>1. at' = "user"
    BY <1>2 DEF NoReturn
  <2>2. \A j \in Slots : state[j] = "JOINED" =>
          \E k \in Slots : id[k] = join'[j] /\ state[k] # "FREE"
    BY <1>1, <1>2 DEF NoLostJoin
  <2>3. BaseInv' /\ \A j \in Slots : state'[j] = "FREE" <=> state[j] = "FREE"
    BY <1>1, <1>2, <2>2, SchedBase DEF Typed
  <2>4. ASSUME LiveInv PROVE LiveInv'
    <3>1. \A j \in Slots \ {main} : state[j] # "FREE" => id[j] \in pages
      BY <1>1, <2>4 DEF LiveInv, PageInv
    <3> QED BY <1>1, <1>2, <2>1, <2>3, <2>4, <3>1, SchedLive DEF Typed
  <2> QED BY <1>2, <2>3, <2>4 DEF ThreadsInv
<1>3. CASE /\ state[i] # "FREE" /\ NoReturn
           /\ sched(Woken(i), FrameAfter({i}), PagesAfter({i}), "RUNNABLE")
           /\ join' = [j \in Slots |-> IF j \in Joiners(i) THEN 0 ELSE join[j]]
           /\ pages' = pages \ {Page(i)} /\ regs' = RegsAfter({i})
  BY <1>1, <1>3, StopKeeps DEF NoReturn
<1>4. CASE ~(state[i] = "FREE") /\ EndsProcess(i)
  <2>1. PICK u : u = {k \in Slots : state[k] # "FREE"}
    OBVIOUS
  <2>2. /\ state' = [state EXCEPT ![i] = "FREE"] /\ at' = "exit"
        /\ frame' = FrameAfter(u) /\ tf' = PagesAfter(u) /\ regs' = RegsAfter(u)
        /\ pages' = pages \ {Page(j) : j \in u}
        /\ UNCHANGED <<pstate, join, ptf, thread, picked>>
    BY <1>4, <2>1 DEF thread_cleanup
  <2> QED BY <1>1, <1>4, <2>1, <2>2, EndKeeps
<1> QED BY <1>2, <1>3, <1>4 DEF thread_cleanup

(* A new thread gets an id and a page of its own.                          *)
LEMMA create_threadKeeps ==
  ASSUME ThreadsInv, create_thread
  PROVE  ThreadsInv'
<1> USE SlotFacts
<1> DEFINE first == state[main] = "FREE"
           s == IF first THEN [state EXCEPT ![main] = "RUNNING"] ELSE state
           d == IF first THEN [id EXCEPT ![main] = nexttid] ELSE id
           next == IF first THEN nexttid + 1 ELSE nexttid
           j0 == [join EXCEPT ![main] = IF first THEN 0 ELSE @]
<1>1. Typed /\ IdInv /\ ThreadInv /\ NoLostJoin
  BY DEF ThreadsInv, BaseInv
<1>2. /\ pstate = "RUNNING" /\ at = "call" /\ next <= MAXTID
      /\ thread' = IF first THEN main ELSE thread
      /\ at' = "return"
      /\ UNCHANGED <<pstate, frame, ptf, picked, call, put_off>>
  BY DEF create_thread, InCall, alloctid
<1>3. thread # None => state[thread] = "RUNNING"
  BY <1>1, <1>2 DEF ThreadInv
<1>4. /\ s \in [Slots -> States] /\ d \in [Slots -> Tids] /\ j0 \in [Slots -> Tids]
      /\ next \in 1 .. MAXTID /\ nexttid \in 1 .. next
  <2>1. next \in 1 .. MAXTID /\ nexttid \in 1 .. next
    BY <1>1, <1>2 DEF Typed
  <2>2. first => nexttid \in Tids
    BY <1>2, <2>1 DEF Tids
  <2> QED BY <1>1, <2>1, <2>2 DEF Typed, States, main
<1>5. /\ \A j \in Slots : /\ s[j] # "FREE" => j = main \/ (state[j] # "FREE" /\ d[j] = id[j])
                          /\ s[j] = "JOINED" => state[j] = "JOINED" /\ j0[j] = join[j]
                          /\ state[j] # "FREE" => s[j] = state[j] /\ d[j] = id[j]
                          /\ j # main => s[j] = state[j] /\ d[j] = id[j]
      /\ s[main] # "FREE" /\ (first => s[main] = "RUNNING")
  BY <1>1 DEF Typed
<1>6. /\ \A j \in Slots : d[j] < next /\ (s[j] # "FREE" => d[j] >= 1)
      /\ \A j, k \in Slots : j # k /\ d[j] = d[k] => d[j] = 0
  <2>1. CASE first
    <3>1. d = [id EXCEPT ![main] = nexttid] /\ next = nexttid + 1 /\ nexttid >= 1
      BY <1>4, <2>1
    <3>2. \A j \in Slots : d[j] = IF j = main THEN nexttid ELSE id[j]
      BY <1>1, <3>1 DEF Typed
    <3>3. \A j \in Slots : id[j] \in Nat /\ id[j] < nexttid
      BY ZenonT(60), <1>1 DEF Typed, IdInv
    <3>4. \A j \in Slots : d[j] < next
      BY <1>4, <3>1, <3>2, <3>3
    <3>5. \A j \in Slots : s[j] # "FREE" => d[j] >= 1
      BY <1>1, <1>5, <3>1, <3>2 DEF IdInv
    <3>6. \A j, k \in Slots : j # k /\ d[j] = d[k] => d[j] = 0
      BY <1>1, <1>4, <3>2, <3>3 DEF IdInv
    <3> QED BY <3>4, <3>5, <3>6
  <2>2. CASE ~first
    BY <1>1, <2>2 DEF IdInv
  <2> QED BY <2>1, <2>2
<1>7. thread' \in Slots \cup {None} /\ (thread' # None => s[thread'] = "RUNNING")
  BY <1>1, <1>2, <1>3, <1>5 DEF Typed
<1> HIDE DEF s, d, next, j0
<1>8. CASE /\ state' = s /\ id' = d /\ nexttid' = next /\ join' = j0
           /\ UNCHANGED <<pages, tf, regs>>
  <2>1. Typed'
    BY <1>1, <1>2, <1>4, <1>7, <1>8 DEF Typed
  <2>2. IdInv'
    BY <1>6, <1>8 DEF IdInv
  <2>3. ThreadInv'
    BY <1>2, <1>7, <1>8 DEF ThreadInv
  <2>4. NoLostJoin'
    BY <1>1, <1>2, <1>5, <1>8 DEF NoLostJoin
  <2>5. ASSUME LiveInv PROVE LiveInv'
    <3>1. /\ picked = Current /\ Holds(frame, Page(Current))
          /\ (picked # main => Holds(ptf, main))
          /\ (thread = None <=> first) /\ (put_off \/ call = Page(Current))
      BY <1>2, <2>5 DEF LiveInv, RunInv
    <3>2. Current' = Current /\ Page(Current)' = Page(Current)
      BY <1>1, <1>2, <1>3, <1>5, <1>8, <3>1 DEF Current, Page, Typed
    <3>3. Holds(frame, Page(Current))' /\ (picked # main => Holds(ptf, main)')
      BY <1>2, <1>8, <3>1, <3>2 DEF Holds
    <3>4. RunInv' /\ OffInv'
      BY <1>2, <1>5, <1>7, <1>8, <3>1, <3>2, <3>3 DEF RunInv, OffInv
    <3>5. ASSUME NEW j \in Slots PROVE PageInv(j)'
      <4>1. SUFFICES ASSUME j # main, s[j] # "FREE"
                     PROVE  id'[j] \in pages' /\ (j # thread' => Holds(tf[id[j]], id[j])')
        BY <1>8 DEF PageInv
      <4>2. state[j] # "FREE" /\ id'[j] = id[j] /\ (j # thread' => j # thread)
        BY <1>2, <1>5, <1>8, <3>1, <4>1
      <4>3. id[j] \in pages /\ (j # thread => Holds(tf[id[j]], id[j]))
        BY <1>2, <2>5, <4>1, <4>2 DEF LiveInv, PageInv
      <4> QED BY <1>2, <1>8, <4>2, <4>3 DEF Holds
    <3> QED BY <1>5, <1>8, <3>4, <3>5 DEF LiveInv
  <2> QED BY <1>8, <2>1, <2>2, <2>3, <2>4, <2>5 DEF ThreadsInv, BaseInv
<1>9. ASSUME NEW i \in Slots, s[i] = "FREE",
             state' = [s EXCEPT ![i] = "RUNNABLE"], id' = [d EXCEPT ![i] = next],
             join' = [join EXCEPT ![main] = IF first THEN 0 ELSE @, ![i] = 0],
             nexttid' = next + 1, pages' = pages \cup {next},
             tf' = [tf EXCEPT ![next] = Frame(next)], regs' = [regs EXCEPT ![next] = 0]
      PROVE  ThreadsInv'
  <2>1. i # main /\ next \in Tids /\ next # 0 /\ next > 0
    BY <1>4, <1>5, <1>9 DEF Tids
  <2>2. /\ \A j \in Slots : /\ state'[j] = IF j = i THEN "RUNNABLE" ELSE s[j]
                            /\ id'[j] = IF j = i THEN next ELSE d[j]
                            /\ j # i /\ state[j] # "FREE" => join'[j] = join[j]
        /\ join' \in [Slots -> Tids]
    BY <1>1, <1>4, <1>9 DEF Typed, main
  <2>3. /\ \A w \in Tids : w # next => regs'[w] = regs[w] /\ tf'[w] = tf[w]
        /\ tf'[next] = Frame(next) /\ regs'[next] = 0
    BY <1>1, <1>9, <2>1 DEF Typed
  <2>4. Typed'
    <3>1. tf' \in [Tids -> Regs] /\ regs' \in [Tids -> {0, 1}] /\ pages' \subseteq Tids
      BY <1>1, <1>9, <2>1, FrameTyped DEF Typed
    <3>2. state' \in [Slots -> States] /\ id' \in [Slots -> Tids]
      BY <1>4, <1>9, <2>1 DEF States
    <3>3. nexttid' \in 1 .. MAXTID + 1
      BY <1>4, <1>9
    <3> QED BY <1>1, <1>2, <1>7, <2>2, <3>1, <3>2, <3>3 DEF Typed
  <2>5. IdInv'
    <3>1. \A j \in Slots : id'[j] < nexttid'
      <4>1. \A j \in Slots : d[j] \in Nat /\ d[j] < next
        BY ZenonT(60), <1>4, <1>6
      <4>2. next \in Nat
        BY <1>4
      <4> QED BY <1>9, <2>2, <4>1, <4>2
    <3>2. \A j \in Slots : state'[j] # "FREE" => id'[j] >= 1
      BY <1>4, <1>6, <2>2
    <3>3. \A j, k \in Slots : j # k /\ id'[j] = id'[k] => id'[j] = 0
      BY <1>4, <1>6, <2>2
    <3> QED BY <3>1, <3>2, <3>3 DEF IdInv
  <2>6. ThreadInv'
    BY <1>2, <1>7, <1>9, <2>2 DEF ThreadInv
  <2>7. NoLostJoin'
    <3>1. SUFFICES ASSUME NEW j \in Slots, state'[j] = "JOINED"
                   PROVE  \E k \in Slots : id'[k] = join'[j] /\ state'[k] # "FREE"
      BY DEF NoLostJoin
    <3>2. j # i /\ state[j] = "JOINED" /\ join'[j] = join[j]
      BY <1>5, <2>2, <3>1
    <3>3. PICK k \in Slots : id[k] = join[j] /\ state[k] # "FREE"
      BY <1>1, <1>2, <3>2 DEF NoLostJoin
    <3>4. k # i /\ id'[k] = id[k] /\ state'[k] # "FREE"
      BY <1>5, <1>9, <2>2, <3>3
    <3> QED BY <3>2, <3>3, <3>4
  <2>8. main \in pages' => main \in pages
    BY <1>9, <2>1 DEF main
  <2>9. ASSUME LiveInv PROVE LiveInv'
    <3>1. /\ picked = Current /\ Holds(frame, Page(Current))
          /\ (picked # main => Holds(ptf, main))
          /\ (thread = None <=> first) /\ (put_off \/ call = Page(Current))
      BY <1>2, <2>9 DEF LiveInv, RunInv
    <3>2. /\ Current' = Current /\ Page(Current)' = Page(Current)
          /\ Page(Current) \in Tids /\ Page(Current) # next
      <4>1. CASE Current = main
        BY <1>1, <1>2, <2>1, <3>1, <4>1 DEF Page, Current, main
      <4>2. CASE Current # main
        <5>1. Current = thread /\ thread \in Slots /\ state[thread] = "RUNNING" /\ ~first
          BY <1>1, <1>3, <3>1, <4>2 DEF Current, Typed
        <5>2. thread # i /\ d[thread] = id[thread]
          BY <1>5, <1>9, <5>1
        <5>3. id'[thread] = id[thread] /\ id[thread] \in Tids /\ id[thread] < next
          BY <1>4, <1>6, <2>2, <5>1, <5>2
        <5>4. Page(Current) = id[thread] /\ thread' = thread
          BY <1>2, <4>2, <5>1 DEF Page
        <5> QED BY <1>4, <4>2, <5>1, <5>3, <5>4 DEF Page, Current
      <4> QED BY <4>1, <4>2
    <3>3. Holds(frame, Page(Current))' /\ (picked # main => Holds(ptf, main)')
      <4>1. regs'[Page(Current)] = regs[Page(Current)] /\ regs'[main] = regs[main]
        BY <2>1, <2>3, <3>2 DEF main
      <4> QED BY <1>2, <3>1, <3>2, <4>1 DEF Holds
    <3>4. RunInv' /\ OffInv'
      <4>1. thread' # None /\ state'[main] # "FREE" /\ state'[thread'] = "RUNNING"
        BY <1>2, <1>5, <1>7, <1>9, <2>1, <2>2, <3>1
      <4> QED BY <1>2, <3>1, <3>2, <3>3, <4>1 DEF RunInv, OffInv
    <3>5. ASSUME NEW j \in Slots PROVE PageInv(j)'
      <4>1. CASE j = i
        <5>1. id'[j] = next /\ next \in pages'
          BY <1>9, <2>2, <4>1
        <5>2. Holds(tf[id[j]], id[j])'
          BY <2>1, <2>3, <5>1, FrameTyped DEF Holds
        <5> QED BY <5>1, <5>2 DEF PageInv
      <4>2. CASE j # i
        <5>1. SUFFICES ASSUME j # main, s[j] # "FREE"
                       PROVE  id'[j] \in pages' /\ (j # thread' => Holds(tf[id[j]], id[j])')
          BY <2>2, <4>2 DEF PageInv
        <5>2. state[j] # "FREE" /\ id'[j] = id[j] /\ id[j] \in Tids /\ id[j] # next
          BY <1>1, <1>4, <1>5, <1>6, <2>2, <4>2, <5>1 DEF Typed
        <5>3. id[j] \in pages /\ (j # thread => Holds(tf[id[j]], id[j]))
          BY <1>2, <2>9, <5>1, <5>2 DEF LiveInv, PageInv
        <5>4. j # thread' => j # thread
          BY <1>2, <3>1, <5>1
        <5> QED BY <1>2, <1>9, <2>3, <5>2, <5>3, <5>4 DEF Holds
      <4> QED BY <4>1, <4>2
    <3> QED BY <1>5, <2>1, <2>2, <3>4, <3>5 DEF LiveInv
  <2> QED BY <2>4, <2>5, <2>6, <2>7, <2>8, <2>9 DEF ThreadsInv, BaseInv
<1> QED BY <1>8, <1>9 DEF create_thread, alloctid, Free, s, d, next, j0

-----------------------------------------------------------------------------
(* Every step of the process and of the scheduler preserves the invariant. *)
LEMMA ThreadsStep ==
  ASSUME ThreadsInv, [Next]_vars
  PROVE  ThreadsInv'
<1>1. CASE schedule
  BY <1>1, schedule_mainKeeps, schedule_threadKeeps DEF schedule
<1>2. CASE step
  BY <1>2, stepKeeps
<1>3. CASE timer
  BY <1>3, timerKeeps
<1>4. CASE syscall \/ exit
  BY <1>4, syscallKeeps
<1>5. CASE syscall_return
  BY <1>5, syscall_returnKeeps
<1>6. CASE create_thread
  BY <1>6, create_threadKeeps
<1>7. CASE exit_sched
  BY <1>7, exit_schedKeeps
<1>8. CASE reap
  BY <1>8, reapKeeps
<1>9. CASE \E tid \in Tids : join_thread(tid)
  BY <1>9, join_threadKeeps
<1>10. CASE \E i \in Slots : thread_cleanup(i)
  BY <1>10, thread_cleanupKeeps
<1>11. CASE UNCHANGED vars
  <2>1. BaseInv'
    BY <1>11 DEF vars, ThreadsInv, BaseInv, Typed, IdInv, ThreadInv, NoLostJoin
  <2>2. LiveInv => LiveInv'
    BY <1>11 DEF vars, LiveInv, RunInv, OffInv, PageInv, Holds, Page, Current
  <2> QED BY <1>11, <2>1, <2>2 DEF vars, ThreadsInv
<1> QED BY <1>1, <1>2, <1>3, <1>4, <1>5, <1>6, <1>7, <1>8, <1>9, <1>10, <1>11 DEF Next

(* In every reachable state BaseInv holds, and, as long as main has not    *)
(* been stopped, the registers of every thread are where LiveInv says.     *)
THEOREM ThreadsInvariance == Spec => []ThreadsInv
BY ThreadsInitial, ThreadsStep, PTL DEF Spec

(* Whatever the number of threads, and whichever of them trap, call,       *)
(* create, join and stop each other, the thread that runs does so with its *)
(* own registers as it left them, as long as main has not been stopped;    *)
(* a0 is among them as long as no system call has left the CPU half way.   *)
THEOREM RegistersKept == Spec => []OwnRegisters
<1>1. ThreadsInv => OwnRegisters
  BY DEF ThreadsInv, LiveInv, RunInv, Holds, OwnRegisters
<1> QED BY <1>1, ThreadsInvariance, PTL

(* A thread in join_thread() waits for a thread that still exists, so that *)
(* thread_cleanup() of that thread will find it, also when main has been   *)
(* stopped without ending the process.                                     *)
THEOREM JoinNotLost == Spec => []NoLostJoin
<1>1. ThreadsInv => NoLostJoin
  BY DEF ThreadsInv, BaseInv
<1> QED BY <1>1, ThreadsInvariance, PTL

(* sched() writes registers to the page of the thread that ran, and to no  *)
(* other.                                                                  *)
LEMMA SchedWrites ==
  ASSUME Typed, NEW s, NEW f, NEW pg \in [Tids -> Regs], NEW ps, sched(s, f, pg, ps),
         NEW w \in Tids, tf'[w] # pg[w]
  PROVE  thread \in Slots \ {main} /\ s[thread] # "FREE" /\ w = id[thread]
BY SlotFacts DEF Typed, sched, Saves, Page

(* As long as main has not been stopped, sched() writes registers only to  *)
(* the page of a thread that exists, in particular never to the page that  *)
(* thread_cleanup() has just freed, and c->thread always has its page.     *)
THEOREM SavesAreSafe == Spec => SavesToLivePage
<1> USE SlotFacts
<1>1. ASSUME ThreadsInv, ThreadsInv', Next, main \in pages',
             NEW w \in Tids, tf'[w] \notin {tf[w], Junk}
      PROVE  w \in pages'
  <2>1. Typed /\ LiveInv'
    BY <1>1 DEF ThreadsInv, BaseInv
  <2>2. ASSUME NEW s, NEW f, NEW pg \in [Tids -> Regs], sched(s, f, pg, "RUNNABLE"),
               pg[w] \in {tf[w], Junk}, UNCHANGED id
        PROVE  w \in pages'
    <3>1. thread \in Slots \ {main} /\ s[thread] # "FREE" /\ w = id[thread]
      BY <1>1, <2>1, <2>2, SchedWrites
    <3>2. state'[thread] # "FREE" /\ pstate' = "RUNNABLE"
      BY <2>2, <3>1 DEF sched
    <3> QED BY <2>1, <2>2, <3>1, <3>2 DEF LiveInv, PageInv
  <2>3. tf \in [Tids -> Regs]
    BY <2>1 DEF Typed
  <2>4. CASE timer
    BY <2>2, <2>3, <2>4 DEF timer, slotVars
  <2>5. ASSUME NEW tid \in Tids, join_thread(tid) PROVE w \in pages'
    BY <2>2, <2>3, <2>5 DEF join_thread
  <2>6. ASSUME NEW i \in Slots, thread_cleanup(i) PROVE w \in pages'
    <3>1. CASE sched(state, frame, tf, "RUNNABLE")
      BY <2>2, <2>3, <2>6, <3>1 DEF thread_cleanup
    <3>2. CASE sched(Woken(i), FrameAfter({i}), PagesAfter({i}), "RUNNABLE")
      BY <2>1, <2>2, <2>6, <3>2, FreedTyped DEF thread_cleanup
    <3>3. CASE tf' = PagesAfter({k \in Slots : state[k] # "FREE"})
      <4>1. PagesAfter({k \in Slots : state[k] # "FREE"})[w] \in {tf[w], Junk}
        BY <2>1, FreedTyped
      <4> QED BY <1>1, <3>3, <4>1
    <3> QED BY <2>6, <3>1, <3>2, <3>3 DEF thread_cleanup
  <2>7. CASE exit_sched
    <3>1. /\ sched(state, frame, tf, "ZOMBIE") /\ pstate = "RUNNING"
          /\ UNCHANGED <<id, pages>>
      BY <2>7 DEF exit_sched, slotVars
    <3>2. thread \in Slots \ {main} /\ state[thread] # "FREE" /\ w = id[thread]
      BY <1>1, <2>1, <2>3, <3>1, SchedWrites
    <3> QED BY <1>1, <3>1, <3>2 DEF ThreadsInv, LiveInv, PageInv
  <2>8. CASE create_thread
    <3>1. PICK tid : /\ pages' = pages \cup {tid} \/ UNCHANGED tf
                     /\ tf' = [tf EXCEPT ![tid] = Frame(tid)] \/ UNCHANGED tf
      BY <2>8 DEF create_thread
    <3> QED BY <1>1, <2>3, <3>1
  <2>9. CASE schedule \/ step \/ syscall \/ syscall_return \/ exit \/ reap
    BY <1>1, <2>9 DEF schedule, schedule_main, schedule_thread, step, syscall,
                      syscall_return, exit, reap, cpuVars
  <2> QED BY <1>1, <2>4, <2>5, <2>6, <2>7, <2>8, <2>9 DEF Next
<1>2. ASSUME ThreadsInv', main \in pages', thread' # None PROVE Page(thread)' \in pages'
  <2>1. pstate' = "RUNNING" /\ thread' \in Slots /\ state'[thread'] = "RUNNING"
    BY <1>2 DEF ThreadsInv, BaseInv, ThreadInv, Typed, LiveInv, RunInv
  <2> QED BY <1>2, <2>1 DEF ThreadsInv, LiveInv, PageInv, Page
<1>3. ThreadsInv /\ ThreadsInv' /\ [Next]_vars => [(main \in pages') => UsesLivePages]_vars
  BY <1>1, <1>2 DEF UsesLivePages
<1> QED BY <1>3, ThreadsInvariance, PTL DEF Spec, SavesToLivePage
=============================================================================
