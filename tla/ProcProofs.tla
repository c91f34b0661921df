----------------------------- MODULE ProcProofs -----------------------------
(***************************************************************************)
(* The end of exit(), wait(), sleep(), wakeup() and kill() preserve the    *)
(* invariant of ProcSteps, so it always holds; from it, for any number of  *)
(* CPUs and of slots in proc[]: no kernel stack is shared, no process is   *)
(* left without a parent, no exit is missed, and fork() returns its child. *)
(***************************************************************************)
EXTENDS ProcSteps

(* One turn of the loop of wakeup(): at most a sleeper, whose lock is free, *)
(* becomes RUNNABLE.                                                        *)
LEMMA WakeupTurn ==
  ASSUME NEW p \in Procs, NEW ch, Typed, wakeup(p, ch)
  PROVE  /\ wk \in Procs /\ wk' = wk + 1 /\ wk' \in 1 .. NPROC + 1
         /\ state' \in [Procs -> States]
         /\ \A r \in Procs : \/ state'[r] = state[r]
                             \/ /\ r = wk /\ plock[r] = NoOne
                                /\ state[r] = "SLEEPING" /\ state'[r] = "RUNNABLE"
         /\ state'[wk] = "SLEEPING" => wk = p \/ chan[wk] # ch
<1>1. wk \in Procs /\ wk' = wk + 1 /\ wk' \in 1 .. NPROC + 1
  BY ScanFacts DEF wakeup, NextSlot, Typed
<1>2. state' \in [Procs -> States]
  BY <1>1 DEF wakeup, Typed, States
<1>3. ASSUME NEW r \in Procs, r # wk PROVE state'[r] = state[r]
  BY <1>3 DEF wakeup
<1>4. CASE wk # p /\ Sleeper(wk, ch)
  BY <1>1, <1>2 DEF wakeup, Sleeper, Free
<1>5. CASE ~(wk # p /\ Sleeper(wk, ch))
  <2>1. state'[wk] = state[wk]
    BY <1>5 DEF wakeup
  <2> QED
    BY <1>1, <1>2, <1>3, <1>5, <2>1 DEF Sleeper
<1> QED
  BY <1>4, <1>5

(* What such a turn keeps, for the loop in reparent() and the one in exit(). *)
LEMMA WakingKeeps ==
  ASSUME NEW p \in Procs, NEW ch, ProcInv, wakeup(p, ch),
         UNCHANGED <<chan, parent, plock, wait_lock, cproc, pc, child>>
  PROVE  /\ InitInv'
         /\ \A c \in CPUs : CpuInv(c)'
         /\ \A q \in Procs : StateInv(q)' /\ ForkInv(q)' /\ ParentInv(q)'
<1> USE SlotFacts DEF Saved, Switching, Waiting
<1>1. \A r \in Procs : \/ state'[r] = state[r]
                       \/ /\ r = wk /\ plock[r] = NoOne
                          /\ state[r] = "SLEEPING" /\ state'[r] = "RUNNABLE"
  BY WakeupTurn DEF ProcInv
<1>2. InitInv'
  BY <1>1 DEF ProcInv, InitInv, Alive
<1>3. ASSUME NEW c \in CPUs PROVE CpuInv(c)'
  <2>1. CpuInv(c) /\ Typed
    BY DEF ProcInv
  <2> QED
    BY <1>1, <2>1 DEF Typed, CpuInv
<1>4. ASSUME NEW q \in Procs PROVE StateInv(q)'
  <2>1. StateInv(q) /\ (\A c \in CPUs : CpuInv(c)) /\ Typed
    BY DEF ProcInv
  <2>2. pc[q] = "sched_sleep" => plock[q] # NoOne
    BY <2>1 DEF StateInv, CpuInv
  <2>3. CASE state'[q] = state[q]
    BY <2>1, <2>3 DEF StateInv
  <2>4. CASE state'[q] # state[q]
    BY <1>1, <2>1, <2>2 DEF StateInv, Alive
  <2> QED
    BY <2>3, <2>4
<1>5. ASSUME NEW q \in Procs PROVE ForkInv(q)'
  <2>1. ForkInv(q) /\ Typed
    BY DEF ProcInv
  <2> QED
    BY <1>1, <2>1 DEF ForkInv
<1>6. ASSUME NEW q \in Procs PROVE ParentInv(q)'
  <2>1. ParentInv(q) /\ Typed
    BY DEF ProcInv
  <2> QED
    BY <1>1, <2>1 DEF ParentInv, Typed, Alive
<1> QED
  BY <1>2, <1>3, <1>4, <1>5, <1>6

(* wakeup(initproc) in reparent(). *)
LEMMA WakeupInitKeeps ==
  ASSUME NEW c \in CPUs, NEW p \in Procs, ProcInv, wakeup_init(c, p)
  PROVE  ProcInv'
<1> USE SlotFacts, ScanFacts DEF Saved, Switching, Waiting
<1>1. cproc[c] = p /\ pc[p] = "wakeup_init" /\ p # initproc
  BY DEF wakeup_init, At, ProcInv, InitInv, Exiting
<1>2. \A r \in Procs : pc[r] \in Waiting => r = p
  BY <1>1 DEF ProcInv, CpuInv, StateInv
<1>3. CASE wakeup(p, initproc) /\ UNCHANGED <<scan, pc>>
  <2>1. UNCHANGED <<chan, parent, plock, wait_lock, cproc, pc, child, scan>>
    BY <1>3 DEF wakeup_init
  <2>2. /\ wk \in Procs /\ wk' = wk + 1 /\ wk' \in 1 .. NPROC + 1 /\ state' \in [Procs -> States]
        /\ \A r \in Procs : \/ state'[r] = state[r]
                            \/ /\ r = wk /\ plock[r] = NoOne
                               /\ state[r] = "SLEEPING" /\ state'[r] = "RUNNABLE"
        /\ state'[wk] = "SLEEPING" => wk = p \/ chan[wk] # initproc
    BY <1>3, WakeupTurn DEF ProcInv
  <2>3. Typed'
    BY <2>1, <2>2 DEF ProcInv, Typed
  <2>4. WakeInv'
    <3>1. wk = initproc => state'[initproc] # "SLEEPING"
      BY <1>1, <2>2 DEF ProcInv, StateInv
    <3> QED
      BY <2>1, <2>2, <3>1 DEF ProcInv, WakeInv
  <2>5. ASSUME NEW q \in Procs PROVE LoopInv(q)'
    BY <1>1, <1>2, <2>1 DEF ProcInv, LoopInv
  <2> QED
    BY <1>3, <2>1, <2>3, <2>4, <2>5, WakingKeeps DEF ProcInv
<1>4. CASE wk > NPROC /\ scan' = NextSlot(scan) /\ Goto(p, "reparent") /\ UNCHANGED <<state, wk>>
  <2>1. /\ UNCHANGED <<state, chan, parent, plock, wait_lock, cproc, child, wk>>
        /\ pc' = [pc EXCEPT ![p] = "reparent"]
        /\ scan \in Procs /\ scan' = scan + 1 /\ scan' \in 1 .. NPROC + 1
    <3>1. LoopInv(p) /\ scan \in 1 .. NPROC + 1
      BY DEF ProcInv, Typed
    <3>2. scan \in Procs /\ scan' = scan + 1 /\ scan <= NPROC
      BY <1>1, <1>4, <3>1 DEF LoopInv, NextSlot, Procs
    <3> QED
      BY <3>2 DEF wakeup_init, Goto
  <2>2. Typed'
    BY <2>1 DEF ProcInv, Typed, Labels
  <2>3. InitInv'
    BY <1>1, <2>1 DEF ProcInv, InitInv
  <2>4. WakeInv'
    BY <1>4, <2>1 DEF ProcInv, Typed, WakeInv
  <2>5. ASSUME NEW d \in CPUs PROVE CpuInv(d)'
    BY <1>1, <2>1 DEF ProcInv, CpuInv
  <2>6. ASSUME NEW q \in Procs PROVE StateInv(q)' /\ ForkInv(q)' /\ ParentInv(q)'
    BY <1>1, <2>1 DEF ProcInv, StateInv, ForkInv, ParentInv
  <2>7. ASSUME NEW q \in Procs PROVE LoopInv(q)'
    BY <1>1, <1>2, <2>1 DEF ProcInv, Typed, LoopInv
  <2> QED
    BY <2>2, <2>3, <2>4, <2>5, <2>6, <2>7 DEF ProcInv
<1> QED
  BY <1>3, <1>4 DEF wakeup_init

(* wakeup(p->parent) in exit(). *)
LEMMA WakeupParentKeeps ==
  ASSUME NEW c \in CPUs, NEW p \in Procs, ProcInv, wakeup_parent(c, p)
  PROVE  ProcInv'
<1> USE SlotFacts, ScanFacts DEF Saved, Switching, Waiting
<1>1. cproc[c] = p /\ pc[p] = "wakeup_parent" /\ p # initproc
  BY DEF wakeup_parent, At, ProcInv, InitInv, Exiting
<1>2. \A r \in Procs : pc[r] \in Waiting => r = p
  BY <1>1 DEF ProcInv, CpuInv, StateInv
<1>3. CASE wakeup(p, parent[p]) /\ UNCHANGED pc
  <2>1. UNCHANGED <<chan, parent, plock, wait_lock, cproc, pc, child, scan>>
    BY <1>3 DEF wakeup_parent
  <2>2. /\ wk \in Procs /\ wk' = wk + 1 /\ wk' \in 1 .. NPROC + 1 /\ state' \in [Procs -> States]
        /\ \A r \in Procs : \/ state'[r] = state[r]
                            \/ /\ r = wk /\ plock[r] = NoOne
                               /\ state[r] = "SLEEPING" /\ state'[r] = "RUNNABLE"
        /\ state'[wk] = "SLEEPING" => wk = p \/ chan[wk] # parent[p]
    BY <1>3, WakeupTurn DEF ProcInv
  <2>3. Typed'
    BY <2>1, <2>2 DEF ProcInv, Typed
  <2>4. WakeInv'
    BY <1>1, <1>2, <2>1, <2>2 DEF ProcInv, WakeInv
  <2>5. ASSUME NEW q \in Procs PROVE LoopInv(q)'
    <3>1. state[p] = "RUNNING" /\ (state[wk] = "SLEEPING" => chan[wk] = wk)
      BY <1>1, <2>2 DEF ProcInv, StateInv
    <3>2. wk = parent[p] => state'[wk] # "SLEEPING"
      BY <2>2, <3>1
    <3> QED
      BY <1>2, <2>1, <2>2, <3>2 DEF ProcInv, LoopInv
  <2> QED
    BY <1>3, <2>1, <2>3, <2>4, <2>5, WakingKeeps DEF ProcInv
<1>4. CASE wk > NPROC /\ Goto(p, "exit_zombie") /\ UNCHANGED <<state, wk>>
  <2>1. /\ UNCHANGED <<state, chan, parent, plock, wait_lock, cproc, child, wk, scan>>
        /\ pc' = [pc EXCEPT ![p] = "exit_zombie"]
    BY <1>4 DEF wakeup_parent, Goto
  <2>2. Typed'
    BY <2>1 DEF ProcInv, Typed, Labels
  <2>3. InitInv'
    BY <1>1, <2>1 DEF ProcInv, InitInv
  <2>4. WakeInv'
    BY <1>1, <2>1 DEF ProcInv, WakeInv
  <2>5. ASSUME NEW d \in CPUs PROVE CpuInv(d)'
    BY <1>1, <2>1 DEF ProcInv, CpuInv
  <2>6. ASSUME NEW q \in Procs PROVE StateInv(q)' /\ ForkInv(q)' /\ ParentInv(q)'
    BY <1>1, <2>1 DEF ProcInv, StateInv, ForkInv, ParentInv
  <2>7. ASSUME NEW q \in Procs PROVE LoopInv(q)'
    BY <1>1, <1>4, <2>1 DEF ProcInv, Typed, LoopInv
  <2> QED
    BY <2>2, <2>3, <2>4, <2>5, <2>6, <2>7 DEF ProcInv
<1> QED
  BY <1>3, <1>4 DEF wakeup_parent

(* The process becomes a zombie: nobody is its child, and its parent is awake. *)
LEMMA ExitZombieKeeps ==
  ASSUME NEW c \in CPUs, NEW p \in Procs, ProcInv, exit_zombie(c, p)
  PROVE  ProcInv'
<1> USE SlotFacts DEF exit_zombie, At, Goto, Free, Hold, loopVars
<1>1. Typed'
  BY DEF ProcInv, Typed, States, Labels, Exiting
<1>2. ASSUME NEW d \in CPUs PROVE CpuInv(d)'
  BY DEF Waiting, ProcInv, Typed, CpuInv
<1>3. InitInv'
  <2>1. InitInv /\ Typed /\ p # initproc
    BY DEF ProcInv, InitInv, Exiting
  <2>2. pc'[initproc] = pc[initproc] /\ state'[initproc] = state[initproc]
    BY <2>1 DEF Typed
  <2> QED BY <2>1, <2>2 DEF InitInv
<1>4. WakeInv'
  BY DEF Switching, ProcInv, WakeInv, LoopInv, Exiting
<1>5. ASSUME NEW q \in Procs PROVE StateInv(q)'
  BY DEF Switching, ProcInv, Typed, StateInv, Alive
<1>6. ASSUME NEW q \in Procs PROVE ForkInv(q)'
  BY DEF ProcInv, CpuInv, ForkInv
<1>7. ASSUME NEW q \in Procs PROVE ParentInv(q)'
  BY DEF ProcInv, CpuInv, ParentInv, LoopInv
<1>8. ASSUME NEW q \in Procs PROVE LoopInv(q)'
  BY DEF Saved, Waiting, ProcInv, CpuInv, StateInv, LoopInv
<1> QED
  BY <1>1, <1>2, <1>3, <1>4, <1>5, <1>6, <1>7, <1>8 DEF ProcInv

(* wait() before it takes wait_lock. *)
LEMMA WaitKeeps ==
  ASSUME NEW c \in CPUs, NEW p \in Procs, ProcInv, wait(c, p)
  PROVE  ProcInv'
<1> USE SlotFacts DEF wait, At, Goto, loopVars
<1>1. Typed'
  BY DEF ProcInv, Typed, Labels
<1>2. ASSUME NEW d \in CPUs PROVE CpuInv(d)'
  <2>1. pc'[p] \notin Saved \cup Switching \cup Waiting /\ cproc[c] = p
    BY DEF ProcInv, Typed, Saved, Switching, Waiting
  <2>2. \A r \in Procs \ {p} : pc'[r] = pc[r]
    BY DEF ProcInv, Typed
  <2> QED BY <2>1, <2>2, CpuMoves
<1>3. InitInv'
  BY DEF Switching, Waiting, ProcInv, Typed, InitInv, StateInv, ForkInv, Exiting
<1>4. WakeInv'
  BY DEF ProcInv, WakeInv
<1>5. pc'[p] = "wait" /\ \A r \in Procs \ {p} : pc'[r] = pc[r]
  BY DEF ProcInv, Typed
<1>6. ASSUME NEW q \in Procs PROVE StateInv(q)' /\ ForkInv(q)' /\ ParentInv(q)'
  BY <1>5, MoveFrame DEF Saved, Switching
<1>7. ASSUME NEW q \in Procs PROVE LoopInv(q)'
  BY DEF ProcInv, LoopInv, InitInv
<1> QED
  BY <1>1, <1>2, <1>3, <1>4, <1>6, <1>7 DEF ProcInv

(* wait() takes wait_lock. *)
LEMMA WaitAcquireKeeps ==
  ASSUME NEW c \in CPUs, NEW p \in Procs, ProcInv, wait_acquire(c, p)
  PROVE  ProcInv'
<1> USE SlotFacts, ScanFacts DEF wait_acquire, At, Goto
<1>1. Typed'
  BY DEF Waiting, ProcInv, Typed, Labels
<1>2. ASSUME NEW d \in CPUs PROVE CpuInv(d)'
  BY DEF Saved, Switching, ProcInv, CpuInv
<1>3. InitInv'
  BY DEF ProcInv, InitInv, Exiting, Alive
<1>4. WakeInv'
  BY DEF ProcInv, Typed, CpuInv, WakeInv, Exiting
<1>5. ASSUME NEW q \in Procs PROVE StateInv(q)'
  BY DEF Saved, Switching, ProcInv, Typed, StateInv
<1>6. ASSUME NEW q \in Procs PROVE ForkInv(q)'
  BY DEF Waiting, ProcInv, Typed, ForkInv
<1>7. ASSUME NEW q \in Procs PROVE ParentInv(q)'
  BY DEF ProcInv, Typed, CpuInv, StateInv, ParentInv
<1>8. ASSUME NEW q \in Procs PROVE LoopInv(q)'
  BY DEF Saved, Waiting, ProcInv, CpuInv, StateInv, LoopInv, Exiting
<1> QED
  BY <1>1, <1>2, <1>3, <1>4, <1>5, <1>6, <1>7, <1>8 DEF ProcInv

(* wait() passes over a slot or frees a zombie child. *)
LEMMA WaitScanKeeps ==
  ASSUME NEW c \in CPUs, NEW p \in Procs, ProcInv, wait_scan(c, p)
  PROVE  ProcInv'
<1> USE SlotFacts DEF Saved, Switching, Waiting
<1>1. cproc[c] = p /\ pc[p] = "wait_scan" /\ scan \in Procs
  BY ScanFacts DEF wait_scan, At, ProcInv, Typed
<1>2. \A r \in Procs : pc[r] \in Waiting => r = p
  BY <1>1 DEF ProcInv, Typed, CpuInv, StateInv
<1>3. UNCHANGED <<plock, cproc, child, wk>>
  BY DEF wait_scan
<1>4. CASE /\ ~IsChild(scan, p) \/ state[scan] # "ZOMBIE"
           /\ scan' = NextSlot(scan)
           /\ UNCHANGED <<state, chan, parent, wait_lock, pc>>
  <2>1. scan' = scan + 1 /\ scan' \in 1 .. NPROC + 1 /\ (parent[scan] = p => state[scan] # "ZOMBIE")
    BY <1>1, <1>4, ProcAssumption DEF IsChild, NextSlot, Procs
  <2>2. Typed' /\ InitInv' /\ WakeInv'
    BY <1>3, <1>4, <2>1 DEF ProcInv, Typed, InitInv, WakeInv
  <2>3. ASSUME NEW d \in CPUs PROVE CpuInv(d)'
    BY <1>3, <1>4 DEF ProcInv, CpuInv
  <2>4. ASSUME NEW q \in Procs PROVE StateInv(q)' /\ ForkInv(q)' /\ ParentInv(q)'
    <3>1. StateInv(q) /\ ForkInv(q) /\ ParentInv(q)
      BY DEF ProcInv
    <3> QED
      BY <1>3, <1>4, <3>1 DEF StateInv, ForkInv, ParentInv
  <2>5. ASSUME NEW q \in Procs PROVE LoopInv(q)'
    BY <1>1, <1>2, <1>4, <2>1, ScanFacts DEF ProcInv, LoopInv
  <2> QED
    BY <2>2, <2>3, <2>4, <2>5 DEF ProcInv
<1>5. CASE /\ IsChild(scan, p) /\ Free(scan) /\ state[scan] = "ZOMBIE"
           /\ freeproc(scan) \/ UNCHANGED <<state, chan, killed, parent>>
           /\ wait_lock' = NoOne /\ Goto(p, "user") /\ UNCHANGED <<scan, havekids>>
  <2>1. /\ pc' = [pc EXCEPT ![p] = "user"] /\ scan' = scan /\ wait_lock' = NoOne
        /\ scan # p /\ scan # initproc /\ pc[scan] = "zombie"
        /\ \A d \in CPUs : cproc[d] # scan
        /\ \A r \in Procs : parent[r] # scan
    <3>1. StateInv(scan) /\ StateInv(p) /\ InitInv /\ state[scan] = "ZOMBIE" /\ plock[scan] = NoOne
      BY <1>1, <1>5, OfProc DEF ProcInv, Free
    <3>2. scan # p /\ scan # initproc
      BY <1>1, <3>1 DEF StateInv, InitInv, Alive
    <3>3. ASSUME NEW r \in Procs PROVE parent[r] # scan
      <4>1. ParentInv(r)
        BY <3>3, OfProc
      <4> QED BY <1>1, <3>1, <4>1 DEF ParentInv, Alive
    <3>4. pc[scan] \in {"sched_exit", "zombie"}
      BY <3>1 DEF StateInv, Alive
    <3>5. ASSUME NEW d \in CPUs, cproc[d] = scan PROVE FALSE
      <4>1. CpuInv(d) /\ scan # NoOne
        BY <1>1, <3>5, OfCPU
      <4>2. plock[scan] = d
        BY <3>4, <3>5, <4>1 DEF CpuInv
      <4> QED BY <3>1, <3>5, <4>2
    <3>6. pc[scan] = "zombie"
      BY <1>1, <3>1, <3>4, <3>5 DEF StateInv
    <3> QED
      BY <1>5, <3>2, <3>3, <3>5, <3>6 DEF Goto
  <2>2. /\ \A r \in Procs : r # scan => state'[r] = state[r] /\ chan'[r] = chan[r] /\ parent'[r] = parent[r]
        /\ \/ state'[scan] = "UNUSED" /\ parent'[scan] = NoOne
           \/ state'[scan] = "ZOMBIE" /\ parent'[scan] = parent[scan]
        /\ state' \in [Procs -> States] /\ chan' \in [Procs -> Procs \cup {NoOne}]
        /\ parent' \in [Procs -> Procs \cup {NoOne}]
    <3>1. CASE freeproc(scan)
      BY <1>1, <3>1 DEF ProcInv, Typed, freeproc, States
    <3>2. CASE UNCHANGED <<state, chan, killed, parent>>
      BY <1>5, <3>2 DEF ProcInv, Typed
    <3> QED
      BY <1>5, <3>1, <3>2
  <2>3. Typed'
    BY <1>3, <2>1, <2>2, Zenon DEF ProcInv, Typed, Labels
  <2>4. InitInv'
    <3>1. InitInv /\ pc'[initproc] \in {pc[initproc], "user"} /\ state'[initproc] = state[initproc]
      BY <2>1, <2>2 DEF ProcInv, Typed
    <3> QED BY <3>1 DEF InitInv, Exiting
  <2>5. WakeInv'
    <3>1. \A a, b \in Procs : ~(state[a] = "SLEEPING" /\ parent[b] = a /\ state[b] = "ZOMBIE")
      <4>1. WakeInv /\ \A r \in Procs : pc[r] # "wakeup_init"
        BY <1>1, <1>2 DEF ProcInv
      <4> QED BY <4>1 DEF WakeInv
    <3>2. \A a \in Procs : /\ state'[a] = "SLEEPING" => state[a] = "SLEEPING"
                           /\ state'[a] = "ZOMBIE" => state[a] = "ZOMBIE" /\ parent'[a] = parent[a]
      BY <1>5, <2>2
    <3> QED
      BY <3>1, <3>2 DEF WakeInv
  <2>6. ASSUME NEW d \in CPUs PROVE CpuInv(d)'
    <3>1. CpuInv(d) /\ CpuInv(c) /\ Typed
      BY DEF ProcInv
    <3>2. CASE cproc[d] = p
      BY <1>3, <2>1, <2>2, <3>1, <3>2 DEF CpuInv, Typed
    <3>3. CASE cproc[d] \notin {p, NoOne}
      <4>1. /\ cproc[d] \in Procs \ {scan, p} /\ pc'[cproc[d]] = pc[cproc[d]]
            /\ state'[cproc[d]] = state[cproc[d]]
        BY <2>1, <2>2, <3>1, <3>3 DEF Typed
      <4>2. pc[cproc[d]] \notin Waiting
        BY <1>2, <4>1
      <4> QED
        BY <1>3, <3>1, <4>1, <4>2 DEF CpuInv
    <3>4. CASE cproc[d] = NoOne
      BY <1>3, <3>4 DEF CpuInv
    <3> QED
      BY <3>2, <3>3, <3>4
  <2>7. ASSUME NEW q \in Procs PROVE StateInv(q)'
    <3>1. StateInv(q) /\ Typed
      BY DEF ProcInv
    <3>2. CASE q = scan
      <4>1. pc'[q] = "zombie" /\ state'[q] \in {"ZOMBIE", "UNUSED"}
        BY <2>1, <2>2, <3>1, <3>2 DEF Typed
      <4> QED BY <4>1 DEF StateInv
    <3>3. CASE q \notin {scan, p}
      <4>1. pc'[q] = pc[q] /\ state'[q] = state[q] /\ chan'[q] = chan[q]
        BY <2>1, <2>2, <3>1, <3>3 DEF Typed
      <4> QED BY <1>3, <3>1, <4>1, StateFrame
    <3>4. CASE q = p
      <4>1. pc'[p] = "user" /\ state'[p] = state[p] /\ chan'[p] = chan[p]
        BY <1>1, <2>1, <2>2, <3>1 DEF Typed
      <4> QED BY <1>1, <1>3, <3>1, <3>4, <4>1 DEF StateInv
    <3> QED
      BY <3>2, <3>3, <3>4
  <2>8. ASSUME NEW q \in Procs PROVE ForkInv(q)'
    <3>1. ForkInv(q) /\ Typed
      BY DEF ProcInv
    <3>2. CASE q = p
      BY <2>1, <3>1, <3>2 DEF ForkInv, Typed
    <3>3. CASE q # p
      <4>1. /\ pc'[q] = pc[q]
            /\ \A r \in Procs : pc'[r] \in {"fork_copy", "fork_parent", "fork_run"} => pc'[r] = pc[r]
        BY <2>1, <3>1, <3>3 DEF Typed
      <4>2. pc[q] \in {"fork_copy", "fork_parent", "fork_run", "fork_return"} =>
              child[q] \in Procs /\ child[q] # scan
        BY <1>5, <3>1, <3>3 DEF ForkInv, IsChild
      <4>3. pc[q] \in {"fork_copy", "fork_parent", "fork_run", "fork_return"} =>
              parent'[child[q]] = parent[child[q]] /\ state'[child[q]] = state[child[q]]
        BY <2>2, <4>2
      <4> QED BY <1>3, <3>1, <4>1, <4>3, ForkFrame
    <3> QED
      BY <3>2, <3>3
  <2>9. ASSUME NEW q \in Procs PROVE ParentInv(q)'
    <3>1. ParentInv(q) /\ Typed
      BY DEF ProcInv
    <3>2. parent[q] # NoOne => parent[q] \in Procs /\ parent[q] # scan
      BY <2>1, <3>1 DEF Typed
    <3>3. CASE q = scan
      BY <1>5, <2>2, <3>1, <3>3 DEF ParentInv
    <3>4. CASE q # scan
      BY <2>2, <3>1, <3>2, <3>4 DEF ParentInv
    <3> QED
      BY <3>3, <3>4
  <2>10. ASSUME NEW q \in Procs PROVE LoopInv(q)'
    <3>1. pc'[q] \notin Waiting
      <4>1. pc'[q] = IF q = p THEN "user" ELSE pc[q]
        BY <2>1 DEF ProcInv, Typed
      <4> QED BY <1>2, <4>1
    <3> QED BY <3>1 DEF LoopInv
  <2> QED
    BY <2>3, <2>4, <2>5, <2>6, <2>7, <2>8, <2>9, <2>10 DEF ProcInv
<1> QED
  BY <1>4, <1>5 DEF wait_scan

(* wait() has seen every slot. *)
LEMMA WaitDecideKeeps ==
  ASSUME NEW c \in CPUs, NEW p \in Procs, ProcInv, wait_decide(c, p)
  PROVE  ProcInv'
<1> USE SlotFacts, ScanFacts DEF wait_decide, At, Goto, loopVars
<1>1. Typed'
  BY DEF Waiting, ProcInv, Typed, Labels
<1>2. ASSUME NEW d \in CPUs PROVE CpuInv(d)'
  <2>1. CASE cproc[d] = NoOne
    BY <2>1 DEF CpuInv
  <2>2. CASE cproc[d] = p
    BY <2>2 DEF ProcInv, Typed, CpuInv, Waiting, Saved, Switching
  <2>3. CASE cproc[d] \notin {p, NoOne}
    <3>1. cproc[d] \in Procs /\ CpuInv(d) /\ CpuInv(c)
      BY <2>3 DEF ProcInv, Typed
    <3>2. pc'[cproc[d]] = pc[cproc[d]] /\ wait_lock = c
      BY ZenonT(60), <2>3, <3>1 DEF ProcInv, Typed, CpuInv, Waiting
    <3> QED
      BY <2>3, <3>1, <3>2 DEF CpuInv
  <2> QED
    BY <2>1, <2>2, <2>3
<1>3. InitInv'
  BY DEF ProcInv, Typed, InitInv, Exiting
<1>4. WakeInv'
  BY DEF ProcInv, Typed, WakeInv
<1>5. /\ pc'[p] \in {"user", "wait_sleep"} /\ scan > NPROC /\ pc[p] = "wait_scan" /\ cproc[c] = p
      /\ \A r \in Procs \ {p} : pc'[r] = pc[r]
      /\ UNCHANGED <<state, chan, cproc, child, parent, scan, wk>>
  BY DEF ProcInv, Typed
<1>6. ASSUME NEW q \in Procs PROVE StateInv(q)' /\ ForkInv(q)' /\ ParentInv(q)'
  BY <1>5, MoveFrame DEF Saved, Switching
<1>7. ASSUME NEW q \in Procs PROVE LoopInv(q)'
  <2> HIDE DEF wait_decide
  <2>1. CASE q = p
    <3>1. \A r \in Procs : r < scan
      BY <1>5 DEF ProcInv, Typed
    <3>2. LoopInv(p)
      BY OfProc
    <3>3. \A r \in Procs : parent[r] = p => state[r] # "ZOMBIE"
      BY <1>5, <3>1, <3>2 DEF LoopInv
    <3> QED BY <1>5, <2>1, <3>3 DEF LoopInv
  <2>2. CASE q # p
    BY <1>5, <1>7, <2>2, OfProc, LoopFrame
  <2> QED BY <2>1, <2>2
<1> QED
  BY <1>1, <1>2, <1>3, <1>4, <1>6, <1>7 DEF ProcInv

(* The parent sleeps; none of its children is a zombie. *)
LEMMA SleepKeeps ==
  ASSUME NEW c \in CPUs, NEW p \in Procs, ProcInv, sleep(c, p)
  PROVE  ProcInv'
<1> USE SlotFacts
<1>1. Typed'
  BY DEF Switching, ProcInv, Typed, States, Labels, sleep, At, Goto, Free, Hold, loopVars
<1>2. /\ cproc[c] = p /\ pc[p] = "wait_sleep" /\ wait_lock' = NoOne
      /\ UNCHANGED <<parent, cproc, child, scan, wk>>
  BY DEF sleep, At, loopVars
<1>3. /\ \A r \in Procs : state'[r] = IF r = p THEN "SLEEPING" ELSE state[r]
      /\ \A r \in Procs : pc'[r] = IF r = p THEN "sched_sleep" ELSE pc[r]
      /\ \A r \in Procs : plock'[r] = IF r = p THEN c ELSE plock[r]
      /\ \A r \in Procs : chan'[r] = IF r = p THEN p ELSE chan[r]
  BY DEF ProcInv, Typed, sleep, Goto, Hold
<1>4. ASSUME NEW r \in Procs, pc[r] \in Waiting PROVE r = p
  <2>1. StateInv(r) /\ CpuInv(c)
    BY <1>4, OfProc, OfCPU
  <2>2. PICK d \in CPUs : cproc[d] = r
    BY <1>4, <2>1 DEF StateInv, Saved, Waiting
  <2>3. CpuInv(d)
    BY OfCPU
  <2>4. wait_lock = d /\ wait_lock = c
    BY <1>2, <1>4, <2>1, <2>2, <2>3 DEF CpuInv, Waiting
  <2> QED BY <1>2, <2>2, <2>4
<1>5. ASSUME NEW d \in CPUs PROVE CpuInv(d)'
  <2>1. CpuInv(d) /\ cproc[d] \in Procs \cup {NoOne}
    BY <1>5, OfCPU
  <2>2. CASE cproc[d] = NoOne
    BY <1>2, <2>2 DEF CpuInv
  <2>3. CASE cproc[d] = p
    <3>1. d = c /\ state'[p] = "SLEEPING" /\ pc'[p] = "sched_sleep" /\ plock'[p] = c
      BY <1>2, <1>3, <1>5, <2>1, <2>3 DEF CpuInv
    <3> QED BY <1>2, <2>1, <2>3, <3>1 DEF CpuInv, Waiting
  <2>4. CASE cproc[d] \in Procs \ {p}
    <3>1. /\ state'[cproc[d]] = state[cproc[d]] /\ pc'[cproc[d]] = pc[cproc[d]]
          /\ plock'[cproc[d]] = plock[cproc[d]] /\ pc[cproc[d]] \notin Waiting
      BY <1>3, <1>4, <2>4
    <3> QED BY <1>2, <2>1, <3>1 DEF CpuInv
  <2> QED BY <2>1, <2>2, <2>3, <2>4
<1>6. InitInv'
  <2>1. /\ InitInv /\ state'[initproc] \in {state[initproc], "SLEEPING"}
        /\ pc'[initproc] \in {pc[initproc], "sched_sleep"}
    BY <1>3 DEF ProcInv
  <2> QED BY <2>1 DEF InitInv, Exiting, Alive
<1>7. WakeInv'
  <2>1. WakeInv /\ LoopInv(p) /\ \A r \in Procs : pc[r] # "wakeup_init"
    BY <1>2, <1>4, OfProc DEF ProcInv, Waiting
  <2>2. /\ \A q \in Procs : parent[q] = p => state[q] # "ZOMBIE"
        /\ \A a, q \in Procs : ~(state[a] = "SLEEPING" /\ parent[q] = a /\ state[q] = "ZOMBIE")
    BY <1>2, <2>1 DEF LoopInv, WakeInv
  <2> SUFFICES ASSUME NEW a \in Procs, NEW q \in Procs, state'[a] = "SLEEPING", parent'[q] = a,
                      state'[q] = "ZOMBIE"
               PROVE  FALSE
    BY DEF WakeInv
  <2>3. state[q] = "ZOMBIE" /\ parent[q] = a /\ (a = p \/ state[a] = "SLEEPING")
    BY <1>2, <1>3
  <2> QED BY <2>2, <2>3
<1>8. ASSUME NEW q \in Procs PROVE StateInv(q)' /\ ForkInv(q)' /\ ParentInv(q)' /\ LoopInv(q)'
  <2>1. StateInv(q) /\ ForkInv(q) /\ ParentInv(q) /\ Typed
    BY <1>8, OfProc
  <2>2. StateInv(q)'
    <3>1. CASE q = p
      <4>1. StateInv(p) /\ cproc'[c] = p
        BY <1>2, OfProc
      <4> QED BY <1>3, <3>1, <4>1 DEF StateInv, Switching, Saved
    <3>2. CASE q # p
      BY <1>2, <1>3, <1>8, <2>1, <3>2, StateFrame
    <3> QED BY <3>1, <3>2
  <2>3. state[p] = "RUNNING"
    BY <1>2, OfProc DEF StateInv, Saved, Switching
  <2>4. ForkInv(q)'
    <3>1. CASE q = p
      BY <1>3, <3>1 DEF ForkInv
    <3>2. CASE q # p
      <4>1. /\ pc'[q] = pc[q]
            /\ \A r \in Procs : pc'[r] \in {"fork_copy", "fork_parent", "fork_run"} => pc'[r] = pc[r]
        BY <1>3, <1>8, <3>2
      <4>2. pc[q] \in {"fork_copy", "fork_parent", "fork_run", "fork_return"} =>
              \/ state'[child[q]] = state[child[q]]
              \/ {state[child[q]], state'[child[q]]} \cap {"UNUSED", "USED"} = {}
        BY <1>3, <2>1, <2>3 DEF ForkInv
      <4> QED BY <1>2, <1>8, <2>1, <4>1, <4>2, ForkFrame
    <3> QED BY <3>1, <3>2
  <2>5. ParentInv(q)'
    <3>1. parent[q] # NoOne => state'[parent[q]] \in {state[parent[q]], "SLEEPING"}
      <4>1. parent[q] \in Procs \cup {NoOne}
        BY <1>8, <2>1 DEF Typed
      <4> QED BY <1>3, <4>1
    <3>2. state'[q] \in {"UNUSED", "USED"} \/ state[q] \notin {"UNUSED", "USED"}
      BY <1>3, <1>8, <2>3
    <3> QED BY <1>2, <2>1, <3>1, <3>2 DEF ParentInv, Alive
  <2>6. LoopInv(q)'
    <3>1. pc'[q] \notin Waiting
      BY <1>3, <1>4, <1>8 DEF Waiting
    <3> QED BY <3>1 DEF LoopInv, Waiting
  <2> QED BY <2>2, <2>4, <2>5, <2>6
<1> QED
  BY <1>1, <1>5, <1>6, <1>7, <1>8 DEF ProcInv

(* kill() may wake its victim. *)
LEMMA KillKeeps ==
  ASSUME NEW c \in CPUs, NEW p \in Procs, NEW np \in Procs, ProcInv, kill(c, p, np)
  PROVE  ProcInv'
<1> USE SlotFacts
<1>1. Typed'
  BY DEF ProcInv, Typed, States, kill, loopVars
<1>2. UNCHANGED <<chan, parent, plock, wait_lock, cproc, pc, child, scan, wk>>
  BY DEF kill, loopVars
<1>3. \A r \in Procs : \/ state'[r] = state[r]
                       \/ state[r] = "SLEEPING" /\ state'[r] = "RUNNABLE"
  BY DEF ProcInv, Typed, kill
<1>4. ASSUME NEW d \in CPUs PROVE CpuInv(d)'
  <2>1. CpuInv(d) /\ cproc[d] \in Procs \cup {NoOne}
    BY <1>4, OfCPU
  <2>2. cproc[d] # NoOne /\ state'[cproc[d]] \in {"UNUSED", "USED"} => state[cproc[d]] \in {"UNUSED", "USED"}
    BY <1>3, <2>1
  <2> QED BY <1>2, <2>1, <2>2 DEF CpuInv
<1>5. InitInv'
  BY <1>2, <1>3 DEF ProcInv, InitInv, Alive
<1>6. WakeInv'
  BY <1>2, <1>3, WakeFrame DEF ProcInv
<1>7. ASSUME NEW q \in Procs PROVE StateInv(q)' /\ ForkInv(q)' /\ ParentInv(q)' /\ LoopInv(q)'
  <2>1. StateInv(q) /\ ForkInv(q) /\ ParentInv(q) /\ LoopInv(q) /\ Typed
    BY <1>7, OfProc
  <2>2. StateInv(q)'
    <3>1. CASE state'[q] = state[q]
      BY <1>2, <1>7, <2>1, <3>1, StateFrame
    <3>2. CASE state[q] = "SLEEPING" /\ state'[q] = "RUNNABLE"
      <4>1. CASE pc[q] = "sched_sleep"
        <5>1. PICK d \in CPUs : cproc[d] = q
          BY <2>1, <4>1 DEF StateInv, Saved
        <5>2. plock[q] = d
          BY <4>1, <5>1, OfCPU DEF CpuInv, Switching
        <5>3. plock[q] = NoOne
          BY <1>7, <3>2 DEF kill, Free, ProcInv, Typed
        <5> QED BY <5>2, <5>3
      <4>2. CASE pc[q] # "sched_sleep"
        <5>1. pc[q] = "sleeping"
          BY <2>1, <3>2, <4>2 DEF StateInv, Saved, Switching
        <5> QED BY <1>2, <2>1, <3>2, <5>1 DEF StateInv, Saved, Switching, Alive
      <4> QED BY <4>1, <4>2
    <3> QED BY <1>3, <1>7, <3>1, <3>2
  <2>3. ForkInv(q)'
    <3>1. pc[q] \in {"fork_copy", "fork_parent", "fork_run", "fork_return"} =>
            \/ state'[child[q]] = state[child[q]]
            \/ {state[child[q]], state'[child[q]]} \cap {"UNUSED", "USED"} = {}
      BY <1>3, <2>1 DEF ForkInv
    <3> QED BY <1>2, <1>7, <2>1, <3>1, ForkFrame
  <2>4. ParentInv(q)'
    <3>1. parent[q] # NoOne => state'[parent[q]] \in {state[parent[q]], "RUNNABLE"}
      BY <1>3, <1>7, <2>1 DEF Typed
    <3>2. state'[q] \in {"UNUSED", "USED"} \/ state[q] \notin {"UNUSED", "USED"}
      BY <1>3, <1>7
    <3> QED BY <1>2, <2>1, <3>1, <3>2 DEF ParentInv, Alive
  <2>5. LoopInv(q)'
    BY <1>2, <1>3, <1>7, <2>1, LoopFrame
  <2> QED BY <2>2, <2>3, <2>4, <2>5
<1> QED
  BY <1>1, <1>4, <1>5, <1>6, <1>7 DEF ProcInv

-----------------------------------------------------------------------------
(* Every step of a CPU keeps the invariant. *)
LEMMA ProcStep == ProcInv /\ [Next]_vars => ProcInv'
<1> SUFFICES ASSUME ProcInv, [Next]_vars PROVE ProcInv'
  OBVIOUS
<1>1. CASE UNCHANGED vars
  <2>1. ASSUME NEW q \in Procs PROVE StateInv(q)' /\ ForkInv(q)' /\ ParentInv(q)' /\ LoopInv(q)'
    <3>1. StateInv(q) /\ ForkInv(q) /\ ParentInv(q) /\ LoopInv(q)
      BY DEF ProcInv
    <3>2. UNCHANGED <<state, chan, pc, cproc, child, parent, scan, wk>>
      BY <1>1 DEF vars, loopVars
    <3>3. StateInv(q)' /\ ForkInv(q)'
      BY <2>1, <3>1, <3>2, StateFrame, ForkFrame
    <3>4. LoopInv(q)'
      BY <2>1, <3>1, <3>2, LoopFrame
    <3> QED
      BY <3>1, <3>2, <3>3, <3>4 DEF ParentInv
  <2>2. Typed' /\ InitInv' /\ WakeInv' /\ \A c \in CPUs : CpuInv(c)'
    BY <1>1 DEF vars, ProcInv, Typed, InitInv, WakeInv, CpuInv
  <2> QED
    BY <2>1, <2>2 DEF ProcInv
<1>2. ASSUME NEW c \in CPUs, NEW p \in Procs, Kernel(c, p) PROVE ProcInv'
  BY <1>2, SchedKeeps, SchedReturnKeeps, ResumeKeeps, ForkCopyKeeps,
     ForkParentKeeps, ForkRunKeeps, ForkReturnKeeps, ExitLockKeeps, ReparentKeeps,
     WakeupInitKeeps, WakeupParentKeeps, ExitZombieKeeps, WaitAcquireKeeps,
     WaitScanKeeps, WaitDecideKeeps, SleepKeeps
     DEF Kernel
<1>3. ASSUME NEW c \in CPUs, NEW p \in Procs, schedule(c, p) \/ yield(c, p) \/ exit(c, p) \/ wait(c, p)
      PROVE  ProcInv'
  BY <1>3, ScheduleKeeps, YieldKeeps, ExitKeeps, WaitKeeps
<1>4. ASSUME NEW c \in CPUs, NEW p \in Procs, NEW q \in Procs, fork(c, p, q) \/ kill(c, p, q)
      PROVE  ProcInv'
  BY <1>4, ForkKeeps, KillKeeps
<1> QED
  BY <1>1, <1>2, <1>3, <1>4 DEF Next

(* The locks, the process table and the places of the kernel threads agree *)
(* as ProcInv says at every step of any number of CPUs and processes.      *)
THEOREM ProcInvariance == Spec => []ProcInv
  BY ProcInitial, ProcStep, PTL DEF Spec

(* No two CPUs run the same process, or one that has been freed: p->lock,  *)
(* handed over across swtch(), guards the kernel stack.                    *)
THEOREM OneStack == Spec => []OneCpuPerProcess
<1>1. ProcInv => OneCpuPerProcess
  BY DEF ProcInv, CpuInv, OneCpuPerProcess
<1> QED
  BY <1>1, ProcInvariance, PTL

(* exit() and fork() leave no process without a living parent, whichever   *)
(* of several related processes exit at the same time.                     *)
THEOREM ParentOutlives == Spec => []ParentIsAlive
<1>1. ProcInv => ParentIsAlive
  BY DEF ProcInv, Typed, ParentInv, ParentIsAlive, Alive
<1> QED
  BY <1>1, ProcInvariance, PTL

(* wait() never sleeps through the exit of a child, be it the caller's own *)
(* or one that init has inherited.                                         *)
THEOREM NoExitMissed == Spec => []NoLostExit
<1>1. ProcInv => NoLostExit
  <2> SUFFICES ASSUME ProcInv, wait_lock = NoOne PROVE \A r \in Procs : pc[r] # "wakeup_init"
    BY DEF NoLostExit, ProcInv, WakeInv
  <2> SUFFICES ASSUME NEW r \in Procs, pc[r] = "wakeup_init" PROVE FALSE
    OBVIOUS
  <2>1. PICK d \in CPUs : cproc[d] = r
    BY OfProc DEF StateInv, Saved
  <2>2. wait_lock = d
    BY <2>1, OfCPU, SlotFacts DEF CpuInv, Waiting
  <2> QED
    BY <2>2, SlotFacts
<1> QED
  BY <1>1, ProcInvariance, PTL

(* The slot whose pid fork() and deadfork() read after they have let go of *)
(* it still holds the child.                                               *)
THEOREM ForkReturnsChild == Spec => []ForkResultIsChild
<1>1. ProcInv => ForkResultIsChild
  BY DEF ProcInv, ForkInv, ForkResultIsChild
<1> QED
  BY <1>1, ProcInvariance, PTL
=============================================================================
