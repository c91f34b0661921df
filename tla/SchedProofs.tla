---------------------------- MODULE SchedProofs -----------------------------
(***************************************************************************)
(* Proofs about who runs, and for how long one sleeps: the scheduler of    *)
(* MinCU, for any number of CPUs and slots, and sys_sleep() of Clock.      *)
(***************************************************************************)
EXTENDS MinCU, Clock, TLAPS

-----------------------------------------------------------------------------
(* The scan for the least used process.                                    *)

TaskStates == {"UNUSED", "RUNNABLE", "RUNNING", "SLEEPING", "ZOMBIE"}
Tasks == [state : TaskStates, sum : Nat, quota : Nat, deadline : Nat, parent : 0 .. NTASK]
Harts == [at : {"idle", "scan", "run"}, i : 1 .. NTASK + 1, min : Nat, best : 0 .. NTASK,
          quota : BOOLEAN, proc : 0 .. NTASK, start : Nat]

TaskTyped ==
  /\ pr \in [Slots -> Tasks]
  /\ prlock \in [Slots -> Cpus \cup {NoCpu}]
  /\ cpu \in [Cpus -> Harts]
  /\ now \in 0 .. MAXTICK
  /\ ready \in [Cpus -> SUBSET Slots]

(* A CPU scans under proc_lock; between scans its loop is reset.  The only *)
(* p->lock it keeps is that of its candidate, a process it has visited.    *)
ScanInv(c) ==
  /\ cpu[c].at = "scan" <=> scanlock = c
  /\ cpu[c].at # "scan" => cpu[c].i = 1 /\ cpu[c].best = 0
  /\ cpu[c].best = 0 => cpu[c].min = INFTICKS
  /\ cpu[c].best # 0 =>
       /\ cpu[c].best < cpu[c].i /\ prlock[cpu[c].best] = c
       /\ pr[cpu[c].best].state = "RUNNABLE" /\ pr[cpu[c].best].sum = cpu[c].min
  /\ \A s \in Slots : prlock[s] = c => s = cpu[c].best

(* Of the slots visited so far, those that were always eligible have used  *)
(* no less than the candidate.                                             *)
LeastInv(c) ==
  \A s \in ready[c] :
    /\ pr[s].state = "RUNNABLE" /\ ~OverQuota(s)
    /\ s < cpu[c].i => cpu[c].best # 0 /\ cpu[c].min <= pr[s].sum

(* A process runs on one CPU, which knows since when.                      *)
RunInv(c) ==
  /\ cpu[c].at = "run" =>
       /\ cpu[c].proc \in Slots /\ Running(cpu[c].proc)
       /\ cpu[c].start <= now /\ pr[cpu[c].proc].sum <= cpu[c].start
  /\ cpu[c].at # "run" => cpu[c].proc = 0
  /\ \A d \in Cpus : cpu[c].proc = cpu[d].proc /\ cpu[c].proc # 0 => c = d

(* Usage is part of the time that has passed, and a RUNNING process has a  *)
(* CPU.                                                                    *)
UsageInv(s) ==
  /\ pr[s].sum <= now
  /\ Running(s) => \E c \in Cpus : cpu[c].proc = s

MinCUInv ==
  /\ TaskTyped
  /\ \A c \in Cpus : ScanInv(c) /\ LeastInv(c) /\ RunInv(c)
  /\ \A s \in Slots : UsageInv(s)

-----------------------------------------------------------------------------
(* The constants, as the proofs use them.                                  *)
LEMMA TaskFacts ==
  /\ Slots \subseteq Nat \ {0} /\ 1 \in Slots /\ 2 \in Slots /\ NoCpu \notin Cpus
  /\ \A s \in Slots : s \in 1 .. NTASK + 1 /\ s + 1 \in 1 .. NTASK + 1 /\ s \in 0 .. NTASK
  /\ 0 \in 0 .. NTASK /\ 1 \in 1 .. NTASK + 1 /\ 0 \notin Slots
  /\ \A i \in 1 .. NTASK + 1 : i <= NTASK <=> i \in Slots
  /\ NoDeadline \in Nat
  /\ INFTICKS \in Nat /\ MAXTICK \in Nat /\ MAXTICK < INFTICKS
<1>1. NoDeadline \in Nat
  BY Zenon, MinCUAssumption DEF NoDeadline
<1> QED BY <1>1, MinCUAssumption DEF Slots

(* What a CPU watches is RUNNABLE and within its quota, and leaves the list *)
(* when it is not any more.                                                *)
LEMMA Watched ==
  ASSUME TaskTyped, NEW cs, Watch(cs)
  PROVE  /\ ready' \in [Cpus -> SUBSET Slots]
         /\ \A c \in Cpus : \A t \in ready'[c] :
              t \in Slots /\ pr'[t].state = "RUNNABLE" /\ ~OverQuota(t)'
         /\ \A c \in Cpus : c \notin cs => ready'[c] \subseteq ready[c]
BY DEF Watch, Eligible, TaskTyped

(* A new process, a free slot, and the first two processes are well typed. *)
LEMMA NewTasks ==
  ASSUME NEW dl \in Nat, NEW p \in 0 .. NTASK
  PROVE  NewTask(dl, p) \in Tasks /\ FreeTask \in Tasks /\ FreeTask.sum = 0
         /\ NewTask(dl, p).sum = 0 /\ NewTask(dl, p).state = "RUNNABLE"
         /\ FreeTask.state = "UNUSED"
BY TaskFacts DEF NewTask, FreeTask, Tasks, TaskStates

(* At first every CPU is idle, and two processes wait to run.              *)
LEMMA MinCUInitial ==
  ASSUME MinCUInit
  PROVE  MinCUInv
<1> DEFINE f(s) == CASE s = 1 -> [NewTask(NoDeadline, 0) EXCEPT !.quota = INFTICKS]
                     [] s = 2 -> [NewTask(NoDeadline, 1) EXCEPT !.quota = INFTICKS]
                     [] OTHER -> FreeTask
<1>1. ASSUME NEW s \in Slots
      PROVE  f(s) \in Tasks /\ f(s).sum = 0 /\ f(s).state # "RUNNING"
  BY Zenon, TaskFacts DEF NewTask, FreeTask, Tasks, TaskStates
<1>2. pr = [s \in Slots |-> f(s)]
  BY DEF MinCUInit
<1> HIDE DEF f
<1>3. /\ prlock = [s \in Slots |-> NoCpu] /\ scanlock = NoCpu /\ now = 0
      /\ ready = [c \in Cpus |-> {}]
      /\ cpu = [c \in Cpus |-> [at |-> "idle", i |-> 1, min |-> INFTICKS, best |-> 0,
                                quota |-> TRUE, proc |-> 0, start |-> 0]]
  BY Zenon DEF MinCUInit
<1>4. TaskTyped
  <2>1. pr \in [Slots -> Tasks]
    BY <1>1, <1>2
  <2>2. cpu \in [Cpus -> Harts]
    BY <1>3, TaskFacts DEF Harts
  <2>3. now \in 0 .. MAXTICK
    BY <1>3, TaskFacts
  <2> QED BY Zenon, <1>3, <2>1, <2>2, <2>3 DEF TaskTyped
<1>5. ASSUME NEW c \in Cpus PROVE ScanInv(c) /\ LeastInv(c) /\ RunInv(c)
  BY <1>3, TaskFacts DEF ScanInv, LeastInv, RunInv
<1>6. ASSUME NEW s \in Slots PROVE UsageInv(s)
  BY <1>1, <1>2, <1>3 DEF UsageInv, Running
<1> QED BY Zenon, <1>4, <1>5, <1>6 DEF MinCUInv

(* What the invariant says of one CPU and of one process.                  *)
LEMMA OfCpu ==
  ASSUME MinCUInv, NEW d \in Cpus
  PROVE  /\ cpu[d] \in Harts /\ ScanInv(d) /\ LeastInv(d) /\ RunInv(d)
         /\ cpu[d].best \in Slots \cup {0} /\ cpu[d].proc \in Slots \cup {0}
         /\ cpu[d].min \in Nat /\ cpu[d].start \in Nat /\ cpu[d].i \in 1 .. NTASK + 1
         /\ ready[d] \subseteq Slots /\ now \in Nat /\ now <= MAXTICK
<1>1. /\ cpu[d] \in Harts /\ ScanInv(d) /\ LeastInv(d) /\ RunInv(d)
      /\ ready[d] \subseteq Slots /\ now \in 0 .. MAXTICK
  BY DEF MinCUInv, TaskTyped
<1> QED BY <1>1, TaskFacts DEF Harts, Slots

LEMMA OfTask ==
  ASSUME MinCUInv, NEW s \in Slots
  PROVE  pr[s] \in Tasks /\ UsageInv(s) /\ pr[s].sum \in Nat /\ pr[s].sum <= now
BY DEF MinCUInv, TaskTyped, UsageInv, Tasks

(* A scan goes on while other CPUs leave its lock, the p->locks it has and *)
(* its candidate alone.                                                    *)
LEMMA ScanFrame ==
  ASSUME MinCUInv, NEW d \in Cpus, cpu'[d] = cpu[d], scanlock' = d <=> scanlock = d,
         \A t \in Slots : prlock'[t] = d <=> prlock[t] = d,
         cpu[d].best # 0 => pr'[cpu[d].best].state = pr[cpu[d].best].state
                            /\ pr'[cpu[d].best].sum = pr[cpu[d].best].sum
  PROVE  ScanInv(d)'
<1>1. ScanInv(d) /\ cpu[d].best \in Slots \cup {0}
  BY OfCpu
<1> QED BY <1>1 DEF ScanInv

(* What a CPU knows of the slots it has passed stays true while nobody     *)
(* changes the usage of what is RUNNABLE.                                  *)
LEMMA LeastFrame ==
  ASSUME MinCUInv, NEW cs, Watch(cs), NEW d \in Cpus \ cs,
         cpu'[d].i = cpu[d].i, cpu'[d].best = cpu[d].best, cpu'[d].min = cpu[d].min,
         \A t \in Slots : pr[t].state = "RUNNABLE" /\ pr'[t].state = "RUNNABLE" => pr'[t].sum = pr[t].sum
  PROVE  LeastInv(d)'
<1>1. /\ ready'[d] \subseteq ready[d] /\ ready[d] \subseteq Slots /\ LeastInv(d)
      /\ \A t \in ready'[d] : pr'[t].state = "RUNNABLE" /\ ~OverQuota(t)'
  BY Watched, OfCpu DEF MinCUInv
<1>2. \A t \in ready'[d] : pr'[t].sum = pr[t].sum
  BY <1>1 DEF LeastInv
<1> QED BY <1>1, <1>2 DEF LeastInv

(* At the start of a scan it knows nothing.                                *)
LEMMA LeastFresh ==
  ASSUME MinCUInv, NEW cs, Watch(cs), NEW d \in Cpus, cpu'[d].i = 1
  PROVE  LeastInv(d)'
<1>1. \A t \in ready'[d] : t \in Slots /\ pr'[t].state = "RUNNABLE" /\ ~OverQuota(t)'
  BY Watched DEF MinCUInv
<1>2. \A t \in Slots : ~(t < 1)
  BY TaskFacts
<1> QED BY <1>1, <1>2 DEF LeastInv

(* A process stays on its CPU while nobody else runs it.                   *)
LEMMA RunFrame ==
  ASSUME MinCUInv, NEW d \in Cpus, cpu'[d].at = "run" <=> cpu[d].at = "run",
         cpu'[d].proc = cpu[d].proc, cpu'[d].start = cpu[d].start, now' \in Nat, now' >= now,
         cpu[d].proc # 0 => pr'[cpu[d].proc].state = pr[cpu[d].proc].state
                            /\ pr'[cpu[d].proc].sum = pr[cpu[d].proc].sum,
         \A e \in Cpus : cpu'[e].proc = cpu[d].proc /\ cpu[d].proc # 0 => cpu[e].proc = cpu[d].proc
  PROVE  RunInv(d)'
<1>1. RunInv(d) /\ cpu[d].start \in Nat /\ now \in Nat
  BY OfCpu
<1>2. cpu'[d].at = "run" => /\ cpu'[d].proc \in Slots /\ Running(cpu[d].proc)'
                            /\ cpu'[d].start <= now' /\ pr'[cpu'[d].proc].sum <= cpu'[d].start
  BY <1>1, TaskFacts DEF RunInv, Running
<1> QED BY <1>1, <1>2 DEF RunInv, Running

LEMMA UsageFrame ==
  ASSUME MinCUInv, NEW s \in Slots, pr'[s].sum \in {0, pr[s].sum}, now' \in Nat, now' >= now,
         pr'[s].state = "RUNNING" => pr[s].state = "RUNNING",
         \A d \in Cpus : cpu[d].proc = s => cpu'[d].proc = s
  PROVE  UsageInv(s)'
<1>1. UsageInv(s) /\ pr[s].sum \in Nat /\ now \in Nat /\ pr[s].sum <= now
  BY OfTask, TaskFacts DEF MinCUInv, TaskTyped
<1>2. pr'[s].sum <= now'
  BY <1>1
<1> QED BY <1>1, <1>2 DEF UsageInv, Running

(* A scan does not touch what runs.                                        *)
LEMMA ScanOnly ==
  ASSUME MinCUInv, pr' = pr, now' = now,
         \A d \in Cpus : /\ cpu'[d].proc = cpu[d].proc /\ cpu'[d].start = cpu[d].start
                         /\ cpu'[d].at = "run" <=> cpu[d].at = "run"
  PROVE  (\A d \in Cpus : RunInv(d)') /\ (\A s \in Slots : UsageInv(s)')
<1>1. now' \in Nat /\ now' >= now
  BY TaskFacts DEF MinCUInv, TaskTyped
<1>2. ASSUME NEW d \in Cpus PROVE RunInv(d)'
  BY <1>1, <1>2, RunFrame
<1>3. ASSUME NEW s \in Slots PROVE UsageInv(s)'
  BY <1>1, <1>3, UsageFrame
<1> QED BY <1>2, <1>3

(* A step that changes no process, no lock and no CPU.                     *)
LEMMA QuietKeeps ==
  ASSUME MinCUInv, UNCHANGED <<pr, prlock, scanlock, cpu>>, Watch({}),
         now' \in 0 .. MAXTICK, now' >= now
  PROVE  MinCUInv'
<1>1. now' \in Nat
  BY TaskFacts
<1>2. TaskTyped'
  BY Watched DEF MinCUInv, TaskTyped
<1>3. ASSUME NEW d \in Cpus PROVE ScanInv(d)' /\ LeastInv(d)' /\ RunInv(d)'
  <2>1. ScanInv(d)'
    BY <1>3, ScanFrame
  <2>2. LeastInv(d)'
    BY <1>3, LeastFrame
  <2>3. RunInv(d)'
    BY <1>1, <1>3, RunFrame
  <2> QED BY <2>1, <2>2, <2>3
<1>4. ASSUME NEW s \in Slots PROVE UsageInv(s)'
  BY <1>1, <1>4, UsageFrame
<1> QED BY <1>2, <1>3, <1>4 DEF MinCUInv

(* proc_lock is taken: the scan begins at the first slot.                  *)
LEMMA ScanStartKeeps ==
  ASSUME MinCUInv, NEW c \in Cpus, scanStart(c)
  PROVE  MinCUInv'
<1> DEFINE h == [cpu[c] EXCEPT !.at = "scan"]
<1>1. /\ cpu[c].at = "idle" /\ scanlock = NoCpu /\ scanlock' = c
      /\ cpu' = [cpu EXCEPT ![c] = h]
      /\ pr' = pr /\ prlock' = prlock /\ now' = now /\ Watch({c})
  BY DEF scanStart
<1>2. ScanInv(c) /\ cpu[c] \in Harts /\ c # NoCpu
  BY OfCpu, TaskFacts
<1>3. /\ h \in Harts /\ h.at = "scan" /\ h.i = cpu[c].i /\ h.best = cpu[c].best
      /\ h.min = cpu[c].min /\ h.proc = cpu[c].proc /\ h.start = cpu[c].start
  BY <1>2 DEF Harts
<1> HIDE DEF h
<1>4. \A d \in Cpus : cpu'[d] = IF d = c THEN h ELSE cpu[d]
  BY <1>1 DEF MinCUInv, TaskTyped
<1>5. TaskTyped'
  BY <1>1, <1>3, Watched DEF MinCUInv, TaskTyped
<1>6. h.i = 1 /\ h.best = 0 /\ h.min = INFTICKS /\ \A t \in Slots : prlock[t] # c
  BY <1>1, <1>2, <1>3, TaskFacts DEF ScanInv
<1>7. ASSUME NEW d \in Cpus PROVE ScanInv(d)' /\ LeastInv(d)'
  <2>1. CASE d = c
    <3>1. ScanInv(c)'
      BY <1>1, <1>3, <1>4, <1>6 DEF ScanInv
    <3>2. LeastInv(c)'
      BY <1>1, <1>4, <1>6, LeastFresh
    <3> QED BY <2>1, <3>1, <3>2
  <2>2. CASE d # c
    <3>1. cpu'[d] = cpu[d] /\ scanlock' # d /\ scanlock # d /\ d \in Cpus \ {c}
      BY <1>1, <1>4, <1>7, <2>2, TaskFacts
    <3>2. ScanInv(d)'
      BY <1>1, <3>1, ScanFrame
    <3>3. LeastInv(d)'
      BY <1>1, <3>1, LeastFrame
    <3> QED BY <3>2, <3>3
  <2> QED BY <2>1, <2>2
<1>8. (\A d \in Cpus : RunInv(d)') /\ (\A s \in Slots : UsageInv(s)')
  <2>1. \A d \in Cpus : /\ cpu'[d].proc = cpu[d].proc /\ cpu'[d].start = cpu[d].start
                        /\ cpu'[d].at = "run" <=> cpu[d].at = "run"
    BY <1>1, <1>3, <1>4
  <2> QED BY <1>1, <2>1, ScanOnly
<1> QED BY <1>5, <1>7, <1>8 DEF MinCUInv

(* Processes change that are not RUNNABLE, and not by running; the quota   *)
(* may change of any.                                                      *)
LEMMA TaskChanges ==
  ASSUME MinCUInv, UNCHANGED <<prlock, scanlock, cpu, now>>, Watch({}),
         pr' \in [Slots -> Tasks],
         \A s \in Slots :
           /\ pr[s].state \in {"RUNNABLE", "RUNNING"} =>
                pr'[s].state = pr[s].state /\ pr'[s].sum = pr[s].sum
           /\ pr'[s].state = "RUNNING" => pr[s].state = "RUNNING"
           /\ pr'[s].sum \in {0, pr[s].sum}
  PROVE  MinCUInv'
<1>1. now' \in Nat /\ now' >= now
  BY TaskFacts DEF MinCUInv, TaskTyped
<1>2. TaskTyped'
  BY Watched DEF MinCUInv, TaskTyped
<1>3. ASSUME NEW d \in Cpus PROVE ScanInv(d)' /\ LeastInv(d)' /\ RunInv(d)'
  <2>1. /\ cpu[d].best \in Slots \cup {0} /\ (cpu[d].best # 0 => pr[cpu[d].best].state = "RUNNABLE")
        /\ cpu[d].proc \in Slots \cup {0} /\ (cpu[d].proc # 0 => pr[cpu[d].proc].state = "RUNNING")
    BY <1>3, OfCpu DEF ScanInv, RunInv, Running
  <2>2. ScanInv(d)'
    BY <1>3, <2>1, ScanFrame
  <2>3. LeastInv(d)'
    BY <1>3, LeastFrame
  <2>4. RunInv(d)'
    BY <1>1, <1>3, <2>1, RunFrame
  <2> QED BY <2>2, <2>3, <2>4
<1>4. ASSUME NEW s \in Slots PROVE UsageInv(s)'
  BY <1>1, <1>4, UsageFrame
<1> QED BY <1>2, <1>3, <1>4 DEF MinCUInv

(* wakeup(), fork(), wait() and set_cpu_quota() of a process.              *)
LEMMA CallsKeep ==
  ASSUME MinCUInv, NEW p \in Slots,
         \/ wakeTask(p)
         \/ \E q \in Quotas : quotaSet(p, q)
         \/ \E s \in Slots : reapTask(p, s) \/ \E dl \in Deadlines : forkTask(p, s, dl)
  PROVE  MinCUInv'
<1>1. pr \in [Slots -> Tasks] /\ Quotas \subseteq Nat /\ Deadlines \subseteq Nat
  BY MinCUAssumption DEF MinCUInv, TaskTyped
<1>2. \A s \in Slots : pr[s] \in Tasks
  BY <1>1
<1>3. CASE wakeTask(p)
  <2>1. pr' = [pr EXCEPT ![p] = [pr[p] EXCEPT !.state = "RUNNABLE"]] /\ pr[p].state = "SLEEPING"
    BY <1>3 DEF wakeTask
  <2>2. [pr[p] EXCEPT !.state = "RUNNABLE"] \in Tasks
    BY <1>2 DEF Tasks, TaskStates
  <2> QED BY <1>1, <1>2, <1>3, <2>1, <2>2, TaskChanges DEF wakeTask, Tasks
<1>4. ASSUME NEW q \in Quotas, quotaSet(p, q) PROVE MinCUInv'
  <2> DEFINE t == call[p].i
  <2>1. pr' = [pr EXCEPT ![t] = [pr[t] EXCEPT !.quota = q]]
    BY Zenon, <1>4 DEF quotaSet
  <2>2. ASSUME NEW s \in Slots PROVE pr'[s] \in {pr[s], [pr[s] EXCEPT !.quota = q]}
    BY <1>1, <2>1
  <2>3. ASSUME NEW s \in Slots
        PROVE  pr'[s] \in Tasks /\ pr'[s].state = pr[s].state /\ pr'[s].sum = pr[s].sum
    BY <1>1, <1>2, <2>2 DEF Tasks
  <2>4. pr' \in [Slots -> Tasks]
    BY Zenon, <1>1, <2>1, <2>3
  <2> QED BY Zenon, <1>4, <2>3, <2>4, TaskChanges DEF quotaSet
<1>5. ASSUME NEW s \in Slots, reapTask(p, s) PROVE MinCUInv'
  <2>1. pr' = [pr EXCEPT ![s] = FreeTask] /\ pr[s].state = "ZOMBIE"
    BY <1>5 DEF reapTask
  <2>2. FreeTask \in Tasks /\ FreeTask.sum = 0 /\ FreeTask.state = "UNUSED"
    BY NewTasks, TaskFacts
  <2> QED BY <1>1, <1>5, <2>1, <2>2, TaskChanges DEF reapTask
<1>6. ASSUME NEW s \in Slots, NEW dl \in Deadlines, forkTask(p, s, dl) PROVE MinCUInv'
  <2>1. pr' = [pr EXCEPT ![s] = NewTask(dl, p)] /\ pr[s].state = "UNUSED"
    BY <1>6 DEF forkTask
  <2>2. /\ NewTask(dl, p) \in Tasks /\ NewTask(dl, p).sum = 0
        /\ NewTask(dl, p).state = "RUNNABLE"
    BY <1>1, NewTasks, TaskFacts
  <2> QED BY <1>1, <1>6, <2>1, <2>2, TaskChanges DEF forkTask
<1> QED BY <1>3, <1>4, <1>5, <1>6

-----------------------------------------------------------------------------
(* One turn of the loop: only this CPU has candidates.                     *)
LEMMA OneScans ==
  ASSUME MinCUInv, NEW c \in Cpus, cpu[c].at = "scan"
  PROVE  /\ scanlock = c
         /\ \A d \in Cpus \ {c} : cpu[d].at # "scan" /\ cpu[d].best = 0
         /\ \A d \in Cpus \ {c} : \A s \in Slots : prlock[s] # d
BY TaskFacts DEF MinCUInv, ScanInv

(* This CPU visits slot s; its candidate is s from now on.                 *)
LEMMA ChooseKeeps ==
  ASSUME MinCUInv, NEW c \in Cpus, NEW h \in Harts, NEW s \in Slots,
         cpu[c].at = "scan", s = cpu[c].i, pr[s].state = "RUNNABLE",
         Choose(c, s), cpu' = [cpu EXCEPT ![c] = h],
         h.at = "scan", h.i = s + 1, h.best = s, h.min = pr[s].sum,
         h.proc = cpu[c].proc, h.start = cpu[c].start,
         cpu[c].best # 0 => pr[s].sum <= cpu[c].min,
         UNCHANGED <<pr, scanlock, now>>, Watch({})
  PROVE  MinCUInv'
<1>1. /\ scanlock = c /\ NoCpu # c /\ ScanInv(c) /\ LeastInv(c)
      /\ \A d \in Cpus \ {c} : \A t \in Slots : prlock[t] # d
  BY OneScans, OfCpu, TaskFacts
<1>2. \A t \in Slots :
        prlock'[t] = IF t = s THEN c ELSE IF t \in {cpu[c].best} \ {0} THEN NoCpu ELSE prlock[t]
  BY Zenon DEF Choose, Dropped
<1>3. TaskTyped'
  <2>1. prlock' \in [Slots -> Cpus \cup {NoCpu}]
    BY Zenon DEF Choose, MinCUInv, TaskTyped
  <2>2. cpu' \in [Cpus -> Harts]
    BY DEF MinCUInv, TaskTyped
  <2> QED BY <2>1, <2>2, Watched DEF MinCUInv, TaskTyped
<1>4. \A d \in Cpus : cpu'[d] = IF d = c THEN h ELSE cpu[d]
  BY Zenon DEF MinCUInv, TaskTyped
<1>5. ASSUME NEW d \in Cpus PROVE ScanInv(d)' /\ LeastInv(d)'
  <2>1. CASE d = c
    <3>1. ScanInv(c)'
      <4>1. \A t \in Slots : prlock'[t] = c => t = s
        <5> SUFFICES ASSUME NEW t \in Slots, t # s, prlock'[t] = c PROVE FALSE
          OBVIOUS
        <5>1. prlock[t] = c /\ t \notin {cpu[c].best} \ {0}
          BY <1>1, <1>2
        <5> QED BY <1>1, <5>1, TaskFacts DEF ScanInv
      <4>2. prlock'[s] = c
        BY <1>2
      <4>3. s < s + 1 /\ s # 0
        BY DEF Slots
      <4>4. cpu'[c] = h /\ scanlock' = c /\ pr'[s] = pr[s]
        BY <1>1, <1>4
      <4> QED BY <4>1, <4>2, <4>3, <4>4 DEF ScanInv
    <3>2. LeastInv(c)'
      <4>0. TaskTyped /\ c \notin {}
        BY DEF MinCUInv
      <4>1. /\ ready'[c] \subseteq ready[c] /\ ready[c] \subseteq Slots /\ cpu[c].min \in Nat
            /\ \A t \in ready'[c] : pr'[t].state = "RUNNABLE" /\ ~OverQuota(t)'
        BY <4>0, Watched, OfCpu
      <4>2. ASSUME NEW t \in ready'[c], t < s + 1 PROVE pr[s].sum <= pr[t].sum
        <5>1. t \in Slots /\ t \in ready[c]
          BY <4>1, <4>2
        <5>2. pr[t].sum \in Nat /\ pr[s].sum \in Nat
          BY <5>1, OfTask
        <5>3. CASE t = s
          BY <5>2, <5>3
        <5>4. CASE t < s
          <6>1. cpu[c].best # 0 /\ cpu[c].min <= pr[t].sum
            BY Zenon, <1>1, <5>1, <5>4 DEF LeastInv
          <6>2. pr[s].sum <= cpu[c].min /\ cpu[c].min \in Nat
            BY <4>1, <6>1
          <6> QED BY <5>2, <6>1, <6>2
        <5>5. t \in Nat /\ s \in Nat
          BY <5>1 DEF Slots
        <5>6. t = s \/ t < s
          BY <4>2, <5>5
        <5> QED BY <5>3, <5>4, <5>6
      <4>3. s # 0
        BY TaskFacts
      <4> QED BY <1>4, <4>1, <4>2, <4>3 DEF LeastInv
    <3> QED BY <2>1, <3>1, <3>2
  <2>2. CASE d # c
    <3>1. cpu'[d] = cpu[d] /\ scanlock # d /\ scanlock' # d /\ d \in Cpus \ {c}
      BY <1>1, <1>4, <1>5, <2>2
    <3>2. ASSUME NEW t \in Slots PROVE prlock'[t] # d /\ prlock[t] # d
      <4>1. prlock[t] # d /\ NoCpu # d
        BY Zenon, <1>1, <3>1, <3>2, TaskFacts
      <4>2. prlock'[t] \in {c, NoCpu, prlock[t]}
        BY <1>2, <3>2
      <4> QED BY <2>2, <4>1, <4>2
    <3>3. ScanInv(d)'
      BY <3>1, <3>2, ScanFrame
    <3>4. LeastInv(d)'
      <4>1. d \in Cpus \ {} /\ \A t \in Slots : pr'[t].sum = pr[t].sum
        BY <3>1
      <4> QED BY <3>1, <4>1, LeastFrame
    <3> QED BY <3>3, <3>4
  <2> QED BY <2>1, <2>2
<1>6. (\A d \in Cpus : RunInv(d)') /\ (\A t \in Slots : UsageInv(t)')
  BY <1>4, ScanOnly
<1> QED BY <1>3, <1>5, <1>6 DEF MinCUInv

(* The candidate stays: the slot is not RUNNABLE, over its quota, or has   *)
(* used no less.                                                           *)
LEMMA PassKeeps ==
  ASSUME MinCUInv, NEW c \in Cpus, NEW s \in Slots, cpu[c].at = "scan", s = cpu[c].i,
         cpu' = [cpu EXCEPT ![c] = [cpu[c] EXCEPT !.i = s + 1]],
         pr[s].state = "RUNNABLE" /\ ~OverQuota(s) => pr[s].sum >= cpu[c].min,
         UNCHANGED <<pr, prlock, scanlock, now>>, Watch({})
  PROVE  MinCUInv'
<1> DEFINE h == [cpu[c] EXCEPT !.i = s + 1]
<1>1. /\ cpu[c] \in Harts /\ ScanInv(c) /\ LeastInv(c) /\ cpu[c].best \in Slots \cup {0}
      /\ ready[c] \subseteq Slots /\ now \in Nat /\ now <= MAXTICK /\ cpu[c].min \in Nat
  BY OfCpu
<1>2. /\ h \in Harts /\ h.at = cpu[c].at /\ h.i = s + 1 /\ h.best = cpu[c].best
      /\ h.min = cpu[c].min /\ h.proc = cpu[c].proc /\ h.start = cpu[c].start
  BY <1>1, TaskFacts DEF Harts
<1>3. cpu' = [cpu EXCEPT ![c] = h]
  OBVIOUS
<1> HIDE DEF h
<1>4. \A d \in Cpus : cpu'[d] = IF d = c THEN h ELSE cpu[d]
  BY <1>3 DEF MinCUInv, TaskTyped
<1>5. TaskTyped'
  BY <1>2, <1>3, Watched DEF MinCUInv, TaskTyped
<1>6. ASSUME NEW d \in Cpus PROVE ScanInv(d)' /\ LeastInv(d)'
  <2>1. CASE d = c
    <3>1. ScanInv(c)'
      <4>1. cpu[c].best # 0 => cpu[c].best < s + 1
        BY <1>1, TaskFacts DEF ScanInv
      <4> QED BY <1>1, <1>2, <1>4, <4>1 DEF ScanInv
    <3>2. LeastInv(c)'
      <4>1. /\ ready'[c] \subseteq ready[c]
            /\ \A t \in ready'[c] : pr'[t].state = "RUNNABLE" /\ ~OverQuota(t)'
        BY Watched DEF MinCUInv
      <4>2. ASSUME NEW t \in ready'[c], t < s + 1 PROVE cpu[c].best # 0 /\ cpu[c].min <= pr[t].sum
        <5>1. t \in Slots /\ (t = s \/ t < s)
          BY <1>1, <4>1, <4>2, TaskFacts
        <5>2. CASE t = s
          <6>1. pr[s].sum \in Nat /\ pr[s].sum <= now /\ pr[s].state = "RUNNABLE" /\ ~OverQuota(s)
            BY <1>1, <4>1, <5>2, OfTask DEF LeastInv
          <6>2. pr[s].sum >= cpu[c].min
            BY <6>1
          <6>3. cpu[c].min # INFTICKS /\ cpu[c].min <= pr[s].sum
            BY <1>1, <6>1, <6>2, TaskFacts
          <6> QED BY <1>1, <5>2, <6>3 DEF ScanInv
        <5>3. CASE t < s
          BY <1>1, <4>1, <5>3 DEF LeastInv
        <5> QED BY <5>1, <5>2, <5>3
      <4> QED BY <1>2, <1>4, <4>1, <4>2 DEF LeastInv
    <3> QED BY <2>1, <3>1, <3>2
  <2>2. CASE d # c
    <3>1. cpu'[d] = cpu[d] /\ d \in Cpus \ {}
      BY <1>4, <1>6, <2>2
    <3>2. ScanInv(d)'
      BY <3>1, ScanFrame
    <3>3. LeastInv(d)'
      BY <3>1, LeastFrame
    <3> QED BY <3>2, <3>3
  <2> QED BY <2>1, <2>2
<1>7. (\A d \in Cpus : RunInv(d)') /\ (\A t \in Slots : UsageInv(t)')
  BY <1>2, <1>4, ScanOnly
<1> QED BY <1>5, <1>6, <1>7 DEF MinCUInv

(* Either way a slot is visited.                                           *)
LEMMA ScanSlotKeeps ==
  ASSUME MinCUInv, NEW c \in Cpus, scanSlot(c)
  PROVE  MinCUInv'
<1> DEFINE s == cpu[c].i
           less == pr[s].state = "RUNNABLE" /\ pr[s].sum < cpu[c].min
           tie == pr[s].state = "RUNNABLE" /\ pr[s].sum = cpu[c].min
           sooner == cpu[c].best # 0 /\ pr[s].deadline < pr[cpu[c].best].deadline
           go == [cpu[c] EXCEPT !.i = s + 1]
<1>1. /\ cpu[c].at = "scan" /\ s <= NTASK
      /\ UNCHANGED <<pr, scanlock, now>> /\ Watch({})
  BY Zenon DEF scanSlot
<1>2. s \in Slots /\ cpu[c] \in Harts /\ pr[s] \in Tasks
  <2>1. cpu[c] \in Harts /\ s \in 1 .. NTASK + 1
    BY DEF MinCUInv, TaskTyped, Harts
  <2> QED BY <1>1, <2>1, TaskFacts DEF MinCUInv, TaskTyped
<1>3. pr[s].sum \in Nat /\ cpu[c].min \in Nat
  BY Zenon, <1>2 DEF Tasks, Harts
<1>4. CASE /\ less /\ Choose(c, s)
           /\ cpu' = [cpu EXCEPT ![c] = [go EXCEPT !.min = NewMin(c, s), !.best = s,
                                                   !.quota = @ \/ ~OverQuota(s)]]
  <2> DEFINE h == [go EXCEPT !.min = NewMin(c, s), !.best = s, !.quota = @ \/ ~OverQuota(s)]
  <2>1. /\ h \in Harts /\ h.at = cpu[c].at /\ h.i = s + 1 /\ h.best = s /\ h.min = pr[s].sum
        /\ h.proc = cpu[c].proc /\ h.start = cpu[c].start
    BY Zenon, <1>2, <1>3, TaskFacts DEF Harts, NewMin
  <2>2. cpu' = [cpu EXCEPT ![c] = h] /\ pr[s].state = "RUNNABLE" /\ pr[s].sum <= cpu[c].min
    BY <1>3, <1>4
  <2>3. Choose(c, s)
    BY Zenon, <1>4
  <2> HIDE DEF h, go
  <2> QED BY Zenon, <1>1, <1>2, <2>1, <2>2, <2>3, ChooseKeeps
<1>5. CASE tie /\ sooner /\ Choose(c, s) /\ cpu' = [cpu EXCEPT ![c] = [go EXCEPT !.best = s]]
  <2> DEFINE h == [go EXCEPT !.best = s]
  <2>1. /\ h \in Harts /\ h.at = cpu[c].at /\ h.i = s + 1 /\ h.best = s /\ h.min = cpu[c].min
        /\ h.proc = cpu[c].proc /\ h.start = cpu[c].start
    BY Zenon, <1>2, TaskFacts DEF Harts
  <2>2. cpu' = [cpu EXCEPT ![c] = h] /\ pr[s].state = "RUNNABLE" /\ pr[s].sum = cpu[c].min
    BY Zenon, <1>5
  <2>3. Choose(c, s) /\ pr[s].sum <= cpu[c].min
    BY <1>3, <1>5
  <2> HIDE DEF h, go
  <2> QED BY Zenon, <1>1, <1>2, <2>1, <2>2, <2>3, ChooseKeeps
<1>6. CASE (less => Skipped(c, s)) /\ cpu' = [cpu EXCEPT ![c] = go] /\ UNCHANGED prlock
  <2>1. pr[s].state = "RUNNABLE" /\ ~OverQuota(s) => pr[s].sum >= cpu[c].min
    BY <1>3, <1>6 DEF Skipped
  <2> QED BY Zenon, <1>1, <1>2, <1>6, <2>1, PassKeeps
<1> QED BY Zenon, <1>4, <1>5, <1>6 DEF scanSlot

(* A scan that found nothing ends.                                         *)
LEMMA ScanNothingKeeps ==
  ASSUME MinCUInv, NEW c \in Cpus, scanNothing(c)
  PROVE  MinCUInv'
<1> DEFINE h == [cpu[c] EXCEPT !.at = "idle", !.quota = FALSE, !.i = 1]
<1>1. /\ cpu[c].at = "scan" /\ cpu[c].best = 0 /\ scanlock' = NoCpu
      /\ cpu' = [cpu EXCEPT ![c] = h]
      /\ pr' = pr /\ prlock' = prlock /\ now' = now /\ Watch({})
  BY DEF scanNothing
<1>2. /\ cpu[c] \in Harts /\ ScanInv(c) /\ scanlock = c /\ c # NoCpu
  BY <1>1, OfCpu, OneScans, TaskFacts
<1>3. /\ h \in Harts /\ h.at = "idle" /\ h.i = 1 /\ h.best = cpu[c].best
      /\ h.min = cpu[c].min /\ h.proc = cpu[c].proc /\ h.start = cpu[c].start
  BY Zenon, <1>2, TaskFacts DEF Harts
<1> HIDE DEF h
<1>4. \A d \in Cpus : cpu'[d] = IF d = c THEN h ELSE cpu[d]
  BY <1>1 DEF MinCUInv, TaskTyped
<1>5. TaskTyped'
  BY <1>1, <1>3, Watched DEF MinCUInv, TaskTyped
<1>6. ASSUME NEW d \in Cpus PROVE ScanInv(d)' /\ LeastInv(d)'
  <2>1. CASE d = c
    <3>1. ScanInv(c)'
      BY <1>1, <1>2, <1>3, <1>4 DEF ScanInv
    <3>2. LeastInv(c)'
      BY <1>1, <1>3, <1>4, LeastFresh
    <3> QED BY <2>1, <3>1, <3>2
  <2>2. CASE d # c
    <3>1. cpu'[d] = cpu[d] /\ scanlock' # d /\ scanlock # d
      BY <1>1, <1>2, <1>4, <1>6, <2>2, TaskFacts
    <3>2. ScanInv(d)'
      BY <1>1, <1>6, <3>1, ScanFrame
    <3>3. LeastInv(d)'
      <4>1. Watch({}) /\ d \in Cpus \ {} /\ \A t \in Slots : pr'[t] = pr[t]
        BY <1>1, <1>6
      <4> HIDE DEF MinCUInv
      <4> QED BY <3>1, <4>1, LeastFrame
    <3> QED BY <3>2, <3>3
  <2> QED BY <2>1, <2>2
<1>7. (\A d \in Cpus : RunInv(d)') /\ (\A s \in Slots : UsageInv(s)')
  <2>1. \A d \in Cpus : /\ cpu'[d].proc = cpu[d].proc /\ cpu'[d].start = cpu[d].start
                        /\ cpu'[d].at = "run" <=> cpu[d].at = "run"
    BY <1>1, <1>3, <1>4
  <2> QED BY <1>1, <2>1, ScanOnly
<1> QED BY <1>5, <1>6, <1>7 DEF MinCUInv

(* swtch() to the candidate, which no other CPU can have touched.          *)
LEMMA DispatchKeeps ==
  ASSUME MinCUInv, NEW c \in Cpus, dispatch(c)
  PROVE  MinCUInv'
<1> DEFINE s == cpu[c].best
           h == [cpu[c] EXCEPT !.at = "run", !.proc = s, !.best = 0, !.start = now,
                               !.i = 1, !.min = INFTICKS]
           r == [pr[s] EXCEPT !.state = "RUNNING"]
<1>1. /\ cpu[c].at = "scan" /\ s # 0 /\ scanlock' = NoCpu
      /\ pr' = [pr EXCEPT ![s] = r] /\ prlock' = [prlock EXCEPT ![s] = NoCpu]
      /\ cpu' = [cpu EXCEPT ![c] = h] /\ now' = now /\ Watch({})
  BY Zenon DEF dispatch
<1>2. /\ cpu[c] \in Harts /\ s \in Slots /\ now \in Nat /\ ScanInv(c) /\ RunInv(c) /\ c # NoCpu
  BY <1>1, OfCpu, TaskFacts
<1>3. /\ pr[s] \in Tasks /\ pr[s].state = "RUNNABLE" /\ pr[s].sum <= now /\ cpu[c].proc = 0
      /\ \A t \in Slots : prlock[t] = c => t = s
  BY <1>1, <1>2, OfTask DEF ScanInv, RunInv
<1>4. /\ h \in Harts /\ h.at = "run" /\ h.proc = s /\ h.best = 0 /\ h.start = now /\ h.i = 1
      /\ h.min = INFTICKS /\ r \in Tasks /\ r.state = "RUNNING" /\ r.sum = pr[s].sum
  BY Zenon, <1>2, <1>3, TaskFacts DEF Harts, Tasks, TaskStates
<1>5. /\ scanlock = c /\ \A d \in Cpus \ {c} : cpu[d].best = 0
      /\ \A d \in Cpus \ {c} : \A t \in Slots : prlock[t] # d
  BY Zenon, <1>1, OneScans
<1> HIDE DEF h, r, s
<1>6. /\ \A d \in Cpus : cpu'[d] = IF d = c THEN h ELSE cpu[d]
      /\ \A t \in Slots : pr'[t] = IF t = s THEN r ELSE pr[t]
      /\ \A t \in Slots : prlock'[t] = IF t = s THEN NoCpu ELSE prlock[t]
  BY Zenon, <1>1 DEF MinCUInv, TaskTyped
<1>7. \A d \in Cpus : cpu[d].proc # s
  <2>1. ASSUME NEW d \in Cpus, cpu[d].proc = s PROVE FALSE
    <3>1. RunInv(d) /\ s # 0
      BY <1>2, <2>1, OfCpu, TaskFacts
    <3> QED BY <1>3, <2>1, <3>1 DEF RunInv, Running
  <2> QED BY <2>1
<1>8. TaskTyped'
  BY Zenon, <1>1, <1>4, Watched DEF MinCUInv, TaskTyped
<1>9. ASSUME NEW d \in Cpus PROVE ScanInv(d)' /\ LeastInv(d)' /\ RunInv(d)'
  <2>1. CASE d = c
    <3>1. cpu'[c] = h /\ pr'[s] = r /\ \A t \in Slots : prlock'[t] # c
      BY <1>2, <1>3, <1>6
    <3>2. ScanInv(c)'
      BY <1>1, <1>2, <1>4, <3>1 DEF ScanInv
    <3>3. LeastInv(c)'
      BY <1>1, <1>4, <3>1, LeastFresh
    <3>4. RunInv(c)'
      <4>1. \A e \in Cpus : cpu'[e].proc = s => e = c
        BY <1>6, <1>7
      <4>2. now <= now
        BY <1>2
      <4> QED BY <1>1, <1>2, <1>3, <1>4, <3>1, <4>1, <4>2 DEF RunInv, Running
    <3> QED BY <2>1, <3>2, <3>3, <3>4
  <2>2. CASE d # c
    <3>1. /\ cpu'[d] = cpu[d] /\ scanlock' # d /\ scanlock # d /\ cpu[d].best = 0
          /\ cpu[d].proc \in Slots \cup {0} /\ cpu[d].proc # s
      BY <1>1, <1>5, <1>6, <1>7, <1>9, <2>2, OfCpu, TaskFacts
    <3>2. ASSUME NEW t \in Slots PROVE prlock'[t] # d /\ prlock[t] # d
      <4>1. prlock[t] # d /\ NoCpu # d
        BY Zenon, <1>5, <1>9, <2>2, <3>2, TaskFacts
      <4>2. prlock'[t] \in {NoCpu, prlock[t]}
        BY <1>6, <3>2
      <4> QED BY <4>1, <4>2
    <3>3. ScanInv(d)'
      BY <1>9, <3>1, <3>2, ScanFrame
    <3>4. \A t \in Slots : pr'[t].sum = pr[t].sum
      BY Zenon, <1>4, <1>6
    <3>5. LeastInv(d)'
      BY <1>1, <1>9, <3>1, <3>4, LeastFrame
    <3>6. /\ cpu[d].proc # 0 => pr'[cpu[d].proc] = pr[cpu[d].proc]
          /\ \A e \in Cpus : cpu'[e].proc = cpu[d].proc => cpu[e].proc = cpu[d].proc
          /\ now' \in Nat /\ now' >= now
      BY <1>1, <1>2, <1>4, <1>6, <3>1
    <3>7. RunInv(d)'
      BY <1>9, <3>1, <3>6, RunFrame
    <3> QED BY <3>3, <3>5, <3>7
  <2> QED BY <2>1, <2>2
<1>10. ASSUME NEW t \in Slots PROVE UsageInv(t)'
  <2>1. CASE t = s
    <3>1. pr'[s].sum <= now' /\ cpu'[c].proc = s
      BY <1>1, <1>2, <1>3, <1>4, <1>6
    <3> QED BY <2>1, <3>1 DEF UsageInv
  <2>2. CASE t # s
    <3>1. /\ pr'[t] = pr[t] /\ now' \in Nat /\ now' >= now
          /\ \A d \in Cpus : cpu[d].proc = t => cpu'[d].proc = t
      BY <1>1, <1>2, <1>3, <1>6, <1>10, <2>2, TaskFacts
    <3> QED BY <1>10, <3>1, UsageFrame
  <2> QED BY <2>1, <2>2
<1> QED BY <1>8, <1>9, <1>10 DEF MinCUInv

(* What was used before the start, and the time since the start.           *)
LEMMA Elapsed ==
  ASSUME NEW sum \in Nat, NEW start \in Nat, NEW end \in Nat, sum <= start, start <= end
  PROVE  sum + end - start \in Nat /\ sum + end - start <= end
OBVIOUS

(* The process comes back and its usage grows by the time it has run.      *)
LEMMA ComeBackKeeps ==
  ASSUME MinCUInv, NEW c \in Cpus, NEW st \in {"RUNNABLE", "SLEEPING", "ZOMBIE"},
         comeBack(c, st)
  PROVE  MinCUInv'
<1> DEFINE s == cpu[c].proc
           h == [cpu[c] EXCEPT !.at = "idle", !.proc = 0, !.start = 0]
           u == pr[s].sum + now - cpu[c].start
           r == [pr[s] EXCEPT !.state = st, !.sum = u]
           orphan(t) == [pr[t] EXCEPT !.parent = 1]
<1>1. /\ cpu[c].at = "run" /\ cpu' = [cpu EXCEPT ![c] = h]
      /\ pr' = [t \in Slots |-> IF t = s THEN r
                                ELSE IF st = "ZOMBIE" /\ pr[t].parent = s THEN orphan(t) ELSE pr[t]]
      /\ prlock' = prlock /\ scanlock' = scanlock /\ now' = now /\ Watch({})
  BY DEF comeBack
<1>2. /\ cpu[c] \in Harts /\ now \in Nat /\ cpu[c].start \in Nat /\ ScanInv(c) /\ RunInv(c)
      /\ \A t \in Slots : pr[t] \in Tasks
  BY OfCpu, OfTask
<1>3. /\ s \in Slots /\ pr[s].state = "RUNNING" /\ pr[s].sum <= cpu[c].start /\ cpu[c].start <= now
      /\ cpu[c].i = 1 /\ cpu[c].best = 0 /\ cpu[c].min = INFTICKS /\ scanlock # c
      /\ \A t \in Slots : prlock[t] # c
  BY <1>1, <1>2, TaskFacts DEF ScanInv, RunInv, Running
<1>4. /\ h \in Harts /\ h.at = "idle" /\ h.proc = 0 /\ h.best = 0 /\ h.i = 1 /\ h.min = INFTICKS
  BY <1>2, <1>3, TaskFacts DEF Harts
<1>5. r \in Tasks /\ r.state = st /\ r.sum <= now
  <2>1. pr[s].sum \in Nat /\ pr[s] \in Tasks
    BY <1>2, <1>3 DEF Tasks
  <2>2. u \in Nat /\ u <= now
    BY <1>2, <1>3, <2>1, Elapsed
  <2> HIDE DEF u
  <2>3. r \in Tasks /\ r.state = st /\ r.sum = u
    BY <2>1, <2>2 DEF Tasks, TaskStates
  <2> QED BY <2>2, <2>3
<1>6. \A t \in Slots : orphan(t) \in Tasks /\ orphan(t).state = pr[t].state /\ orphan(t).sum = pr[t].sum
  BY <1>2, TaskFacts DEF Tasks
<1> HIDE DEF h, r, orphan, s
<1>7. /\ \A d \in Cpus : cpu'[d] = IF d = c THEN h ELSE cpu[d]
      /\ \A t \in Slots \ {s} : pr'[t].state = pr[t].state /\ pr'[t].sum = pr[t].sum
      /\ pr'[s] = r /\ now' \in Nat /\ now' >= now
  BY <1>1, <1>2, <1>3, <1>6 DEF MinCUInv, TaskTyped
<1>8. TaskTyped'
  <2>1. pr' \in [Slots -> Tasks]
    BY <1>1, <1>2, <1>5, <1>6
  <2> QED BY <1>1, <1>4, <2>1, Watched DEF MinCUInv, TaskTyped
<1>9. ASSUME NEW d \in Cpus PROVE ScanInv(d)' /\ LeastInv(d)' /\ RunInv(d)'
  <2>1. CASE d = c
    <3>1. cpu'[c] = h
      BY <1>7
    <3>2. ScanInv(c)'
      BY <1>1, <1>3, <1>4, <3>1 DEF ScanInv
    <3>3. LeastInv(c)'
      BY <1>1, <1>4, <3>1, LeastFresh
    <3>4. RunInv(c)'
      BY <1>4, <3>1 DEF RunInv
    <3> QED BY <2>1, <3>2, <3>3, <3>4
  <2>2. CASE d # c
    <3>1. /\ cpu'[d] = cpu[d] /\ ScanInv(d) /\ RunInv(d)
          /\ cpu[d].best \in Slots \cup {0} /\ cpu[d].proc \in Slots \cup {0}
      BY <1>7, <1>9, <2>2, OfCpu
    <3>2. cpu[d].best # s /\ cpu[d].proc # s
      <4>1. cpu[d].best # s
        BY <1>3, <3>1, TaskFacts DEF ScanInv
      <4>2. cpu[d].proc # s
        BY <1>3, <2>2, <3>1, TaskFacts DEF RunInv, s
      <4> QED BY <4>1, <4>2
    <3>3. cpu[d].best # 0 => /\ pr'[cpu[d].best].state = pr[cpu[d].best].state
                             /\ pr'[cpu[d].best].sum = pr[cpu[d].best].sum
      BY <1>7, <3>1, <3>2
    <3>4. ScanInv(d)'
      BY <1>1, <1>9, <3>1, <3>3, ScanFrame
    <3>5. \A t \in Slots : pr[t].state = "RUNNABLE" => pr'[t].sum = pr[t].sum
      BY <1>3, <1>7
    <3>6. LeastInv(d)'
      <4>1. d \in Cpus \ {} /\ Watch({})
        BY <1>1, <1>9
      <4> QED BY <3>1, <3>5, <4>1, LeastFrame
    <3>7. /\ cpu[d].proc # 0 => /\ pr'[cpu[d].proc].state = pr[cpu[d].proc].state
                                /\ pr'[cpu[d].proc].sum = pr[cpu[d].proc].sum
          /\ \A e \in Cpus : cpu'[e].proc = cpu[d].proc /\ cpu[d].proc # 0 => cpu[e].proc = cpu[d].proc
      BY <1>4, <1>7, <3>1, <3>2
    <3>8. RunInv(d)'
      BY <1>7, <1>9, <3>1, <3>7, RunFrame
    <3> QED BY <3>4, <3>6, <3>8
  <2> QED BY <2>1, <2>2
<1>10. ASSUME NEW t \in Slots PROVE UsageInv(t)'
  <2>1. CASE t = s
    <3>1. pr'[s].sum <= now' /\ pr'[s].state # "RUNNING"
      BY <1>1, <1>5, <1>7
    <3> QED BY <2>1, <3>1 DEF UsageInv, Running
  <2>2. CASE t # s
    <3>1. /\ pr'[t].state = pr[t].state /\ pr'[t].sum = pr[t].sum
          /\ \A d \in Cpus : cpu[d].proc = t => cpu'[d].proc = t
      BY <1>7, <1>10, <2>2 DEF s
    <3> QED BY <1>7, <1>10, <3>1, UsageFrame
  <2> QED BY <2>1, <2>2
<1> QED BY <1>8, <1>9, <1>10 DEF MinCUInv

(* Every step of a CPU, of a process and of the clock.                     *)
LEMMA MinCUStep ==
  ASSUME MinCUInv, [MinCUNext]_minCUVars
  PROVE  MinCUInv'
<1>1. ASSUME NEW c \in Cpus,
             scanStart(c) \/ scanSlot(c) \/ scanNothing(c) \/ dispatch(c)
      PROVE  MinCUInv'
  BY <1>1, ScanStartKeeps, ScanSlotKeeps, ScanNothingKeeps, DispatchKeeps
<1>2. ASSUME NEW c \in Cpus, NEW st \in {"RUNNABLE", "SLEEPING", "ZOMBIE"}, comeBack(c, st)
      PROVE  MinCUInv'
  BY <1>2, ComeBackKeeps
<1>3. now \in 0 .. MAXTICK /\ now >= now
  BY DEF MinCUInv, TaskTyped
<1>4. CASE UNCHANGED <<pr, prlock, scanlock, cpu, now>> /\ Watch({})
  BY <1>3, <1>4, QuietKeeps
<1>5. ASSUME NEW p \in Slots,
             \/ enterCall(p, "top", 1) \/ enterCall(p, "children", 1)
             \/ topSlot(p) \/ childrenSlot(p) \/ listDone(p) \/ quotaRefused(p)
             \/ \E s \in Slots : enterCall(p, "quota", s)
      PROVE  MinCUInv'
  BY Zenon, <1>4, <1>5
     DEF enterCall, topSlot, childrenSlot, listDone, quotaRefused
<1>6. ASSUME NEW p \in Slots,
             \/ wakeTask(p)
             \/ \E q \in Quotas : quotaSet(p, q)
             \/ \E s \in Slots : reapTask(p, s) \/ \E dl \in Deadlines : forkTask(p, s, dl)
      PROVE  MinCUInv'
  BY <1>6, CallsKeep
<1>7. CASE tick
  <2>1. now' \in 0 .. MAXTICK /\ now' >= now
    BY <1>3, <1>7, TaskFacts DEF tick
  <2> QED BY <1>7, <2>1, QuietKeeps DEF tick
<1>8. CASE UNCHANGED minCUVars
  <2>1. ASSUME NEW c \in Cpus PROVE ScanInv(c)' /\ LeastInv(c)' /\ RunInv(c)'
    <3>1. ScanInv(c) /\ LeastInv(c) /\ RunInv(c)
      BY <2>1, OfCpu
    <3>2. ScanInv(c)'
      BY <1>8, <3>1 DEF minCUVars, ScanInv
    <3>3. LeastInv(c)'
      BY <1>8, <3>1 DEF minCUVars, LeastInv, OverQuota
    <3>4. RunInv(c)'
      BY <1>8, <3>1 DEF minCUVars, RunInv, Running
    <3> QED BY <3>2, <3>3, <3>4
  <2>2. ASSUME NEW s \in Slots PROVE UsageInv(s)'
    BY <1>8 DEF MinCUInv, minCUVars, UsageInv, Running
  <2> QED BY <1>8, <2>1, <2>2 DEF MinCUInv, minCUVars, TaskTyped
<1> QED BY <1>1, <1>2, <1>5, <1>6, <1>7, <1>8 DEF MinCUNext

(* The scheduler's locks, its candidates and the usage of the processes    *)
(* agree as MinCUInv says, for any number of CPUs and slots.               *)
THEOREM MinCUInvariance == MinCUSpec => []MinCUInv
  BY MinCUInitial, MinCUStep, PTL DEF MinCUSpec

(* min_cpu_usage_scheduler() keeps one p->lock, that of its candidate,     *)
(* which is still RUNNABLE when it switches to it; no process runs on two  *)
(* CPUs.                                                                   *)
THEOREM CandidateIsHeld == MinCUSpec => []ChoiceIsHeld
<1>1. MinCUInv => ChoiceIsHeld
  <2> SUFFICES ASSUME MinCUInv PROVE ChoiceIsHeld
    OBVIOUS
  <2>1. ASSUME NEW c \in Cpus
        PROVE  {s \in Slots : prlock[s] = c} = {cpu[c].best} \ {0}
    <3>1. ScanInv(c) /\ cpu[c].best \in Slots \cup {0}
      BY <2>1, TaskFacts DEF MinCUInv, TaskTyped, Harts, Slots
    <3> QED BY Zenon, <3>1, TaskFacts DEF ScanInv
  <2>2. \A c \in Cpus : cpu[c].best # 0 => pr[cpu[c].best].state = "RUNNABLE"
    BY Zenon DEF MinCUInv, ScanInv
  <2>3. ASSUME NEW s \in Slots
        PROVE  Running(s) <=> \E c \in Cpus : {d \in Cpus : cpu[d].proc = s} = {c}
    <3>1. ASSUME NEW c \in Cpus, cpu[c].proc = s
          PROVE  {d \in Cpus : cpu[d].proc = s} = {c} /\ Running(s)
      BY <3>1, TaskFacts DEF MinCUInv, RunInv
    <3>2. Running(s) => \E c \in Cpus : cpu[c].proc = s
      BY Zenon DEF MinCUInv, UsageInv
    <3> QED BY Zenon, <3>1, <3>2
  <2> QED BY <2>1, <2>2, <2>3 DEF ChoiceIsHeld
<1> QED BY <1>1, MinCUInvariance, PTL

(* The process a CPU switches to has used no more than any that has been   *)
(* RUNNABLE and within its quota since the scan began, although others     *)
(* wake, fork and set quotas during the scan.                              *)
THEOREM LeastUsedFirst == MinCUSpec => LeastUsedRuns
<1> DEFINE Fair == \A c \in Cpus : dispatch(c) => \A s \in ready[c] : pr[cpu[c].best].sum <= pr[s].sum
<1>1. MinCUInv => Fair
  <2> SUFFICES ASSUME MinCUInv, NEW c \in Cpus, dispatch(c), NEW s \in ready[c]
               PROVE  pr[cpu[c].best].sum <= pr[s].sum
    OBVIOUS
  <2>1. ScanInv(c) /\ LeastInv(c) /\ s \in Slots /\ cpu[c].i \in Nat
    BY DEF MinCUInv, TaskTyped, Harts
  <2>2. cpu[c].i > NTASK /\ cpu[c].best # 0
    BY DEF dispatch
  <2>3. s < cpu[c].i
    BY <2>1, <2>2, MinCUAssumption DEF Slots
  <2> QED BY Zenon, <2>1, <2>2, <2>3 DEF ScanInv, LeastInv
<1>2. MinCUInv => [Fair]_minCUVars
  BY Zenon, <1>1
<1> QED BY <1>2, MinCUInvariance, PTL DEF LeastUsedRuns

-----------------------------------------------------------------------------
(* sys_sleep() and the clock.                                              *)

Labels == {"user", "s_loop", "s_block", "s_wake", "cpu_usage", "deadfork"}

ClockTyped ==
  /\ ticks \in 0 .. UINT - 1 /\ ticks0 \in [Procs -> 0 .. UINT - 1]
  /\ n \in [Procs -> 0 .. MAXTICKS] /\ slept \in [Procs -> 0 .. MAXLAG]
  /\ pc \in [Procs -> Labels]

(* ticks - ticks0, in uint arithmetic, is the number of ticks since the    *)
(* process read ticks0.                                                    *)
SleepInv(p) == Sleeps(p) => slept[p] = (ticks - ticks0[p]) % UINT

ClockInv == ClockTyped /\ \A p \in Procs : SleepInv(p)

(* A difference of two uints, and ticks++.                                 *)
LEMMA Wrapped ==
  ASSUME NEW t \in 0 .. UINT - 1, NEW u \in 0 .. UINT - 1
  PROVE  /\ (t - u) % UINT = IF u <= t THEN t - u ELSE t - u + UINT
         /\ (t + 1) % UINT = IF t = UINT - 1 THEN 0 ELSE t + 1
BY ClockAssumption

(* One tick makes the difference one larger, also where ticks wraps, as    *)
(* long as a call of sleep() is over within UINT ticks.                    *)
LEMMA TickCounts ==
  ASSUME NEW t \in 0 .. UINT - 1, NEW u \in 0 .. UINT - 1, (t - u) % UINT < MAXLAG
  PROVE  /\ (t + 1) % UINT \in 0 .. UINT - 1
         /\ (((t + 1) % UINT) - u) % UINT = ((t - u) % UINT) + 1
<1>1. (t + 1) % UINT \in 0 .. UINT - 1
  BY Wrapped, ClockAssumption
<1> DEFINE w == (t + 1) % UINT
<1>2. w = IF t = UINT - 1 THEN 0 ELSE t + 1
  BY Wrapped
<1>3. (t - u) % UINT = IF u <= t THEN t - u ELSE t - u + UINT
  BY Wrapped
<1> HIDE DEF w
<1>4. (w - u) % UINT = IF u <= w THEN w - u ELSE w - u + UINT
  BY <1>1, Wrapped DEF w
<1>5. (w - u) % UINT = ((t - u) % UINT) + 1
  BY <1>2, <1>3, <1>4, ClockAssumption
<1> QED BY <1>1, <1>5 DEF w

(* Nobody sleeps at boot.                                                  *)
LEMMA ClockInitial == Init => ClockInv
BY ClockAssumption
   DEF Init, ClockInv, ClockTyped, Labels, SleepInv, Sleeps

(* A process that moves inside sys_sleep() or outside it keeps what it     *)
(* has read.                                                               *)
LEMMA GotoKeeps ==
  ASSUME ClockInv, NEW p \in Procs, NEW l \in Labels, Goto(p, l),
         UNCHANGED <<ticks, sleepVars>>, Sleeps(p) \/ l \notin {"s_loop", "s_block", "s_wake"}
  PROVE  ClockInv'
<1>1. ClockTyped'
  BY DEF ClockInv, ClockTyped, Goto, sleepVars
<1>2. ASSUME NEW q \in Procs PROVE SleepInv(q)'
  BY Zenon, <1>2 DEF ClockInv, ClockTyped, Goto, sleepVars, SleepInv, Sleeps
<1> QED BY <1>1, <1>2 DEF ClockInv

(* A step that leaves the clock and every sys_sleep() where they are.      *)
LEMMA ClockQuiet ==
  ASSUME ClockInv, UNCHANGED <<ticks, pc, sleepVars>>
  PROVE  ClockInv'
BY DEF ClockInv, ClockTyped, sleepVars, SleepInv, Sleeps

(* sys_sleep() reads ticks0 under tickslock.                               *)
LEMMA SleepEnterKeeps ==
  ASSUME ClockInv, NEW p \in Procs, NEW k \in 0 .. MAXTICKS, sys_sleep(p, k)
  PROVE  ClockInv'
<1>1. ClockTyped'
  BY ClockAssumption DEF ClockInv, ClockTyped, Labels, Goto, sys_sleep
<1>2. ASSUME NEW q \in Procs PROVE SleepInv(q)'
  <2>1. CASE q = p
    <3>1. ticks' = ticks /\ ticks0'[q] = ticks /\ slept'[q] = 0 /\ ticks \in 0 .. UINT - 1
      BY <2>1 DEF ClockInv, ClockTyped, sys_sleep
    <3>2. (ticks - ticks) % UINT = 0
      BY <3>1, Wrapped
    <3> QED BY <3>1, <3>2 DEF SleepInv
  <2>2. CASE q # p
    BY <1>2, <2>2
       DEF ClockInv, ClockTyped, Goto, sys_sleep, SleepInv, Sleeps
  <2> QED BY <2>1, <2>2
<1> QED BY <1>1, <1>2 DEF ClockInv

(* The loop of sys_sleep() goes on to sleep(), or returns.                 *)
LEMMA SleepLoopKeeps ==
  ASSUME ClockInv, NEW p \in Procs, sys_sleep_loop(p)
  PROVE  ClockInv'
<1>1. CASE TooEarly(p) /\ ~killed[p]
  BY <1>1, GotoKeeps DEF sys_sleep_loop, At, Sleeps, Labels
<1>2. CASE ~(TooEarly(p) /\ ~killed[p])
  <2>1. ClockTyped'
    BY <1>2, ClockAssumption
       DEF ClockInv, ClockTyped, Labels, Goto, sys_sleep_loop
  <2>2. ASSUME NEW q \in Procs PROVE SleepInv(q)'
    BY <1>2, <2>2
       DEF ClockInv, ClockTyped, Goto, sys_sleep_loop, SleepInv, Sleeps
  <2> QED BY <2>1, <2>2 DEF ClockInv
<1> QED BY <1>1, <1>2

(* clockintr() counts a tick for every process in sys_sleep().             *)
LEMMA ClockintrKeeps ==
  ASSUME ClockInv, NEW p \in Procs \cup {NoOne}, clockintr(p)
  PROVE  ClockInv'
<1>1. /\ ticks' = (ticks + 1) % UINT /\ pc' = pc /\ ticks0' = ticks0 /\ n' = n
      /\ \A q \in Procs : slept[q] < MAXLAG
      /\ slept' = [q \in Procs |-> IF Sleeps(q) THEN slept[q] + 1 ELSE 0]
  BY DEF clockintr, Tick
<1>2. \A q \in Procs : slept[q] \in 0 .. MAXLAG
  BY DEF ClockInv, ClockTyped
<1>3. ticks' \in 0 .. UINT - 1
  <2>1. ticks \in 0 .. UINT - 1 /\ UINT \in Nat
    BY ClockAssumption DEF ClockInv, ClockTyped
  <2>2. ticks' = IF ticks = UINT - 1 THEN 0 ELSE ticks + 1
    BY <1>1, <2>1, Wrapped
  <2> QED BY <2>1, <2>2
<1>4. slept' \in [Procs -> 0 .. MAXLAG]
  BY <1>1, <1>2, ClockAssumption
<1>5. ASSUME NEW q \in Procs PROVE SleepInv(q)'
  <2> SUFFICES ASSUME Sleeps(q) PROVE slept'[q] = (ticks' - ticks0'[q]) % UINT
    BY <1>1 DEF SleepInv, Sleeps
  <2>1. slept[q] = (ticks - ticks0[q]) % UINT /\ slept'[q] = slept[q] + 1
    BY <1>1, <1>5 DEF ClockInv, SleepInv
  <2>2. ticks \in 0 .. UINT - 1 /\ ticks0[q] \in 0 .. UINT - 1
    BY <1>5 DEF ClockInv, ClockTyped
  <2>3. (((ticks + 1) % UINT) - ticks0[q]) % UINT = ((ticks - ticks0[q]) % UINT) + 1
    BY <1>1, <1>5, <2>1, <2>2, TickCounts
  <2> QED BY <1>1, <2>1, <2>3
<1> QED BY <1>1, <1>3, <1>4, <1>5 DEF ClockInv, ClockTyped

(* Every step of a process and of the interrupt handler.                   *)
LEMMA ClockStep ==
  ASSUME ClockInv, [Next]_vars
  PROVE  ClockInv'
<1>1. ASSUME NEW p \in Procs, Call(p) PROVE ClockInv'
  <2>1. CASE sys_sleep_loop(p)
    BY <2>1, SleepLoopKeeps
  <2>2. CASE sys_sleep_block(p) \/ sys_sleep_wake(p)
    BY <2>2, GotoKeeps
       DEF sys_sleep_block, sys_sleep_wake, At, Sleeps, Labels
  <2>3. CASE cpu_usage_read(p) \/ deadfork_set(p)
    BY <2>3, GotoKeeps DEF cpu_usage_read, deadfork_set, Labels
  <2> QED BY <1>1, <2>1, <2>2, <2>3 DEF Call
<1>2. ASSUME NEW p \in Procs, cpu_usage(p) \/ exit(p) \/ reap(p) \/ schedule(p) PROVE ClockInv'
  BY Zenon, <1>2, GotoKeeps, ClockQuiet
     DEF cpu_usage, exit, reap, schedule, Labels
<1>3. ASSUME NEW p \in Procs, NEW k \in 0 .. MAXTICKS,
             sys_sleep(p, k) \/ \E np \in Procs : deadfork(p, np, k)
      PROVE  ClockInv'
  BY <1>3, SleepEnterKeeps, GotoKeeps DEF deadfork, Labels
<1>4. ASSUME NEW p \in Procs \cup {NoOne}, clockintr(p) PROVE ClockInv'
  BY <1>4, ClockintrKeeps
<1>5. CASE Handler \/ UNCHANGED vars
  BY <1>5, ClockQuiet
     DEF Handler, clock_wakeup, clock_drop, vars, sleepVars
<1> QED BY <1>1, <1>2, <1>3, <1>4, <1>5 DEF Next

(* A process that goes from the loop to user space does so itself.         *)
LEMMA Returns ==
  ASSUME ClockInv, NEW p \in Procs, pc[p] = "s_loop", pc'[p] = "user",
         NEW q \in Procs, NEW l \in Labels, Goto(q, l)
  PROVE  q = p /\ l = "user"
BY DEF Goto, ClockInv, ClockTyped

(* sys_sleep(n) of a process that is not killed returns only after n       *)
(* ticks, for every number of processes and every width of ticks.          *)
THEOREM SleepsEnough == Spec => SleepsLongEnough
<1> DEFINE Late == \A p \in Procs :
             pc[p] = "s_loop" /\ pc'[p] = "user" /\ ~killed[p] => slept[p] >= n[p]
<1>1. ClockInv /\ [Next]_vars => [Late]_vars
  <2> SUFFICES ASSUME ClockInv, Next, NEW p \in Procs,
                      pc[p] = "s_loop", pc'[p] = "user", ~killed[p]
               PROVE  slept[p] >= n[p]
    OBVIOUS
  <2>1. ASSUME NEW q \in Procs, sys_sleep_loop(q) PROVE sys_sleep_loop(p)
    <3>1. \E l \in Labels : Goto(q, l)
      BY Zenon, <2>1 DEF sys_sleep_loop, Labels
    <3> QED BY <2>1, <3>1, Returns
  <2>2. ASSUME NEW q \in Procs PROVE ~sys_sleep_block(q) /\ ~sys_sleep_wake(q)
    BY Zenon, <2>2, Returns DEF sys_sleep_block, sys_sleep_wake, Labels
  <2>3. ASSUME NEW q \in Procs PROVE ~cpu_usage_read(q) /\ ~deadfork_set(q)
    BY Zenon, <2>3, Returns DEF cpu_usage_read, deadfork_set, At, Labels
  <2>4. ASSUME NEW q \in Procs PROVE ~cpu_usage(q)
    BY Zenon, <2>4, Returns DEF cpu_usage, Labels
  <2>5. ASSUME NEW q \in Procs PROVE ~exit(q) /\ ~reap(q) /\ ~schedule(q)
    BY DEF exit, reap, schedule
  <2>6. ASSUME NEW q \in Procs, NEW k \in 0 .. MAXTICKS
        PROVE  ~sys_sleep(q, k) /\ \A np \in Procs : ~deadfork(q, np, k)
    BY Zenon, <2>6, Returns DEF sys_sleep, deadfork, Labels
  <2>7. ~Handler /\ \A q \in Procs \cup {NoOne} : ~clockintr(q)
    BY DEF Handler, clock_wakeup, clock_drop, clockintr
  <2>8. sys_sleep_loop(p)
    BY <2>1, <2>2, <2>3, <2>4, <2>5, <2>6, <2>7 DEF Next, Call
  <2>9. ~Goto(p, "s_block")
    BY Zenon, Returns DEF Labels
  <2>10. ~TooEarly(p)
    BY <2>8, <2>9 DEF sys_sleep_loop
  <2>11. slept[p] = (ticks - ticks0[p]) % UINT
    BY DEF ClockInv, SleepInv, Sleeps
  <2>12. ~(slept[p] < n[p])
    BY <2>10, <2>11 DEF TooEarly
  <2>13. slept[p] \in Int /\ n[p] \in Int
    BY ClockAssumption DEF ClockInv, ClockTyped
  <2> QED BY <2>12, <2>13
<1>2. Spec => []ClockInv
  BY ClockInitial, ClockStep, PTL DEF Spec
<1> QED BY <1>1, <1>2, PTL DEF Spec, SleepsLongEnough
=============================================================================
