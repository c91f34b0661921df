------------------------------- MODULE MinCU --------------------------------
(***************************************************************************)
(* The scheduler that runs the process with the least cpu usage, and the   *)
(* calls on usage and descent: set_cpu_quota, top and child_processes      *)
(* (kernel/proc.c).  The scan of a CPU keeps the p->lock of its best       *)
(* candidate and visits the others; processes on other CPUs yield, sleep,  *)
(* exit and wake each other meanwhile.  Processes here have one thread.    *)
(***************************************************************************)
EXTENDS Integers, Sequences

CONSTANTS Cpus,
          NTASK,      \* slots of proc[]
          Quotas,     \* quotas that are asked for
          Deadlines,  \* deadlines of processes; the largest is "none"
          INFTICKS,   \* INF: more than any sum of ticks
          NoCpu,
          MAXTICK,    \* bound on ticks
          MAXDUTY     \* bound on calls and on changes of a process's state

ASSUME MinCUAssumption ==
  /\ NTASK \in Nat /\ NTASK >= 2
  /\ NoCpu \notin Cpus
  /\ Quotas \subseteq Nat /\ Deadlines \subseteq Nat
  /\ \E d \in Deadlines : \A e \in Deadlines : e <= d
  /\ INFTICKS \in Nat /\ MAXTICK \in Nat /\ MAXTICK < INFTICKS
  /\ MAXDUTY \in Nat

Slots == 1 .. NTASK

VARIABLES
  pr,        \* state, sum_of_ticks, quota, deadline, parent of each slot
  prlock,    \* holder of each p->lock
  scanlock,  \* holder of proc_lock
  cpu,       \* per CPU: where it is, loop index, min_cu, min_cu_proc, quota_enable,
             \* the process it runs and that process's start_tick
  call,      \* per process: the call it is in, and its loop index or target
  list,      \* per process: what top() or child_processes() has put together
  now,       \* ticks
  ready,     \* per CPU: slots RUNNABLE and within their quota since its scan began
  duty

minCUVars == <<pr, prlock, scanlock, cpu, call, list, now, ready, duty>>

NewTask(dl, parent) ==
  [state |-> "RUNNABLE", sum |-> 0, quota |-> 0, deadline |-> dl, parent |-> parent]

FreeTask == [NewTask(0, 0) EXCEPT !.state = "UNUSED"]

(* The deadline of a process that has none. *)
NoDeadline == CHOOSE d \in Deadlines : \A e \in Deadlines : e <= d

(* A process and its child without deadlines, whose quotas were set when    *)
(* they began and are never used up unless they are set again.              *)
MinCUInit ==
  /\ pr = [s \in Slots |-> CASE s = 1 -> [NewTask(NoDeadline, 0) EXCEPT !.quota = INFTICKS]
                           [] s = 2 -> [NewTask(NoDeadline, 1) EXCEPT !.quota = INFTICKS]
                           [] OTHER -> FreeTask]
  /\ prlock = [s \in Slots |-> NoCpu] /\ scanlock = NoCpu
  /\ cpu = [c \in Cpus |-> [at |-> "idle", i |-> 1, min |-> INFTICKS, best |-> 0, quota |-> TRUE,
                            proc |-> 0, start |-> 0]]
  /\ call = [s \in Slots |-> [at |-> "none", i |-> 0]] /\ list = [s \in Slots |-> <<>>]
  /\ now = 0 /\ ready = [c \in Cpus |-> {}] /\ duty = 0

OverQuota(s) == pr[s].quota <= pr[s].sum
Eligible == {s \in Slots : pr[s].state = "RUNNABLE" /\ ~OverQuota(s)}
Work == duty < MAXDUTY /\ duty' = duty + 1

(* The slots that have been eligible since the scan of a CPU began, which   *)
(* is now for those in cs.                                                  *)
Watch(cs) ==
  ready' = [c \in Cpus |-> (IF c \in cs THEN Slots ELSE ready[c]) \cap Eligible']
-----------------------------------------------------------------------------
(* min_cpu_usage_scheduler()                                               *)
scanStart(c) ==
  /\ cpu[c].at = "idle" /\ scanlock = NoCpu
  /\ scanlock' = c
  /\ cpu' = [cpu EXCEPT ![c] = [@ EXCEPT !.at = "scan"]]
  /\ UNCHANGED <<pr, prlock, call, list, now, duty>>
  /\ Watch({c})

Skipped(c, s) == OverQuota(s) /\ cpu[c].quota

(* Variant of NewMin that never lowers the bound. *)
NewMin_Stays(c, s) == cpu[c].min

NewMin(c, s) == pr[s].sum

(* Variant of Dropped that keeps the lock of the former candidate. *)
Dropped_None(c) == {}

(* The lock that is given up when there is a better candidate. *)
Dropped(c) == {cpu[c].best} \ {0}

(* The candidate changes to s, whose lock is kept. *)
Choose(c, s) ==
  prlock' = [t \in Slots |-> IF t = s THEN c ELSE IF t \in Dropped(c) THEN NoCpu ELSE prlock[t]]

(* One slot: less usage; the same, and an earlier deadline; or neither. *)
scanSlot(c) ==
  LET s == cpu[c].i
      less == pr[s].state = "RUNNABLE" /\ pr[s].sum < cpu[c].min
      tie == pr[s].state = "RUNNABLE" /\ pr[s].sum = cpu[c].min
      sooner == cpu[c].best # 0 /\ pr[s].deadline < pr[cpu[c].best].deadline
      go == [cpu[c] EXCEPT !.i = @ + 1]
  IN  /\ cpu[c].at = "scan" /\ s <= NTASK
      /\ prlock[s] = NoCpu
      /\ \/ /\ less /\ ~Skipped(c, s)
            /\ Choose(c, s)
            /\ cpu' = [cpu EXCEPT ![c] = [go EXCEPT !.min = NewMin(c, s), !.best = s,
                                                    !.quota = @ \/ ~OverQuota(s)]]
         \/ /\ tie /\ sooner
            /\ Choose(c, s)
            /\ cpu' = [cpu EXCEPT ![c] = [go EXCEPT !.best = s]]
         \/ /\ (less => Skipped(c, s)) /\ ~(tie /\ sooner)
            /\ cpu' = [cpu EXCEPT ![c] = go]
            /\ UNCHANGED prlock
      /\ UNCHANGED <<pr, scanlock, call, list, now, duty>>
      /\ Watch({})

(* Nothing to run: quotas are ignored next time. *)
scanNothing(c) ==
  /\ cpu[c].at = "scan" /\ cpu[c].i > NTASK /\ cpu[c].best = 0
  /\ scanlock' = NoCpu
  /\ cpu' = [cpu EXCEPT ![c] = [@ EXCEPT !.at = "idle", !.quota = FALSE, !.i = 1]]
  /\ UNCHANGED <<pr, prlock, call, list, now, duty>>
  /\ Watch({})

(* swtch() to the choice, which releases its own lock. *)
dispatch(c) ==
  LET s == cpu[c].best IN
    /\ cpu[c].at = "scan" /\ cpu[c].i > NTASK /\ s # 0
    /\ scanlock' = NoCpu
    /\ pr' = [pr EXCEPT ![s].state = "RUNNING"]
    /\ prlock' = [prlock EXCEPT ![s] = NoCpu]
    /\ cpu' = [cpu EXCEPT ![c] = [@ EXCEPT !.at = "run", !.proc = s, !.best = 0, !.start = now,
                                           !.i = 1, !.min = INFTICKS]]
    /\ UNCHANGED <<call, list, now, duty>>
    /\ Watch({})

(* The process comes back: it yields, sleeps or has exited.  exit() hands  *)
(* its children to the first process.                                      *)
comeBack(c, st) ==
  LET s == cpu[c].proc IN
    /\ cpu[c].at = "run" /\ prlock[s] = NoCpu
    /\ st = "ZOMBIE" => s # 1
    /\ IF st = "RUNNABLE" THEN UNCHANGED duty ELSE call[s].at = "none" /\ Work
    /\ pr' = [t \in Slots |->
         IF t = s THEN [pr[s] EXCEPT !.state = st, !.sum = @ + now - cpu[c].start]
         ELSE IF st = "ZOMBIE" /\ pr[t].parent = s THEN [pr[t] EXCEPT !.parent = 1] ELSE pr[t]]
    /\ cpu' = [cpu EXCEPT ![c] = [@ EXCEPT !.at = "idle", !.proc = 0, !.start = 0]]
    /\ UNCHANGED <<prlock, scanlock, call, list, now>>
    /\ Watch({})
-----------------------------------------------------------------------------
(* What processes and the clock do meanwhile.                              *)
Running(s) == pr[s].state = "RUNNING"

wakeTask(s) ==
  /\ pr[s].state = "SLEEPING" /\ prlock[s] = NoCpu /\ Work
  /\ pr' = [pr EXCEPT ![s].state = "RUNNABLE"]
  /\ UNCHANGED <<prlock, scanlock, cpu, call, list, now>>
  /\ Watch({})

forkTask(p, s, dl) ==
  /\ Running(p) /\ call[p].at = "none"
  /\ pr[s].state = "UNUSED" /\ prlock[s] = NoCpu /\ Work
  /\ pr' = [pr EXCEPT ![s] = NewTask(dl, p)]
  /\ UNCHANGED <<prlock, scanlock, cpu, call, list, now>>
  /\ Watch({})

reapTask(p, s) ==
  /\ Running(p) /\ call[p].at = "none"
  /\ pr[s].state = "ZOMBIE" /\ pr[s].parent = p /\ prlock[s] = NoCpu /\ Work
  /\ pr' = [pr EXCEPT ![s] = FreeTask]
  /\ UNCHANGED <<prlock, scanlock, cpu, call, list, now>>
  /\ Watch({})

tick ==
  /\ now < MAXTICK /\ now' = now + 1
  /\ UNCHANGED <<pr, prlock, scanlock, cpu, call, list, duty>>
  /\ Watch({})
-----------------------------------------------------------------------------
(* The calls.  A timer interrupt may take the CPU between any two steps.   *)
enterCall(p, name, i) ==
  /\ Running(p) /\ call[p].at = "none" /\ Work
  /\ call' = [call EXCEPT ![p] = [at |-> name, i |-> i]]
  /\ list' = [list EXCEPT ![p] = <<>>]
  /\ UNCHANGED <<pr, prlock, scanlock, cpu, now>>
  /\ Watch({})

leaveCall(p) == call' = [call EXCEPT ![p] = [at |-> "none", i |-> 0]]

(* set_cpu_quota() holds no lock.  The loop reads target_proc->parent      *)
(* again and again, not the parent's parent.                               *)
quotaSet(p, q) ==
  LET t == call[p].i IN
    /\ Running(p) /\ call[p].at = "quota" /\ p \in {t, pr[t].parent}
    /\ pr' = [pr EXCEPT ![t].quota = q]
    /\ leaveCall(p)
    /\ UNCHANGED <<prlock, scanlock, cpu, list, now, duty>>
    /\ Watch({})

quotaRefused(p) ==
  LET t == call[p].i IN
    /\ Running(p) /\ call[p].at = "quota" /\ p # t /\ pr[t].parent = 0
    /\ leaveCall(p)
    /\ UNCHANGED <<pr, prlock, scanlock, cpu, list, now, duty>>
    /\ Watch({})

(* The entries that top() moves down to make room for one of usage sum. *)
Below(entry, sum) == entry[2] <= sum

(* One pass of the insertion: the entries at the end of l that are Below move. *)
Inserted(l, entry) ==
  LET stays == {k \in 1 .. Len(l) : ~Below(l[k], entry[2])}
      at == CHOOSE k \in 1 .. Len(l) + 1 : (k = 1 \/ k - 1 \in stays) /\ \A j \in k .. Len(l) : j \notin stays
  IN  SubSeq(l, 1, at - 1) \o <<entry>> \o SubSeq(l, at, Len(l))

topSlot(p) ==
  LET s == call[p].i IN
    /\ Running(p) /\ call[p].at = "top" /\ s <= NTASK /\ prlock[s] = NoCpu
    /\ list' = [list EXCEPT ![p] = IF pr[s].state = "UNUSED" THEN @ ELSE Inserted(@, <<s, pr[s].sum>>)]
    /\ call' = [call EXCEPT ![p].i = @ + 1]
    /\ UNCHANGED <<pr, prlock, scanlock, cpu, now, duty>>
    /\ Watch({})

(* The walk up from the parent of s meets p. *)
Descends(s, p) ==
  LET chain[k \in 0 .. NTASK] == IF k = 0 THEN s ELSE IF chain[k - 1] = 0 THEN 0 ELSE pr[chain[k - 1]].parent
  IN  \E k \in 1 .. NTASK : chain[k] = p

childrenSlot(p) ==
  LET s == call[p].i IN
    /\ Running(p) /\ call[p].at = "children" /\ s <= NTASK
    /\ list' = [list EXCEPT ![p] = IF pr[s].state # "UNUSED" /\ Descends(s, p)
                                   THEN Append(@, <<s, pr[s].parent>>) ELSE @]
    /\ call' = [call EXCEPT ![p].i = @ + 1]
    /\ UNCHANGED <<pr, prlock, scanlock, cpu, now, duty>>
    /\ Watch({})

listDone(p) ==
  /\ Running(p) /\ call[p].at \in {"top", "children"} /\ call[p].i > NTASK
  /\ leaveCall(p)
  /\ list' = [list EXCEPT ![p] = <<>>]
  /\ UNCHANGED <<pr, prlock, scanlock, cpu, now, duty>>
  /\ Watch({})

MinCUNext ==
  \/ \E c \in Cpus :
       \/ scanStart(c) \/ scanSlot(c) \/ scanNothing(c) \/ dispatch(c)
       \/ \E st \in {"RUNNABLE", "SLEEPING", "ZOMBIE"} : comeBack(c, st)
  \/ \E p \in Slots :
       \/ wakeTask(p) \/ enterCall(p, "top", 1) \/ enterCall(p, "children", 1)
       \/ topSlot(p) \/ childrenSlot(p) \/ listDone(p) \/ quotaRefused(p)
       \/ \E q \in Quotas : quotaSet(p, q)
       \/ \E s \in Slots : reapTask(p, s) \/ enterCall(p, "quota", s)
                           \/ \E dl \in Deadlines : forkTask(p, s, dl)
  \/ tick

MinCUSpec == MinCUInit /\ [][MinCUNext]_minCUVars
-----------------------------------------------------------------------------
(* The scan of a CPU gives up every p->lock but that of its choice, and    *)
(* the choice is still RUNNABLE when the CPU switches to it, although      *)
(* other CPUs wake, run and reap processes during the scan: no process     *)
(* ever runs on two CPUs.                                                  *)
ChoiceIsHeld ==
  /\ \A c \in Cpus : {s \in Slots : prlock[s] = c} = {cpu[c].best} \ {0}
  /\ \A c \in Cpus : cpu[c].best # 0 => pr[cpu[c].best].state = "RUNNABLE"
  /\ \A s \in Slots : Running(s) <=> \E c \in Cpus : {d \in Cpus : cpu[d].proc = s} = {c}

(* The process a CPU switches to has used no more ticks than any process   *)
(* that has been RUNNABLE and within its quota since the scan began.       *)
LeastUsedRuns ==
  [][\A c \in Cpus : dispatch(c) => \A s \in ready[c] : pr[cpu[c].best].sum <= pr[s].sum]_minCUVars
=============================================================================
