-------------------------------- MODULE Pipe --------------------------------
(***************************************************************************)
(* A pipe of kernel/pipe.c and the processes that share its two ends.      *)
(* nread and nwrite are C uints and wrap around.  pi->lock is held from    *)
(* entry to return except while asleep; kill() may come at any moment, the *)
(* one between the test of killed() and sleep() included.                  *)
(***************************************************************************)
EXTENDS Integers, FiniteSets

CONSTANTS
  Writers, Readers,  \* processes that hold the write end, the read end
  Bytes,
  PIPESIZE,
  UINT,              \* number of values of a uint, 2^32 in the code
  MAXN,              \* bound: largest n of one read() or write()
  Killable,          \* processes that kill() may hit
  NoOne

Procs == Writers \cup Readers

ASSUME PipeAssumption ==
  /\ Writers # {} /\ Readers # {} /\ Writers \cap Readers = {}
  /\ Killable \subseteq Procs /\ NoOne \notin Procs
  /\ Bytes # {}
  /\ PIPESIZE \in Nat \ {0} /\ MAXN \in Nat
  /\ \E k \in 2 .. UINT : UINT = k * PIPESIZE

VARIABLES
  data, nread, nwrite, readopen, writeopen,  \* struct pipe
  freed,    \* the page of the pipe is back in kalloc's free list
  lock,     \* holder of pi->lock
  open,     \* processes that have not closed their end
  killed,
  left,     \* n - i of the call in progress
  pc

vars == <<data, nread, nwrite, readopen, writeopen, freed, lock, open, killed,
          left, pc>>
endVars == <<readopen, writeopen, freed, open>>

Asleep == {"w_sleep", "r_sleep"}

(* The struct pipe that pipealloc() fills in; data[] is whatever the page  *)
(* held before.                                                            *)
Fresh ==
  /\ data \in [0 .. PIPESIZE - 1 -> Bytes]
  /\ nread = 0 /\ nwrite = 0
  /\ readopen = TRUE /\ writeopen = TRUE /\ freed = FALSE

Init ==
  /\ Fresh
  /\ lock = NoOne
  /\ open = Procs
  /\ killed = [p \in Procs |-> FALSE]
  /\ left = [p \in Procs |-> 0]
  /\ pc = [p \in Procs |-> "idle"]

(* Variant of Full in which the sum does not wrap.                         *)
Full_Wide == nwrite = nread + PIPESIZE

Full == nwrite = (nread + PIPESIZE) % UINT
Empty == nread = nwrite

(* n++ of a uint                                                           *)
Inc(n) == (n + 1) % UINT

(* wakeup(&pi->nread) and wakeup(&pi->nwrite)                              *)
WakeReaders(f) == [p \in Procs |-> IF f[p] = "r_sleep" THEN "r_wake" ELSE f[p]]

(* Variant of WakeWriters that wakes nobody.                               *)
WakeWriters_Nobody(f) == f

WakeWriters(f) == [p \in Procs |-> IF f[p] = "w_sleep" THEN "w_wake" ELSE f[p]]

(* p holds pi->lock and has reached a label.                               *)
At(p, label) == lock = p /\ pc[p] = label

(* acquire(&pi->lock) on the way to a label.                               *)
Acquire(p, label) ==
  /\ lock = NoOne
  /\ lock' = p
  /\ pc' = [pc EXCEPT ![p] = label]

(* release(&pi->lock) and return; f is pc after the wakeups before it.     *)
Release(p, f) ==
  /\ lock' = NoOne
  /\ pc' = [f EXCEPT ![p] = "idle"]
  /\ left' = [left EXCEPT ![p] = 0]

(* sleep(chan, &pi->lock)                                                  *)
Sleep(p, f, label) == lock' = NoOne /\ pc' = [f EXCEPT ![p] = label]

-----------------------------------------------------------------------------
pipewrite(p, n) ==
  /\ p \in open /\ ~killed[p] /\ pc[p] = "idle"
  /\ Acquire(p, "w_loop")
  /\ left' = [left EXCEPT ![p] = n]
  /\ UNCHANGED <<data, nread, nwrite, endVars, killed>>

pipewrite_wake(p) ==
  /\ pc[p] = "w_wake"
  /\ Acquire(p, "w_loop")
  /\ UNCHANGED <<data, nread, nwrite, endVars, killed, left>>

(* The head of the loop: done, give up, or go on.  Giving up wakes nobody. *)
pipewrite_loop(p) ==
  /\ At(p, "w_loop")
  /\ \/ left[p] = 0 /\ Release(p, WakeReaders(pc))
     \/ left[p] > 0 /\ (~readopen \/ killed[p]) /\ Release(p, pc)
     \/ /\ left[p] > 0 /\ readopen /\ ~killed[p]
        /\ pc' = [pc EXCEPT ![p] = "w_body"]
        /\ UNCHANGED <<lock, left>>
  /\ UNCHANGED <<data, nread, nwrite, endVars, killed>>

(* Its body: sleep while the pipe is full, fail to copy the byte in, or    *)
(* store it.                                                               *)
pipewrite_body(p) ==
  /\ At(p, "w_body")
  /\ \/ /\ Full
        /\ Sleep(p, WakeReaders(pc), "w_sleep")
        /\ UNCHANGED <<data, nwrite, left>>
     \/ ~Full /\ Release(p, WakeReaders(pc)) /\ UNCHANGED <<data, nwrite>>
     \/ /\ ~Full
        /\ \E ch \in Bytes : data' = [data EXCEPT ![nwrite % PIPESIZE] = ch]
        /\ nwrite' = Inc(nwrite)
        /\ left' = [left EXCEPT ![p] = @ - 1]
        /\ pc' = [pc EXCEPT ![p] = "w_loop"]
        /\ UNCHANGED lock
  /\ UNCHANGED <<nread, endVars, killed>>

-----------------------------------------------------------------------------
piperead(p, n) ==
  /\ p \in open /\ ~killed[p] /\ pc[p] = "idle"
  /\ Acquire(p, "r_loop")
  /\ left' = [left EXCEPT ![p] = n]
  /\ UNCHANGED <<data, nread, nwrite, endVars, killed>>

piperead_wake(p) ==
  /\ pc[p] = "r_wake"
  /\ Acquire(p, "r_loop")
  /\ UNCHANGED <<data, nread, nwrite, endVars, killed, left>>

piperead_loop(p) ==
  /\ At(p, "r_loop")
  /\ \/ Empty /\ writeopen /\ killed[p] /\ Release(p, pc)
     \/ /\ ~(Empty /\ writeopen /\ killed[p])
        /\ pc' = [pc EXCEPT ![p] = IF Empty /\ writeopen THEN "r_block" ELSE "r_copy"]
        /\ UNCHANGED <<lock, left>>
  /\ UNCHANGED <<data, nread, nwrite, endVars, killed>>

piperead_sleep(p) ==
  /\ At(p, "r_block")
  /\ Sleep(p, pc, "r_sleep")
  /\ UNCHANGED <<data, nread, nwrite, endVars, killed, left>>

(* One turn of the copy loop: the byte leaves the pipe whether or not      *)
(* copyout() can deliver it.                                               *)
piperead_copy(p) ==
  /\ At(p, "r_copy")
  /\ \/ /\ left[p] = 0 \/ Empty
        /\ Release(p, WakeWriters(pc))
        /\ UNCHANGED nread
     \/ /\ left[p] > 0 /\ ~Empty
        /\ nread' = Inc(nread)
        /\ \/ left' = [left EXCEPT ![p] = @ - 1] /\ UNCHANGED <<lock, pc>>
           \/ Release(p, WakeWriters(pc))
  /\ UNCHANGED <<data, nwrite, endVars, killed>>

-----------------------------------------------------------------------------
(* Variant of Unused that takes one closed end for two.                    *)
Unused_Either(r, w) == ~r \/ ~w

(* Both ends are closed: the pipe can be freed.                            *)
Unused(r, w) == ~r /\ ~w

(* close() or exit(): the last process to close an end runs pipeclose().   *)
pipeclose(p) ==
  /\ p \in open /\ pc[p] = "idle" /\ lock = NoOne
  /\ open' = open \ {p}
  /\ readopen' = (readopen /\ open' \cap Readers # {})
  /\ writeopen' = (writeopen /\ open' \cap Writers # {})
  /\ pc' = IF writeopen # writeopen' THEN WakeReaders(pc)
           ELSE IF readopen # readopen' THEN WakeWriters(pc) ELSE pc
  /\ freed' = Unused(readopen', writeopen')
  /\ UNCHANGED <<data, nread, nwrite, lock, killed, left>>

(* pipealloc(): a new pipe in the page of the old one.                     *)
pipealloc ==
  /\ freed /\ open = {}
  /\ nread' = 0 /\ nwrite' = 0
  /\ readopen' = TRUE /\ writeopen' = TRUE /\ freed' = FALSE
  /\ open' = Procs
  /\ killed' = [p \in Procs |-> FALSE]
  /\ UNCHANGED <<data, lock, left, pc>>

(* kill(), which also ends a sleep.                                        *)
kill(p) ==
  /\ p \in open \cap Killable /\ ~killed[p]
  /\ killed' = [killed EXCEPT ![p] = TRUE]
  /\ pc' = [pc EXCEPT ![p] = CASE @ = "r_sleep" -> "r_wake"
                               [] @ = "w_sleep" -> "w_wake"
                               [] OTHER -> @]
  /\ UNCHANGED <<data, nread, nwrite, endVars, lock, left>>

-----------------------------------------------------------------------------
(* Steps of a call in progress.                                            *)
Call(p) ==
  \/ pipewrite_wake(p) \/ pipewrite_loop(p) \/ pipewrite_body(p)
  \/ piperead_wake(p) \/ piperead_loop(p) \/ piperead_sleep(p) \/ piperead_copy(p)

Next ==
  \/ \E n \in 0 .. MAXN :
       (\E p \in Writers : pipewrite(p, n)) \/ (\E p \in Readers : piperead(p, n))
  \/ \E p \in Procs : Call(p) \/ pipeclose(p) \/ kill(p)
  \/ pipealloc

Spec == Init /\ [][Next]_vars

(* Processes are scheduled, and contend fairly for pi->lock; every process *)
(* closes its end at last, when it exits.                                  *)
Fairness == \A p \in Procs : SF_vars(Call(p)) /\ SF_vars(pipeclose(p))

FairSpec == Spec /\ Fairness

-----------------------------------------------------------------------------
(* The pipe is a bounded queue: bytes come out in the order in which they  *)
(* went in, none is lost, repeated or overwritten, also when nread and     *)
(* nwrite wrap around.                                                     *)
Queue == INSTANCE ByteQueue WITH
  Capacity <- PIPESIZE,
  queue <- [j \in 1 .. (nwrite - nread) % UINT |-> data[(nread + j - 1) % PIPESIZE]],
  readEnd <- readopen, writeEnd <- writeopen
IsByteQueue == Queue!Spec

(* pipeclose() frees the pipe only when no process can reach it any more.  *)
FreedIsUnreachable == freed => open = {} /\ \A p \in Procs : pc[p] = "idle"

(* Nobody sleeps in a pipe for ever, provided every process closes its end *)
(* some day.                                                               *)
SleeperReturns == \A p \in Procs : pc[p] \in Asleep ~> pc[p] \notin Asleep
=============================================================================
