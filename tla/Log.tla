-------------------------------- MODULE Log --------------------------------
(***************************************************************************)
(* The write-ahead log of kernel/log.c, the part of the buffer cache it    *)
(* leans on (bread, bpin, bunpin, recycling of unpinned buffers) and the   *)
(* disk under both.  Every bwrite() is one step, so a crash can fall       *)
(* between any two of them, recovery included.  Critical sections under    *)
(* log.lock are one step each.                                             *)
(*                                                                         *)
(* The on-disk log area has sb.nlog = LOGSIZE blocks (mkfs/mkfs.c:25), one *)
(* of which is the header: LOGSIZE - 1 blocks hold data.                   *)
(***************************************************************************)
EXTENDS Integers, Sequences, FiniteSets

CONSTANTS
  Procs,        \* processes that make file-system calls
  Blocks,       \* home block numbers
  Vals,         \* contents of a block
  NoVal,        \* "not in the buffer cache"
  LOGSIZE,      \* param.h
  MAXOPBLOCKS,  \* param.h
  OpBlocks      \* distinct blocks one operation writes at most

ASSUME LogAssumption ==
  /\ IsFiniteSet(Procs)
  /\ NoVal \notin Vals \cup Blocks
  /\ LOGSIZE \in Nat /\ MAXOPBLOCKS \in Nat /\ OpBlocks \in Nat
  /\ 0 < MAXOPBLOCKS /\ MAXOPBLOCKS < LOGSIZE

VARIABLES
  disk,         \* home blocks on the disk
  hdr,          \* block numbers in the log header on the disk
  logblk,       \* log data blocks on the disk
  buf,          \* buffer cache: contents of a cached block, or NoVal
  pin,          \* references log_write() holds on a block's buffer
  lh,           \* log.lh: block numbers of the transaction being built
  outstanding,  \* log.outstanding
  committing,   \* log.committing
  tail,         \* loop index of write_log() and install_trans()
  sys,          \* "up", or the stage recovery has reached
  pc,           \* where each process is
  held,         \* the buffer a process holds between bread() and brelse()
  wrote         \* blocks the current operation of a process has written

vars == <<disk, hdr, logblk, buf, pin, lh, outstanding, committing, tail, sys,
          pc, held, wrote>>
diskVars == <<disk, hdr, logblk>>
bufVars == <<buf, pin>>
opVars == <<held, wrote>>

Slots == 1 .. (LOGSIZE - 1)
NoBlock == NoVal

InOp == {"op", "modified"}
InCommit == {"write_log", "write_head", "install", "clear", "done"}
PCs == {"idle", "begin", "sleep"} \cup InOp \cup InCommit
Stages == {"up", "read_head", "install", "clear"}

Listed(s) == {s[i] : i \in 1 .. Len(s)}

(* What bread() returns: the cached copy, or else the disk's.              *)
Cached(b) == IF buf[b] = NoVal THEN disk[b] ELSE buf[b]

(* Variant of Wakeup that wakes nobody.                                    *)
Wakeup_Nobody(f) == f

(* wakeup(&log): every process asleep in begin_op() tests again.           *)
Wakeup(f) == [q \in Procs |-> IF f[q] = "sleep" THEN "begin" ELSE f[q]]

Init ==
  /\ disk \in [Blocks -> Vals]
  /\ hdr = <<>>
  /\ \E v \in Vals : logblk = [i \in Slots |-> v]   \* zeroed by mkfs
  /\ buf = [b \in Blocks |-> NoVal]
  /\ pin = [b \in Blocks |-> 0]
  /\ lh = <<>>
  /\ outstanding = 0
  /\ committing = FALSE
  /\ tail = 0
  /\ sys = "read_head"
  /\ pc = [p \in Procs |-> "idle"]
  /\ held = [p \in Procs |-> NoBlock]
  /\ wrote = [p \in Procs |-> {}]

-----------------------------------------------------------------------------
(* begin_op() and end_op()                                                 *)

(* Variant of LogFull that forgets the operations already admitted.        *)
LogFull_NoReserve == Len(lh) + MAXOPBLOCKS > LOGSIZE

(* The new operation might exhaust the log.                                *)
LogFull == Len(lh) + (outstanding + 1) * MAXOPBLOCKS > LOGSIZE

begin_op(p) ==
  /\ sys = "up"
  /\ pc[p] \in {"idle", "begin"}
  /\ \/ /\ committing \/ LogFull
        /\ pc' = [pc EXCEPT ![p] = "sleep"]
        /\ UNCHANGED <<outstanding, wrote>>
     \/ /\ ~committing /\ ~LogFull
        /\ outstanding' = outstanding + 1
        /\ pc' = [pc EXCEPT ![p] = "op"]
        /\ wrote' = [wrote EXCEPT ![p] = {}]
  /\ UNCHANGED <<diskVars, bufVars, lh, committing, tail, sys, held>>

(* end_op(): leave, or commit() when this was the last operation.  With an *)
(* empty transaction commit() has nothing to do.                           *)
end_op(p) ==
  /\ sys = "up"
  /\ pc[p] = "op"
  /\ outstanding' = outstanding - 1
  /\ \/ /\ outstanding > 1
        /\ pc' = [Wakeup(pc) EXCEPT ![p] = "idle"]
        /\ UNCHANGED <<committing, tail>>
     \/ /\ outstanding = 1
        /\ committing' = TRUE
        /\ tail' = 0
        /\ pc' = [pc EXCEPT ![p] = IF lh = <<>> THEN "done" ELSE "write_log"]
  /\ UNCHANGED <<diskVars, bufVars, lh, sys, opVars>>

(* end_op() after commit(): clear log.committing and wake the waiters.     *)
end_op_done(p) ==
  /\ sys = "up"
  /\ pc[p] = "done"
  /\ committing' = FALSE
  /\ pc' = [Wakeup(pc) EXCEPT ![p] = "idle"]
  /\ UNCHANGED <<diskVars, bufVars, lh, outstanding, tail, sys, opVars>>

-----------------------------------------------------------------------------
(* Inside an operation: bp = bread(b); modify bp->data; log_write(bp);     *)
(* brelse(bp).  The buffer's sleep lock is held throughout.                *)

modify(p, b, v) ==
  /\ sys = "up"
  /\ pc[p] = "op"
  /\ \A q \in Procs : held[q] # b
  /\ Cardinality(wrote[p] \cup {b}) <= OpBlocks
  /\ buf' = [buf EXCEPT ![b] = v]
  /\ held' = [held EXCEPT ![p] = b]
  /\ wrote' = [wrote EXCEPT ![p] = @ \cup {b}]
  /\ pc' = [pc EXCEPT ![p] = "modified"]
  /\ UNCHANGED <<diskVars, pin, lh, outstanding, committing, tail, sys>>

(* Variant of bpin that takes no reference.                                *)
bpin_Nothing(b) == UNCHANGED pin

bpin(b) == pin' = [pin EXCEPT ![b] = @ + 1]

bunpin(b) == pin' = [pin EXCEPT ![b] = @ - 1]

(* log_write() panics ("too big a transaction") instead of taking this     *)
(* step when the log is full; LogHasRoom says that it never is.            *)
log_write(p) ==
  /\ sys = "up"
  /\ pc[p] = "modified"
  /\ Len(lh) < LOGSIZE - 1
  /\ \/ held[p] \in Listed(lh) /\ UNCHANGED <<lh, pin>>   \* log absorption
     \/ /\ held[p] \notin Listed(lh)
        /\ lh' = Append(lh, held[p])
        /\ bpin(held[p])
  /\ held' = [held EXCEPT ![p] = NoBlock]
  /\ pc' = [pc EXCEPT ![p] = "op"]
  /\ UNCHANGED <<diskVars, buf, outstanding, committing, tail, sys, wrote>>

-----------------------------------------------------------------------------
(* commit()                                                                *)

(* One turn of the loop of write_log(): copy a cached block to the log.    *)
write_log(p) ==
  /\ sys = "up"
  /\ pc[p] = "write_log"
  /\ logblk' = [logblk EXCEPT ![tail + 1] = Cached(lh[tail + 1])]
  /\ tail' = tail + 1
  /\ pc' = [pc EXCEPT ![p] = IF tail + 1 = Len(lh) THEN "write_head" ELSE @]
  /\ UNCHANGED <<disk, hdr, bufVars, lh, outstanding, committing, sys, opVars>>

(* write_head(): the transaction commits when this write reaches the disk. *)
write_head(p) ==
  /\ sys = "up"
  /\ pc[p] = "write_head"
  /\ hdr' = lh
  /\ tail' = 0
  /\ pc' = [pc EXCEPT ![p] = "install"]
  /\ UNCHANGED <<disk, logblk, bufVars, lh, outstanding, committing, sys, opVars>>

(* One turn of the loop of install_trans(): lbuf is copied to dbuf, and    *)
(* dbuf is written home.                                                   *)
install_block(b) ==
  /\ buf' = [buf EXCEPT ![b] = logblk[tail + 1]]
  /\ disk' = [disk EXCEPT ![b] = logblk[tail + 1]]
  /\ tail' = tail + 1

(* install_trans(0)                                                        *)
install_trans(p) ==
  /\ sys = "up"
  /\ pc[p] = "install"
  /\ install_block(lh[tail + 1])
  /\ bunpin(lh[tail + 1])
  /\ pc' = [pc EXCEPT ![p] = IF tail + 1 = Len(lh) THEN "clear" ELSE @]
  /\ UNCHANGED <<hdr, logblk, lh, outstanding, committing, sys, opVars>>

(* log.lh.n = 0; write_head(): erase the transaction from the log.         *)
erase == lh' = <<>> /\ hdr' = <<>>

clear_head(p) ==
  /\ sys = "up"
  /\ pc[p] = "clear"
  /\ erase
  /\ tail' = 0
  /\ pc' = [pc EXCEPT ![p] = "done"]
  /\ UNCHANGED <<disk, logblk, bufVars, outstanding, committing, sys, opVars>>

-----------------------------------------------------------------------------
(* The buffer cache: any process may read a block into it, and bget() may  *)
(* recycle a buffer nobody references.                                     *)

bread(b) ==
  /\ sys = "up"
  /\ buf[b] = NoVal
  /\ buf' = [buf EXCEPT ![b] = disk[b]]
  /\ UNCHANGED <<diskVars, pin, lh, outstanding, committing, tail, sys, pc, opVars>>

bget_recycle(b) ==
  /\ sys = "up"
  /\ buf[b] # NoVal
  /\ pin[b] = 0
  /\ \A q \in Procs : held[q] # b
  /\ buf' = [buf EXCEPT ![b] = NoVal]
  /\ UNCHANGED <<diskVars, pin, lh, outstanding, committing, tail, sys, pc, opVars>>

-----------------------------------------------------------------------------
(* Crash and recovery: initlog() runs recover_from_log() before the first  *)
(* process returns to user space, so no file-system call runs meanwhile.   *)

crash ==
  /\ buf' = [b \in Blocks |-> NoVal]
  /\ pin' = [b \in Blocks |-> 0]
  /\ lh' = <<>>
  /\ outstanding' = 0
  /\ committing' = FALSE
  /\ tail' = 0
  /\ sys' = "read_head"
  /\ pc' = [p \in Procs |-> "idle"]
  /\ held' = [p \in Procs |-> NoBlock]
  /\ wrote' = [p \in Procs |-> {}]
  /\ UNCHANGED diskVars

read_head ==
  /\ sys = "read_head"
  /\ lh' = hdr
  /\ sys' = IF hdr = <<>> THEN "clear" ELSE "install"
  /\ UNCHANGED <<diskVars, bufVars, outstanding, committing, tail, pc, opVars>>

(* install_trans(1)                                                        *)
recover_install ==
  /\ sys = "install"
  /\ install_block(lh[tail + 1])
  /\ sys' = IF tail + 1 = Len(lh) THEN "clear" ELSE sys
  /\ UNCHANGED <<hdr, logblk, pin, lh, outstanding, committing, pc, opVars>>

recover_clear ==
  /\ sys = "clear"
  /\ erase
  /\ tail' = 0
  /\ sys' = "up"
  /\ UNCHANGED <<disk, logblk, bufVars, outstanding, committing, pc, opVars>>

-----------------------------------------------------------------------------
Commit(p) ==
  \/ write_log(p) \/ write_head(p) \/ install_trans(p) \/ clear_head(p)
  \/ end_op_done(p)

Recover == read_head \/ recover_install \/ recover_clear

Next ==
  \/ \E p \in Procs : begin_op(p) \/ log_write(p) \/ end_op(p) \/ Commit(p)
  \/ \E p \in Procs, b \in Blocks, v \in Vals : modify(p, b, v)
  \/ \E b \in Blocks : bread(b) \/ bget_recycle(b)
  \/ crash
  \/ Recover

Spec == Init /\ [][Next]_vars

(* The next step of a process that is in begin_op(), log_write() or commit(). *)
InCall(p) == (pc[p] = "begin" /\ begin_op(p)) \/ log_write(p) \/ Commit(p)

(* A process that is inside a file-system call keeps running: the          *)
(* scheduler runs every runnable process, and disk writes complete.  An    *)
(* idle process need not start a call.  Every operation ends (strong       *)
(* fairness of end_op): the code between begin_op() and end_op() writes    *)
(* finitely many blocks.                                                   *)
Fairness ==
  /\ \A p \in Procs : WF_vars(InCall(p)) /\ SF_vars(end_op(p))
  /\ WF_vars(Recover)

FairSpec == Spec /\ Fairness

-----------------------------------------------------------------------------
(* The state has the shape log.c declares, and no step leaves it.          *)
TypeOK ==
  /\ disk \in [Blocks -> Vals]
  /\ hdr \in Seq(Blocks) /\ Len(hdr) < LOGSIZE
  /\ logblk \in [Slots -> Vals]
  /\ buf \in [Blocks -> Vals \cup {NoVal}]
  /\ pin \in [Blocks -> Nat]
  /\ lh \in Seq(Blocks) /\ Len(lh) < LOGSIZE
  /\ outstanding \in Nat
  /\ committing \in BOOLEAN
  /\ tail \in Nat
  /\ sys \in Stages
  /\ pc \in [Procs -> PCs]
  /\ held \in [Procs -> Blocks \cup {NoBlock}]
  /\ wrote \in [Procs -> SUBSET Blocks]

(* log_write() never panics: whenever a process is about to log a block it *)
(* is inside a transaction and the log has room, even for a block that     *)
(* would be absorbed (log.c:220 tests before looking for the block).       *)
LogHasRoom ==
  \A p \in Procs :
    pc[p] = "modified" => Len(lh) < LOGSIZE - 1 /\ outstanding >= 1

(* Nobody sleeps in begin_op() while there is room and no commit running:  *)
(* each change that could let a sleeper in is followed by a wakeup.        *)
SleepsOnlyWhenBlocked ==
  \A p \in Procs : pc[p] = "sleep" => committing \/ LogFull

(* Once the last end_op() has returned, every block of every finished      *)
(* operation is at its home location and the log is empty.                 *)
QuiescentIsDurable ==
  sys = "up" /\ outstanding = 0 /\ ~committing =>
    /\ lh = <<>> /\ hdr = <<>>
    /\ \A b \in Blocks : Cached(b) = disk[b]

(* Write-ahead rule: a home block changes on the disk only to the contents *)
(* a committed log record already holds for it.                            *)
HomeWriteIsLogged ==
  \A b \in Blocks :
    disk'[b] # disk[b] =>
      \E i \in 1 .. Len(hdr) : hdr[i] = b /\ logblk[i] = disk'[b]

(* Write-ahead logging: no step of install_trans(), or of any other        *)
(* operation, writes a home block before its record is committed.          *)
WriteAhead == [][HomeWriteIsLogged]_vars

(* A process asleep in begin_op() is woken: the operations it waits for    *)
(* end, the last of them commits, and both wake it.                        *)
SleeperWakes == \A p \in Procs : pc[p] = "sleep" ~> pc[p] # "sleep"

-----------------------------------------------------------------------------
(* Refinement: what recovery makes of home blocks d, given header h and    *)
(* log blocks l.                                                           *)
Replay(h, l, d) ==
  [b \in Blocks |->
     IF b \in Listed(h) THEN l[CHOOSE i \in 1 .. Len(h) : h[i] = b] ELSE d[b]]

Recovered == Replay(hdr, logblk, disk)

Memory == IF sys = "up" THEN [b \in Blocks |-> Cached(b)] ELSE Recovered

Atomic == INSTANCE AtomicDisk
  WITH mem <- Memory, stable <- Recovered, active <- {p \in Procs : pc[p] \in InOp}

(* Every file-system operation is atomic with respect to crashes: the log  *)
(* implements the disk of AtomicDisk.                                      *)
CrashAtomic == Atomic!Spec
=============================================================================
