------------------------------ MODULE Reports ------------------------------
(***************************************************************************)
(* Crash reports: log_trap() and store_trap() of kernel/trap.c, sysrep()   *)
(* of kernel/proc.c, and the kernel-side file layer of kernel/kfile.c they *)
(* go through, down to the inode table and the log.                        *)
(*                                                                         *)
(* A file is a sequence of units: unit 0 of /reports.bin is the counter,   *)
(* the others are one struct report each.  A dinode holds the size of its  *)
(* file and, as "data", the file whose blocks its addrs[] name.  A report  *)
(* is named by the process that crashed; a process crashes once, and calls *)
(* sysrep() once.  A transaction is one step, unless it waits for an       *)
(* inode's sleep lock half way.                                            *)
(***************************************************************************)
EXTENDS Integers, Sequences, FiniteSets, FiniteSetsExt, SequencesExt

CONSTANTS
  Procs,     \* processes, each of which may crash once
  Readers,   \* processes that call sysrep()
  Openers,   \* processes that open and close ordinary files
  REPORT_BUFFER_SIZE, NFILE, NINODE,
  MAXOPS,    \* operations begin_op() admits: LOGSIZE \div MAXOPBLOCKS
  MAXBUSY,   \* bound: processes in these system calls at one time
  MAXBOOT,   \* bound: number of reboots
  NoOne

ASSUME ReportsAssumption ==
  /\ NoOne \notin Procs \cup Readers \cup Openers
  /\ REPORT_BUFFER_SIZE \in Nat \ {0} /\ NFILE \in Nat \ {0} /\ NINODE \in Nat \ {0}

Actors == Procs \cup Readers \cup Openers
Files == {"reports", "other"}
Units == 0 .. Cardinality(Procs)
NULL == 0

VARIABLES
  kftable,      \* ref and ip of every struct file of kftable
  itable,       \* the inode table
  outstanding,  \* log.outstanding
  cached, disk, \* the files, in the buffer cache and as committed
  reports, count, write_index,  \* _internal_report_list
  boots,
  pc, fd, ino, cnt, off,        \* locals of the calls
  result        \* what the last sysrep() of a reader returned

vars == <<kftable, itable, outstanding, cached, disk, reports, count, write_index,
          boots, pc, fd, ino, cnt, off, result>>
fsVars == <<kftable, itable, outstanding, cached, disk>>
listVars == <<reports, count, write_index>>
locals == <<fd, ino, cnt, off>>

NewFile == [ref |-> 0, ip |-> NULL]
NewInode == [inum |-> NoOne, ref |-> 0, lock |-> NoOne, valid |-> FALSE,
             size |-> 0, data |-> NoOne]
EmptyFile(f) == [size |-> 0, data |-> f, unit |-> [u \in Units |-> NoOne]]

Init ==
  /\ kftable = [s \in 1 .. NFILE |-> NewFile]
  /\ itable = [i \in 1 .. NINODE |-> NewInode]
  /\ outstanding = 0
  /\ cached = [f \in Files |-> EmptyFile(f)]
  /\ disk = cached
  /\ reports = [j \in 0 .. REPORT_BUFFER_SIZE - 1 |-> NoOne]
  /\ count = 0 /\ write_index = 0
  /\ boots = 0
  /\ pc = [p \in Actors |-> "user"]
  /\ fd = [p \in Actors |-> 1] /\ ino = [p \in Actors |-> NULL]
  /\ cnt = [p \in Actors |-> 0] /\ off = [p \in Actors |-> 0]
  /\ result = [p \in Readers |-> <<>>]

Goto(p, label) == pc' = [pc EXCEPT ![p] = label]

(* The call ends, and its locals are gone.                                 *)
Return(p) ==
  /\ Goto(p, "dead")
  /\ fd' = [fd EXCEPT ![p] = 1] /\ ino' = [ino EXCEPT ![p] = NULL]
  /\ cnt' = [cnt EXCEPT ![p] = 0] /\ off' = [off EXCEPT ![p] = 0]

Idle(p) == pc[p] \in {"user", "open", "dead"}

(* p starts a system call.                                                 *)
Enter(p) ==
  /\ pc[p] = "user"
  /\ Cardinality({q \in Actors : ~Idle(q)}) < MAXBUSY

(* begin_op() goes through.                                                *)
CanBegin == outstanding < MAXOPS

(* A whole transaction that leaves the files as c: begin_op() ... end_op() *)
(* commits when nothing else is outstanding.                               *)
Transaction(c) ==
  /\ CanBegin
  /\ cached' = c
  /\ disk' = IF outstanding = 0 THEN c ELSE disk
  /\ UNCHANGED outstanding

(* end_op() of a transaction that began in an earlier step.                *)
end_op ==
  /\ outstanding' = outstanding - 1
  /\ disk' = IF outstanding' = 0 THEN cached ELSE disk
  /\ UNCHANGED cached

begin_op == CanBegin /\ outstanding' = outstanding + 1 /\ UNCHANGED <<cached, disk>>

-----------------------------------------------------------------------------
(* The inode table (kernel/fs.c)                                           *)

(* The slot iget() returns: a match, or else the first free slot; panic    *)
(* ("iget: no inodes") when there is neither.                              *)
Matches(f) == {i \in 1 .. NINODE : itable[i].ref > 0 /\ itable[i].inum = f}
FreeInodes == {i \in 1 .. NINODE : itable[i].ref = 0}
Slot(f) == Min(IF Matches(f) # {} THEN Matches(f) ELSE FreeInodes)

iget(p, f) ==
  /\ Matches(f) \cup FreeInodes # {}
  /\ ino' = [ino EXCEPT ![p] = Slot(f)]
  /\ itable' = [itable EXCEPT ![Slot(f)] =
                  IF Matches(f) # {} THEN [@ EXCEPT !.ref = @ + 1]
                  ELSE [@ EXCEPT !.inum = f, !.ref = 1, !.valid = FALSE]]

(* The inode after acquiresleep() in ilock(), which reads it if need be.   *)
Locked(ip, p) ==
  [ip EXCEPT !.lock = p, !.valid = TRUE,
             !.size = IF ip.valid THEN @ ELSE cached[ip.inum].size,
             !.data = IF ip.valid THEN @ ELSE cached[ip.inum].data]

(* ip->size after writei() of the unit at o.                               *)
SizeAfter(ip, o) == IF o = ip.size THEN o + 1 ELSE ip.size

(* The files after writei() of a unit through ip, iupdate() included; no   *)
(* change if o is past the end.                                            *)
Written(ip, o, u) ==
  IF o > ip.size THEN cached
  ELSE [cached EXCEPT ![ip.data].unit[o] = u,
                      ![ip.inum].size = SizeAfter(ip, o),
                      ![ip.inum].data = ip.data]

-----------------------------------------------------------------------------
(* kernel/kfile.c                                                          *)

FreeSlots == {s \in 1 .. NFILE : kftable[s].ref = 0}

(* kfilealloc(), and the test of f->ip that follows in store_trap() and    *)
(* sysrep(): when it is 0, begin_op() and kfilecreate() up to its ilock(). *)
(* (With no free slot kfilealloc() returns 0, and its callers fault.)      *)
kfilealloc(p, lock, go) ==
  /\ FreeSlots # {}
  /\ LET s == Min(FreeSlots)
     IN  /\ fd' = [fd EXCEPT ![p] = s]
         /\ kftable' = [kftable EXCEPT ![s].ref = 1]
         /\ IF kftable[s].ip = NULL
            THEN iget(p, "reports") /\ begin_op /\ Goto(p, lock)
            ELSE /\ Goto(p, go)
                 /\ UNCHANGED <<itable, outstanding, cached, disk, ino>>
  /\ UNCHANGED <<cnt, off>>

(* The inode that p's kernel file points to.                               *)
Ip(p) == kftable[fd[p]].ip

(* kfilewrite() of a unit at o, where kfileseek() has put the offset.      *)
kfilewrite(p, o, u) ==
  /\ Transaction(Written(itable[Ip(p)], o, u))
  /\ itable' = [itable EXCEPT ![Ip(p)].size = SizeAfter(itable[Ip(p)], o)]
  /\ UNCHANGED kftable

kfileclose(p) ==
  /\ kftable' = [kftable EXCEPT ![fd[p]].ref = 0]
  /\ Transaction(cached)
  /\ itable' = [itable EXCEPT ![Ip(p)].ref = @ - 1]     \* iput()

-----------------------------------------------------------------------------
(* log_trap() and store_trap()                                             *)

store_trap(p) ==
  /\ p \in Procs /\ Enter(p)
  /\ kfilealloc(p, "lock", "store")
  /\ UNCHANGED <<listVars, boots, result>>

(* kfilecreate() gets the inode's lock and returns with it.                *)
kfilecreate(p) ==
  /\ pc[p] = "lock" /\ itable[ino[p]].lock = NoOne
  /\ itable' = [itable EXCEPT ![ino[p]] = Locked(@, p)]
  /\ kftable' = [kftable EXCEPT ![fd[p]].ip = ino[p]]
  /\ end_op
  /\ Goto(p, "store")
  /\ UNCHANGED <<listVars, boots, locals, result>>

NextIndex(wi) == (wi + 1) % REPORT_BUFFER_SIZE

(* The critical section under _internal_report_list.lock.                  *)
store_list(p) ==
  /\ pc[p] = "store"
  /\ reports' = [reports EXCEPT ![write_index] = p]
  /\ count' = count + 1
  /\ write_index' = NextIndex(write_index)
  /\ cnt' = [cnt EXCEPT ![p] = count + 1]
  /\ Goto(p, "counter")
  /\ UNCHANGED <<fsVars, boots, fd, ino, off, result>>

store_counter(p) ==
  /\ pc[p] = "counter"
  /\ kfilewrite(p, 0, cnt[p])
  /\ Goto(p, "seek")
  /\ UNCHANGED <<listVars, boots, locals, result>>

(* Variant of EndOffset that stops at the last report.                      *)
EndOffset_Last(p) == IF itable[Ip(p)].size > 1 THEN itable[Ip(p)].size - 1 ELSE 1

(* kfileseek(f, 0, SEEK_END)                                               *)
EndOffset(p) == itable[Ip(p)].size

store_seek(p) ==
  /\ pc[p] = "seek"
  /\ Transaction(cached)
  /\ off' = [off EXCEPT ![p] = EndOffset(p)]
  /\ Goto(p, "report")
  /\ UNCHANGED <<kftable, itable, listVars, boots, fd, ino, cnt, result>>

store_report(p) ==
  /\ pc[p] = "report"
  /\ kfilewrite(p, off[p], p)
  /\ Goto(p, "close")
  /\ UNCHANGED <<listVars, boots, locals, result>>

(* kfileclose(), and the death of the process.                             *)
store_close(p) ==
  /\ pc[p] = "close"
  /\ kfileclose(p)
  /\ Return(p)
  /\ UNCHANGED <<listVars, boots, result>>

-----------------------------------------------------------------------------
(* sysrep()                                                                *)

sysrep(p) ==
  /\ p \in Readers /\ Enter(p)
  /\ kfilealloc(p, "s_lock", "s_count")
  /\ UNCHANGED <<listVars, boots, result>>

(* A new file: kfilecreate(), iunlockput(), end_op(), return, with the     *)
(* struct file still referenced.                                           *)
sysrep_create(p) ==
  /\ pc[p] = "s_lock" /\ itable[ino[p]].lock = NoOne
  /\ itable' = [itable EXCEPT ![ino[p]] =
                  [Locked(@, p) EXCEPT !.lock = NoOne, !.ref = @ - 1]]
  /\ kftable' = [kftable EXCEPT ![fd[p]].ip = ino[p]]
  /\ end_op
  /\ Return(p)
  /\ UNCHANGED <<listVars, boots, result>>

(* kfileseek() to the start and kfileread() of the counter; an empty file  *)
(* leaves the caller's count, 0, alone.                                    *)
sysrep_count(p) ==
  /\ pc[p] = "s_count"
  /\ Transaction(cached)
  /\ LET i == itable[Ip(p)]
     IN  /\ cnt' = [cnt EXCEPT ![p] = IF i.size = 0 THEN 0 ELSE cached[i.data].unit[0]]
         /\ off' = [off EXCEPT ![p] = IF i.size = 0 THEN 0 ELSE 1]
  /\ Goto(p, "s_seek")
  /\ UNCHANGED <<kftable, itable, listVars, boots, fd, ino, result>>

(* Variant of BackOffset that goes back one report less.                   *)
BackOffset_Short(p) == itable[Ip(p)].size - REPORT_BUFFER_SIZE + 1

(* f->ip->size - 10 * sizeof(struct report)                                *)
BackOffset(p) == itable[Ip(p)].size - REPORT_BUFFER_SIZE

(* kfileseek(f, -10 * sizeof(struct report), SEEK_END).  It fails when the *)
(* file has fewer reports, and then returns without end_op().              *)
sysrep_seek(p) ==
  /\ pc[p] = "s_seek"
  /\ \/ BackOffset(p) < 1 /\ begin_op /\ UNCHANGED off
     \/ /\ BackOffset(p) >= 1
        /\ Transaction(cached)
        /\ off' = [off EXCEPT ![p] = BackOffset(p)]
  /\ Goto(p, "s_read")
  /\ UNCHANGED <<kftable, itable, listVars, boots, fd, ino, cnt, result>>

(* The loop of kfileread()s.                                               *)
sysrep_read(p) ==
  /\ pc[p] = "s_read"
  /\ LET i == itable[Ip(p)]
         k == Min({REPORT_BUFFER_SIZE, cnt[p], i.size - off[p]})
     IN  result' = [result EXCEPT ![p] =
                      [j \in 1 .. k |-> cached[i.data].unit[off[p] + j - 1]]]
  /\ Goto(p, "s_close")
  /\ UNCHANGED <<fsVars, listVars, boots, locals>>

sysrep_close(p) ==
  /\ pc[p] = "s_close"
  /\ kfileclose(p)
  /\ Return(p)
  /\ result' = [result EXCEPT ![p] = <<>>]
  /\ UNCHANGED <<listVars, boots>>

-----------------------------------------------------------------------------
(* An ordinary open() and close() of a file.                               *)

open(p, f) ==
  /\ p \in Openers /\ Enter(p)
  /\ iget(p, f) /\ begin_op
  /\ Goto(p, "o_lock")
  /\ UNCHANGED <<kftable, listVars, boots, fd, cnt, off, result>>

open_lock(p) ==
  /\ pc[p] = "o_lock" /\ itable[ino[p]].lock = NoOne
  /\ itable' = [itable EXCEPT ![ino[p]] = [Locked(@, p) EXCEPT !.lock = NoOne]]
  /\ end_op
  /\ Goto(p, "open")
  /\ UNCHANGED <<kftable, listVars, boots, locals, result>>

close(p) ==
  /\ pc[p] = "open"
  /\ Transaction(cached)
  /\ itable' = [itable EXCEPT ![ino[p]].ref = @ - 1]
  /\ Goto(p, "user")
  /\ ino' = [ino EXCEPT ![p] = NULL]
  /\ UNCHANGED <<kftable, listVars, boots, fd, cnt, off, result>>

-----------------------------------------------------------------------------
(* Power failure and boot: the disk has what was committed, memory is new, *)
(* and the processes that had started their call are gone.                 *)
reboot ==
  /\ boots < MAXBOOT /\ boots' = boots + 1
  /\ kftable' = [s \in 1 .. NFILE |-> NewFile]
  /\ itable' = [i \in 1 .. NINODE |-> NewInode]
  /\ outstanding' = 0
  /\ cached' = disk
  /\ reports' = [j \in 0 .. REPORT_BUFFER_SIZE - 1 |-> NoOne]
  /\ count' = 0 /\ write_index' = 0
  /\ pc' = [p \in Actors |-> IF pc[p] = "user" \/ p \in Openers THEN "user" ELSE "dead"]
  /\ result' = [p \in Readers |-> <<>>]
  /\ fd' = [p \in Actors |-> 1] /\ ino' = [p \in Actors |-> NULL]
  /\ cnt' = [p \in Actors |-> 0] /\ off' = [p \in Actors |-> 0]
  /\ UNCHANGED disk

-----------------------------------------------------------------------------
Call(p) ==
  \/ kfilecreate(p) \/ store_list(p) \/ store_counter(p) \/ store_seek(p)
  \/ store_report(p) \/ store_close(p)
  \/ sysrep_create(p) \/ sysrep_count(p) \/ sysrep_seek(p) \/ sysrep_read(p)
  \/ sysrep_close(p) \/ open_lock(p) \/ close(p)

Next ==
  \/ \E p \in Actors :
       store_trap(p) \/ sysrep(p) \/ Call(p) \/ \E f \in Files : open(p, f)
  \/ reboot

Spec == Init /\ [][Next]_vars

(* A process inside one of these calls keeps running.                      *)
FairSpec == Spec /\ \A p \in Actors : WF_vars(Call(p))

-----------------------------------------------------------------------------
LastOf(s, k) == SubSeq(s, IF Len(s) > k THEN Len(s) - k + 1 ELSE 1, Len(s))

(* The reports in a file, oldest first.                                    *)
Stored(f) == [j \in 1 .. f.size - 1 |-> f.unit[j]]

(* The kernel files point to the one entry of the inode table that is of   *)
(* /reports.bin.  kfileclose() drops the entry's reference and leaves      *)
(* f->ip, which the next call uses again, so this stops holding when the   *)
(* entry is given to another file, or the file gets a second entry.        *)
OneInode ==
  \E i \in 1 .. NINODE :
    /\ \A j \in 1 .. NINODE : itable[j].inum = "reports" => j = i
    /\ \A s \in 1 .. NFILE : kftable[s].ip # NULL =>
         kftable[s].ip = i /\ itable[i].inum = "reports" /\ itable[i].valid

(* While OneInode holds, sysrep() returns the latest reports of the file,  *)
(* also when there are fewer than REPORT_BUFFER_SIZE and its kfileseek()   *)
(* fails, and whoever stores reports meanwhile.  It returns no more of     *)
(* them than the counter in the file says, which store_trap() takes from   *)
(* the list in memory: after a reboot, which restarts it, these are the    *)
(* first of the latest reports, not the newest.                            *)
SysrepShowsLatest ==
  \A p \in Readers :
    OneInode /\ pc[p] = "s_close" =>
      LET latest == LastOf(Stored(cached["reports"]), REPORT_BUFFER_SIZE)
      IN  /\ IsPrefix(result[p], latest)
          /\ cached["reports"].unit[0] >= Len(latest) => result[p] = latest

(* While OneInode holds, a report that is in the file stays there: reports *)
(* are appended, none is overwritten by the counter, by another report or  *)
(* by one that is stored at the same time.  A reboot keeps them too, if no *)
(* transaction is outstanding when the power fails; kfileseek() may have   *)
(* left one so for ever.                                                   *)
ReportsKept ==
  [][OneInode /\ (boots' = boots \/ outstanding = 0) =>
       IsPrefix(Stored(cached["reports"]), Stored(cached'["reports"]))]_vars

(* "Handles file reading and writing from kernel space without causing     *)
(* deadlocks." (README.md:77): a crashing process gets done.               *)
StoreReturns == \A p \in Procs : pc[p] = "lock" ~> pc[p] = "dead"
=============================================================================
