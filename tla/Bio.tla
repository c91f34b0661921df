-------------------------------- MODULE Bio ---------------------------------
(***************************************************************************)
(* The buffer cache (kernel/bio.c), its sleep locks (kernel/sleeplock.c)   *)
(* and the disk driver (kernel/virtio_disk.c) with the device behind it.   *)
(*                                                                         *)
(* A step is a critical section of bcache.lock, of a sleep lock's spin     *)
(* lock or of vdisk_lock.  A client writes a buffer that it changed before *)
(* it releases it; buffers that log.c pins instead are in module Log.  A   *)
(* process that kill() wakes tests its condition again.                    *)
(***************************************************************************)
EXTENDS Integers, Sequences, FiniteSets, SequencesExt

CONSTANTS BioProcs,  \* processes
          Blocks,    \* disk blocks
          Vals,      \* contents of a block
          NBUF,      \* buffers in the cache
          NUM,       \* descriptors, and slots of each ring
          IDX,       \* ring indices count modulo this (2^16 in the code)
          START,     \* ring indices at the start: requests made since boot
          MAXIO,     \* bound on calls of bread(), kills and changes of a buffer,
          WIDE,      \*   where a call counts as so many when two others are going on
          None       \* no block, no process, no request

Bufs  == 1 .. NBUF
Descs == 0 .. NUM - 1

(* The ring index wraps on a multiple of the ring's size; with a buffer    *)
(* for each process bget() never panics.                                   *)
ASSUME BioAssumption ==
  /\ NUM \in Nat /\ NUM >= 3 /\ IDX \in Nat \ {0} /\ IDX % NUM = 0 /\ START \in 0 .. IDX - 1
  /\ NBUF >= Cardinality(BioProcs) /\ MAXIO \in Nat /\ WIDE \in Nat \ {0}

VARIABLES
  buf,       \* struct buf: blockno, valid, refcnt, locked (its holder), disk, data
  lru,       \* the list from bcache.head: most recently used first
  diskfree,  \* disk.free[]: the free descriptors
  req,       \* ops[], desc[] and info[] of the chain that starts here
  avail,     \* the avail ring and its index
  used,      \* the used ring and its index
  used_idx,  \* how far the driver has read the used ring
  diskintr,  \* virtio_disk_intr() runs and holds vdisk_lock
  diskirq,   \* the device's interrupt is pending
  taken,     \* the device: how far it has read the avail ring
  serving,   \* the device: chains it is working on
  platter,   \* the blocks on the disk
  bpc, b, idx, write,    \* per process: where it is, its buffer, chain and direction
  content,   \* what the clients last put in each block
  dirty,     \* buffers changed since their last write
  ios

cacheVars  == <<buf, lru>>
driverVars == <<diskfree, req, avail>>
intrVars   == <<used_idx, diskintr>>
deviceVars == <<used, diskirq, taken, serving, platter>>
procVars   == <<bpc, b, idx, write>>
clientVars == <<content, dirty>>
bioVars == <<cacheVars, driverVars, intrVars, deviceVars, procVars, clientVars, ios>>

EmptyRing == [ring |-> [i \in Descs |-> 0], idx |-> START]

Blank == CHOOSE v \in Vals : TRUE

(* binit() and virtio_disk_init(); binit() puts each buffer in front.  One *)
(* block differs from the others, so that contents can be told apart.      *)
BioInit ==
  /\ \E n \in Blocks, v \in Vals \ {Blank} :
       /\ platter = [[m \in Blocks |-> Blank] EXCEPT ![n] = v]
       /\ buf = [k \in Bufs |-> [blockno |-> None, valid |-> FALSE, refcnt |-> 0,
                                 locked |-> None, disk |-> FALSE, data |-> Blank]]
  /\ content = platter
  /\ lru = [i \in Bufs |-> NBUF + 1 - i]
  /\ diskfree = Descs
  /\ req = [d \in Descs |-> None]
  /\ avail = EmptyRing /\ used = EmptyRing /\ used_idx = START
  /\ diskintr = FALSE /\ diskirq = FALSE /\ taken = START /\ serving = {}
  /\ bpc = [p \in BioProcs |-> "idle"]
  /\ b = [p \in BioProcs |-> 0]
  /\ idx = [p \in BioProcs |-> 0]
  /\ write = [p \in BioProcs |-> FALSE]
  /\ dirty = {} /\ ios = 0

goto(p, l) == bpc' = [bpc EXCEPT ![p] = l]
-----------------------------------------------------------------------------
(* bio.c                                                                   *)

Hits(n) == {k \in Bufs : buf[k].blockno = n}

(* Variant of Recycled that leaves the buffer valid. *)
Recycled_Valid(k, n) == [buf[k] EXCEPT !.blockno = n, !.refcnt = 1]

Recycled(k, n) == [buf[k] EXCEPT !.blockno = n, !.refcnt = 1, !.valid = FALSE]

(* The last buffer in the list that nobody uses. *)
Victim == lru[CHOOSE i \in Bufs : /\ buf[lru[i]].refcnt = 0
                                  /\ \A j \in Bufs : j > i => buf[lru[j]].refcnt # 0]

Cost == IF Cardinality({q \in BioProcs : bpc[q] # "idle"}) < 2 THEN 1 ELSE WIDE

(* bread(), up to the sleep lock: the two scans of bget(). *)
bget(p, n) ==
  /\ bpc[p] = "idle" /\ ios + Cost <= MAXIO
  /\ \/ \E k \in Hits(n) :
          /\ buf' = [buf EXCEPT ![k].refcnt = @ + 1]
          /\ b' = [b EXCEPT ![p] = k]
     \/ /\ Hits(n) = {}
        /\ buf' = [buf EXCEPT ![Victim] = Recycled(Victim, n)]
        /\ b' = [b EXCEPT ![p] = Victim]
  /\ ios' = ios + Cost
  /\ goto(p, "lock")
  /\ UNCHANGED <<lru, driverVars, intrVars, deviceVars, idx, write, clientVars>>

(* acquiresleep(), and the test of b->valid in bread(). *)
acquiresleep(p) ==
  /\ bpc[p] = "lock"
  /\ \/ /\ buf[b[p]].locked # None
        /\ goto(p, "locksleep")
        /\ UNCHANGED buf
     \/ /\ buf[b[p]].locked = None
        /\ buf' = [buf EXCEPT ![b[p]].locked = p]
        /\ goto(p, IF buf[b[p]].valid THEN "have" ELSE "submit")
  /\ UNCHANGED <<lru, driverVars, intrVars, deviceVars, b, idx, write, clientVars, ios>>

(* A client changes the data of a buffer it holds. *)
change(p, v) ==
  /\ bpc[p] = "have" /\ ios < MAXIO
  /\ buf[b[p]].data # v
  /\ buf' = [buf EXCEPT ![b[p]].data = v]
  /\ content' = [content EXCEPT ![buf[b[p]].blockno] = v]
  /\ dirty' = dirty \cup {b[p]}
  /\ ios' = ios + 1
  /\ UNCHANGED <<lru, driverVars, intrVars, deviceVars, procVars>>

bwrite(p) ==
  /\ bpc[p] = "have" /\ b[p] \in dirty
  /\ write' = [write EXCEPT ![p] = TRUE]
  /\ goto(p, "submit")
  /\ UNCHANGED <<cacheVars, driverVars, intrVars, deviceVars, b, idx, clientVars, ios>>

LockWaiters(k) == {q \in BioProcs : bpc[q] = "locksleep" /\ b[q] = k}

(* brelse() up to releasesleep(), which wakes every process that waits. *)
brelse(p) ==
  /\ bpc[p] = "have" /\ b[p] \notin dirty
  /\ buf' = [buf EXCEPT ![b[p]].locked = None]
  /\ bpc' = [q \in BioProcs |-> IF q = p THEN "unref"
                            ELSE IF q \in LockWaiters(b[p]) THEN "lock" ELSE bpc[q]]
  /\ UNCHANGED <<lru, driverVars, intrVars, deviceVars, b, idx, write, clientVars, ios>>

(* The rest of brelse(): the last user moves the buffer to the front. *)
unref(p) ==
  /\ bpc[p] = "unref"
  /\ buf' = [buf EXCEPT ![b[p]].refcnt = @ - 1]
  /\ lru' = IF buf[b[p]].refcnt = 1 THEN <<b[p]>> \o Remove(lru, b[p]) ELSE lru
  /\ b' = [b EXCEPT ![p] = 0]
  /\ goto(p, "idle")
  /\ UNCHANGED <<driverVars, intrVars, deviceVars, idx, write, clientVars, ios>>
-----------------------------------------------------------------------------
(* virtio_disk.c: the driver                                               *)

(* Every wakeup() of a process that waits for descriptors. *)
WakeDescWaiters == [q \in BioProcs |-> IF bpc[q] = "descsleep" THEN "submit" ELSE bpc[q]]

(* alloc3_desc() takes the lowest free descriptors. *)
Lowest3 == CHOOSE s \in SUBSET diskfree :
             Cardinality(s) = 3 /\ \A i \in s, j \in diskfree \ s : i < j

ChainHead(s) == CHOOSE i \in s : \A j \in s : i <= j

(* alloc3_desc() finds too few: it frees those it took, which wakes the    *)
(* others, and the process sleeps.                                         *)
allocFail(p) ==
  /\ bpc[p] = "submit" /\ ~diskintr
  /\ Cardinality(diskfree) < 3
  /\ bpc' = [(IF diskfree = {} THEN bpc ELSE WakeDescWaiters) EXCEPT ![p] = "descsleep"]
  /\ UNCHANGED <<cacheVars, driverVars, intrVars, deviceVars, b, idx, write, clientVars, ios>>

(* virtio_disk_rw(), up to the sleep for the interrupt. *)
submit(p) ==
  /\ bpc[p] = "submit" /\ ~diskintr
  /\ Cardinality(diskfree) >= 3
  /\ LET s == Lowest3 h == ChainHead(s) IN
       /\ diskfree' = diskfree \ s
       /\ req' = [req EXCEPT ![h] = [descs |-> s, buf |-> b[p], write |-> write[p],
                                     sector |-> buf[b[p]].blockno]]
       /\ idx' = [idx EXCEPT ![p] = h]
       /\ avail' = [ring |-> [avail.ring EXCEPT ![avail.idx % NUM] = h],
                    idx |-> (avail.idx + 1) % IDX]
  /\ buf' = [buf EXCEPT ![b[p]].disk = TRUE]
  /\ goto(p, "disksleep")
  /\ UNCHANGED <<lru, intrVars, deviceVars, b, write, clientVars, ios>>

DiskDone(k) == ~buf[k].disk

FreedChain(h) == req[h].descs

(* A woken process sleeps again, or frees its chain and returns; bread()   *)
(* then marks the buffer valid.                                            *)
rwAgain(p) ==
  /\ bpc[p] = "diskwoken" /\ ~diskintr
  /\ ~DiskDone(b[p])
  /\ goto(p, "disksleep")
  /\ UNCHANGED <<cacheVars, driverVars, intrVars, deviceVars, b, idx, write, clientVars, ios>>

rwDone(p) ==
  /\ bpc[p] = "diskwoken" /\ ~diskintr
  /\ DiskDone(b[p])
  /\ diskfree' = diskfree \cup FreedChain(idx[p])
  /\ req' = [req EXCEPT ![idx[p]] = None]
  /\ buf' = [buf EXCEPT ![b[p]].valid = TRUE]
  /\ dirty' = IF write[p] THEN dirty \ {b[p]} ELSE dirty
  /\ bpc' = [WakeDescWaiters EXCEPT ![p] = "have"]
  /\ idx' = [idx EXCEPT ![p] = 0]
  /\ write' = [write EXCEPT ![p] = FALSE]
  /\ UNCHANGED <<lru, avail, intrVars, deviceVars, b, content, ios>>

(* virtio_disk_intr(): acknowledge, one turn of the loop, and the end. *)
intrAck ==
  /\ diskirq /\ ~diskintr
  /\ diskintr' = TRUE /\ diskirq' = FALSE
  /\ UNCHANGED <<cacheVars, driverVars, used_idx, used, taken, serving, platter,
                 procVars, clientVars, ios>>

intrOne ==
  /\ diskintr /\ used_idx # used.idx
  /\ LET k == req[used.ring[used_idx % NUM]].buf IN
       /\ buf' = [buf EXCEPT ![k].disk = FALSE]
       /\ bpc' = [q \in BioProcs |-> IF bpc[q] = "disksleep" /\ b[q] = k THEN "diskwoken" ELSE bpc[q]]
  /\ used_idx' = (used_idx + 1) % IDX
  /\ UNCHANGED <<lru, driverVars, diskintr, deviceVars, b, idx, write, clientVars, ios>>

(* Variant of NoMore that handles one completion for each interrupt. *)
NoMore_One == TRUE

NoMore == used_idx = used.idx

intrDone ==
  /\ diskintr /\ NoMore
  /\ diskintr' = FALSE
  /\ UNCHANGED <<cacheVars, driverVars, used_idx, deviceVars, procVars, clientVars, ios>>
-----------------------------------------------------------------------------
(* The device, as virtio_disk.c relies on it: it takes chains from the     *)
(* avail ring in order, serves them in any order, and interrupts.          *)
deviceTake ==
  /\ taken # avail.idx
  /\ serving' = serving \cup {avail.ring[taken % NUM]}
  /\ taken' = (taken + 1) % IDX
  /\ UNCHANGED <<cacheVars, driverVars, intrVars, used, diskirq, platter, procVars, clientVars, ios>>

deviceServe(h) ==
  /\ h \in serving
  /\ IF req[h].write
     THEN /\ platter' = [platter EXCEPT ![req[h].sector] = buf[req[h].buf].data]
          /\ UNCHANGED buf
     ELSE /\ buf' = [buf EXCEPT ![req[h].buf].data = platter[req[h].sector]]
          /\ UNCHANGED platter
  /\ serving' = serving \ {h}
  /\ used' = [ring |-> [used.ring EXCEPT ![used.idx % NUM] = h],
              idx |-> (used.idx + 1) % IDX]
  /\ diskirq' = TRUE
  /\ UNCHANGED <<lru, driverVars, intrVars, taken, procVars, clientVars, ios>>

(* kill() wakes a process out of any sleep. *)
killClient(p) ==
  /\ bpc[p] \in {"locksleep", "descsleep", "disksleep"} /\ ios < MAXIO
  /\ goto(p, CASE bpc[p] = "locksleep" -> "lock" [] bpc[p] = "descsleep" -> "submit"
               [] OTHER -> "diskwoken")
  /\ ios' = ios + 1
  /\ UNCHANGED <<cacheVars, driverVars, intrVars, deviceVars, b, idx, write, clientVars>>

(* The bound on calls is used up and all is quiet. *)
Terminated ==
  /\ ios = MAXIO /\ \A p \in BioProcs : bpc[p] = "idle"
  /\ ~diskirq /\ ~diskintr
  /\ UNCHANGED bioVars

Driver(p) == acquiresleep(p) \/ allocFail(p) \/ submit(p) \/ rwAgain(p) \/ rwDone(p) \/ unref(p)

Client(p) ==
  \/ \E n \in Blocks : bget(p, n)
  \/ \E v \in Vals : change(p, v)
  \/ bwrite(p) \/ brelse(p) \/ killClient(p)

Interrupt == intrAck \/ intrOne \/ intrDone

Device == deviceTake \/ \E h \in Descs : deviceServe(h)

BioNext == (\E p \in BioProcs : Driver(p) \/ Client(p)) \/ Interrupt \/ Device \/ Terminated

BioSpec == BioInit /\ [][BioNext]_bioVars
-----------------------------------------------------------------------------
(* The chains in the slots of ring r from index i up to its own index.     *)
Unread(r, i) == {r.ring[(i + n) % NUM] : n \in 0 .. (((r.idx - i) % IDX) - 1)}

(* What bread() returns is what the last holder of that block left in it,  *)
(* whether it is still cached or was recycled in between; and the disk     *)
(* holds it when no valid buffer does.                                     *)
ReadsLatest ==
  /\ \A p \in BioProcs : bpc[p] = "have" => buf[b[p]].data = content[buf[b[p]].blockno]
  /\ \A n \in Blocks : (\A k \in Bufs : ~(buf[k].blockno = n /\ buf[k].valid)) =>
                          platter[n] = content[n]

(* Nobody sleeps in vain.  The lock a process sleeps on is held; if it     *)
(* sleeps for descriptors there are too few; if it sleeps for the disk its *)
(* chain is still on its way through the rings, and what the device put in *)
(* the used ring has an interrupt, pending or running, that will read it.  *)
SleepHasReason ==
  /\ used_idx # used.idx => diskirq \/ diskintr
  /\ \A p \in BioProcs :
       /\ bpc[p] = "locksleep" => buf[b[p]].locked # None
       /\ bpc[p] = "descsleep" => Cardinality(diskfree) < 3
       /\ bpc[p] = "disksleep" =>
            idx[p] \in Unread(avail, taken) \cup serving \cup Unread(used, used_idx)
=============================================================================
