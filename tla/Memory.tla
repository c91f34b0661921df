------------------------------- MODULE Memory -------------------------------
(***************************************************************************)
(* Physical pages (kernel/kalloc.c), page tables (kernel/vm.c) and the     *)
(* calls that build, grow, copy and drop an address space: fork, sbrk,     *)
(* exec (kernel/exec.c) and freeproc.                                      *)
(*                                                                         *)
(* Page tables are private to the process a call works for, so that a call *)
(* meets the others only in kalloc(): it is one step that finds k pages,   *)
(* because other CPUs hold the rest, and any of its allocations may be the *)
(* first to fail.  Addresses count units of which a page has PGSIZE.       *)
(***************************************************************************)
EXTENDS Integers, Sequences, FiniteSets, FiniteSetsExt, SequencesExt, TLC

CONSTANTS Tasks,      \* slots of the process table
          FirstTask,  \* the one userinit() fills
          NFRAMES,    \* pages of physical memory
          PGSIZE,     \* units in a page
          SPAN,       \* pages under one level-0 table (512)
          MAXVA,      \* pages of virtual memory (2^26)
          WRAP,       \* addresses count modulo this (2^64)
          Programs,   \* files for exec(): sequences of segments
          MAXSZ,      \* bound on the size of a process, in pages
          MAXK,       \* more pages than a call needs
          MAXMEMOPS   \* bound on calls

TRAMPOLINE == MAXVA - 1
TRAPFRAME  == MAXVA - 2
Untabled   == [node |-> <<>>, leaf |-> <<>>]

VARIABLES
  freelist,   \* how often each page is on kmem.freelist; the order makes no difference
  mem,        \* contents of the physical pages
  task,       \* per slot: in use, trapframe, pagetable, sz
  copied,     \* the last copyinstr(): its arguments and its result
  panicked,   \* one of the panics in vm.c was reached
  memops

memoryVars == <<freelist, mem, task, copied, panicked, memops>>

Filled(v)  == [i \in 0 .. PGSIZE - 1 |-> v]
PGROUNDUP(sz) == (sz + PGSIZE - 1) \div PGSIZE    \* in pages
Without(f, x) == [y \in DOMAIN f \ {x} |-> f[y]]
-----------------------------------------------------------------------------
(* A call in progress: the memory it sees, the page table it works on, how *)
(* many pages kalloc() still finds, the page it got last, and whether all  *)
(* went well so far.                                                       *)
Machine(k, table) ==
  [list |-> freelist, mem |-> mem, left |-> k, page |-> 0, pt |-> table, sz |-> 0,
   ok |-> TRUE, at |-> 0, panic |-> panicked]

Fail(m) == [m EXCEPT !.ok = FALSE]

(* Go on unless the call has failed; clean up if it has. *)
Then(m, Op(_)) == IF m.ok THEN Op(m) ELSE m
Else(m, Op(_)) == IF m.ok THEN m ELSE Op(m)

OnList(m) == {f \in 1 .. NFRAMES : m.list[f] > 0}

kalloc(m) ==
  IF m.left = 0 \/ OnList(m) = {} THEN Fail(m)
  ELSE LET pa == CHOOSE f \in OnList(m) : \A g \in OnList(m) : f <= g IN
         [m EXCEPT !.list[pa] = @ - 1, !.left = @ - 1, !.page = pa, !.mem[pa] = Filled(5)]

kfree(m, pa) ==
  [m EXCEPT !.list[pa] = @ + 1, !.left = @ + 1, !.mem[pa] = Filled(1)]

(* walk() with alloc: one level, then the other. *)
Descend(m, node) ==
  IF ~m.ok \/ node \in DOMAIN m.pt.node THEN m
  ELSE Then(kalloc(m), LAMBDA k : [k EXCEPT !.pt.node = @ @@ (node :> k.page),
                                            !.mem[k.page] = Filled(0)])

Level1(va) == <<1, IF va >= TRAPFRAME THEN 1 ELSE 0>>
Level0(va) == <<0, va \div SPAN>>
walk(m, va) == Descend(Descend(m, Level1(va)), Level0(va))

mappages(m, va, pa, u, w) ==
  Then(walk(m, va), LAMBDA s : [s EXCEPT !.pt.leaf = (va :> [pa |-> pa, u |-> u, w |-> w]) @@ @,
                                         !.panic = @ \/ va \in DOMAIN s.pt.leaf])

UnmapOne(m, va, free) ==
  IF va \notin DOMAIN m.pt.leaf THEN [m EXCEPT !.panic = TRUE]
  ELSE LET cut == [m EXCEPT !.pt.leaf = Without(@, va)]
       IN  IF free THEN kfree(cut, m.pt.leaf[va].pa) ELSE cut

(* The pages from first up to, and without, end. *)
uvmunmap(m, first, end, free) ==
  FoldLeft(LAMBDA s, i : UnmapOne(s, first + i - 1, free), m, [i \in 1 .. end - first |-> i])

FirstDropped(newsz) == PGROUNDUP(newsz)

uvmdealloc(m, oldsz, newsz) ==
  IF newsz >= oldsz THEN m ELSE uvmunmap(m, FirstDropped(newsz), PGROUNDUP(oldsz), TRUE)

(* Map a fresh page at m.at, or give the page back. *)
MapFresh(m, contents, u, w) ==
  LET Mapped(k) == mappages([k EXCEPT !.mem[k.page] = contents], k.at, k.page, u, w)
      Advance(s) == [s EXCEPT !.at = @ + 1]
  IN  Then(m, LAMBDA a : Then(kalloc(a), LAMBDA k :
        Then(Else(Mapped(k), LAMBDA s : kfree(s, k.page)), Advance)))

(* Variant of Undo that forgets the first page. *)
Undo_Short(m, first) == IF m.ok THEN m ELSE uvmunmap(m, first + 1, m.at, TRUE)

(* A call that failed unmaps and frees the pages it mapped. *)
Undo(m, first) == IF m.ok THEN m ELSE uvmunmap(m, first, m.at, TRUE)

uvmalloc(m, oldsz, newsz, w) ==
  LET first == PGROUNDUP(oldsz) IN
    IF newsz < oldsz THEN m
    ELSE Undo(FoldLeft(LAMBDA s, i : MapFresh(s, Filled(0), TRUE, w), [m EXCEPT !.at = first],
                       [i \in 1 .. PGROUNDUP(newsz) - first |-> i]),
              first)

(* Variant of CopyOf that copies nothing. *)
CopyOf_Junk(m, pa) == Filled(5)

CopyOf(m, pa) == m.mem[pa]

uvmcopy(m, old, sz) ==
  LET one(s, i) == LET pte == old.leaf[i - 1] IN MapFresh(s, CopyOf(s, pte.pa), pte.u, pte.w)
      bad == \E i \in 0 .. PGROUNDUP(sz) - 1 : i \notin DOMAIN old.leaf
  IN  IF bad THEN [m EXCEPT !.panic = TRUE]
      ELSE Undo(FoldLeft(one, [m EXCEPT !.at = 0], [i \in 1 .. PGROUNDUP(sz) |-> i]), 0)

freewalk(m) ==
  LET freed == FoldSet(LAMBDA n, s : kfree(s, m.pt.node[n]), m, DOMAIN m.pt.node)
  IN  [freed EXCEPT !.pt = Untabled, !.panic = @ \/ DOMAIN m.pt.leaf # {}]

uvmfree(m, sz) == freewalk(uvmunmap(m, 0, PGROUNDUP(sz), TRUE))

(* proc_pagetable(): the root, the trampoline, the trapframe; what was     *)
(* made is freed when one of them fails.                                   *)
proc_pagetable(m, trapframe) ==
  LET Code(root) == Else(mappages(root, TRAMPOLINE, 0, FALSE, FALSE), freewalk)
      Frame(code) == Else(mappages(code, TRAPFRAME, trapframe, FALSE, TRUE),
                          LAMBDA n : freewalk(uvmunmap(n, TRAMPOLINE, TRAMPOLINE + 1, FALSE)))
  IN  Then(Then(Descend([m EXCEPT !.pt = Untabled], <<2, 0>>), Code), Frame)

proc_freepagetable(m, sz) == uvmfree(uvmunmap(m, TRAPFRAME, TRAMPOLINE + 1, FALSE), sz)

(* The memory that allocproc() gets; the trapframe is the page it returns. *)
allocproc(m) ==
  LET Table(tf) == [Else(proc_pagetable(tf, tf.page), LAMBDA n : kfree(n, tf.page))
                      EXCEPT !.page = tf.page]
  IN  Then(kalloc(m), Table)

freeproc_memory(m, trapframe, sz) == proc_freepagetable(kfree(m, trapframe), sz)
-----------------------------------------------------------------------------
Unused == [used |-> FALSE, trapframe |-> 0, pt |-> Untabled, sz |-> 0]

(* kinit() and userinit(), with one page that holds initcode. *)
MemoryInit ==
  LET start == [list |-> [f \in 1 .. NFRAMES |-> 1], mem |-> [f \in 1 .. NFRAMES |-> Filled(1)],
                left |-> NFRAMES, page |-> 0, pt |-> Untabled, sz |-> 0,
                ok |-> TRUE, at |-> 0, panic |-> FALSE]
      new == allocproc(start)
      first == MapFresh(new, Filled(2), TRUE, TRUE)
  IN  /\ freelist = first.list /\ mem = first.mem
      /\ task = [t \in Tasks |-> IF t # FirstTask THEN Unused
                                 ELSE [used |-> TRUE, trapframe |-> new.page, pt |-> first.pt,
                                       sz |-> PGSIZE]]
      /\ copied = <<>> /\ panicked = FALSE /\ memops = 0

(* What a call leaves: the free list, the memory, and whether it panicked. *)
Commit(m) == freelist' = m.list /\ mem' = m.mem /\ panicked' = m.panic

(* Nothing is asked after a copyin(), which changes nothing. *)
Call == memops < MAXMEMOPS /\ memops' = memops + 1 /\ copied = <<>>

(* fork_core(): np->sz is still 0 when uvmcopy() fails. *)
forkMemory(p, c, k) ==
  /\ task[p].used /\ ~task[c].used /\ Call
  /\ \E new \in {allocproc(Machine(k, Untabled))} :
       \E all \in {Then(new, LAMBDA n : Else(uvmcopy(n, task[p].pt, task[p].sz),
                                             LAMBDA f : freeproc_memory(f, n.page, 0)))} :
         /\ Commit(all)
         /\ task' = IF ~all.ok THEN task
                    ELSE [task EXCEPT ![c] = [used |-> TRUE, trapframe |-> new.page,
                                              pt |-> all.pt, sz |-> task[p].sz]]
  /\ copied' = <<>>

(* growproc(); a negative n larger than the process wraps around. *)
growproc(p, n, k) ==
  /\ task[p].used /\ Call
  /\ LET sz == task[p].sz
         to == (sz + n) % WRAP
         m0 == Machine(k, task[p].pt)
     IN  /\ n > 0 => to <= MAXSZ * PGSIZE
         /\ \E m \in {IF n > 0 THEN uvmalloc(m0, sz, to, TRUE) ELSE uvmdealloc(m0, sz, to)} :
              /\ Commit(m)
              /\ task' = [task EXCEPT ![p].pt = m.pt,
                                      ![p].sz = IF ~m.ok \/ (n < 0 /\ to >= sz) THEN sz ELSE to]
  /\ copied' = <<>>

(* wait() frees a child that has exited. *)
freeTask(p) ==
  /\ task[p].used /\ p # FirstTask /\ Call
  /\ Commit(freeproc_memory(Machine(0, task[p].pt), task[p].trapframe, task[p].sz))
  /\ task' = [task EXCEPT ![p] = Unused]
  /\ copied' = <<>>
-----------------------------------------------------------------------------
(* copyout(): page by page until one is not the user's to write.           *)
Writable(pt, va) == va \in DOMAIN pt.leaf /\ pt.leaf[va].u /\ pt.leaf[va].w

(* The addresses that are written. *)
Prefix(pt, addr, len) ==
  {a \in addr .. addr + len - 1 :
     \A b \in addr .. a : Writable(pt, b \div PGSIZE)}

Stored(m, addrs, v) ==
  FoldSet(LAMBDA a, s : [s EXCEPT !.mem[s.pt.leaf[a \div PGSIZE].pa][a % PGSIZE] = v], m, addrs)

copyout(m, addr, len, v) ==
  LET done == Prefix(m.pt, addr, len)
      s == Stored(m, done, v)
  IN  IF Cardinality(done) = len THEN s ELSE Fail(s)

(* A system call stores len units at addr for p, as a user store would. *)
store(p, addr, len, v) ==
  /\ task[p].used /\ Call
  /\ Commit(copyout(Machine(0, task[p].pt), addr, len, v))
  /\ copied' = <<>> /\ UNCHANGED task

(* What copyin() and copyinstr() can read at an address. *)
walkaddr(pt, addr) ==
  LET va == addr \div PGSIZE IN va < MAXVA /\ va \in DOMAIN pt.leaf /\ pt.leaf[va].u

Unit(pt, addr) == mem[pt.leaf[addr \div PGSIZE].pa][addr % PGSIZE]

(* Variant of ChunkSize that ignores where in its page srcva is. *)
ChunkSize_Page(srcva, max) == IF PGSIZE > max THEN max ELSE PGSIZE

(* How much of the page of srcva is wanted. *)
ChunkSize(srcva, max) ==
  LET n == PGSIZE - (srcva % PGSIZE) IN IF n > max THEN max ELSE n

(* One turn of the outer loop: s has srcva, max, dst, got_null and ret,    *)
(* which is 1 until the call returns.  copyin() does not look for the 0.   *)
CopyPage(pt, s, str) ==
  IF s.ret # 1 THEN s
  ELSE IF s.got_null \/ s.max = 0 THEN [s EXCEPT !.ret = IF str /\ ~s.got_null THEN -1 ELSE 0]
  ELSE IF ~walkaddr(pt, s.srcva) THEN [s EXCEPT !.ret = -1]
  ELSE LET n == ChunkSize(s.srcva, s.max)
           chunk == [i \in 1 .. n |-> Unit(pt, (s.srcva \div PGSIZE) * PGSIZE
                                               + ((s.srcva + i - 1) % PGSIZE))]
           ends == {i \in 1 .. n : str /\ chunk[i] = 0}
           upto == IF ends = {} THEN n ELSE (CHOOSE i \in ends : \A j \in ends : i <= j) - 1
       IN  [s EXCEPT !.dst = @ \o SubSeq(chunk, 1, upto), !.got_null = ends # {},
                     !.max = @ - upto, !.srcva = (s.srcva \div PGSIZE + 1) * PGSIZE]

(* copyin() and copyinstr() of max units from srcva. *)
copyin(p, srcva, max, str) ==
  /\ task[p].used /\ Call
  /\ copied' = [from |-> p, srcva |-> srcva, max |-> max, str |-> str, end |->
       FoldLeft(LAMBDA s, i : CopyPage(task[p].pt, s, str),
                [srcva |-> srcva, max |-> max, dst |-> <<>>, got_null |-> FALSE, ret |-> 1],
                [i \in 1 .. max + 2 |-> i])]
  /\ UNCHANGED <<freelist, mem, task, panicked>>
-----------------------------------------------------------------------------
(* exec.c                                                                  *)

(* loadseg(): the file's part of a segment; the file may be too short. *)
loadseg(m, seg) ==
  LET addrs == seg.vaddr * PGSIZE .. seg.vaddr * PGSIZE + seg.filesz - 1
      s == [m EXCEPT !.panic = @ \/ \E a \in addrs : ~walkaddr(m.pt, a)]
  IN  IF s.panic THEN s
      ELSE IF seg.file = "short" THEN Fail(s) ELSE Stored(s, addrs, seg.data)

(* One program header; a header that is not acceptable ends the call. *)
LoadHeader(m, seg) ==
  LET to == seg.vaddr * PGSIZE + seg.memsz
      newsz == IF to < m.sz THEN m.sz ELSE to
      Load(g) == IF newsz = 0 THEN Fail(g) ELSE loadseg([g EXCEPT !.sz = newsz], seg)
  IN  IF ~m.ok THEN m
      ELSE IF seg.file = "refused" \/ seg.memsz < seg.filesz THEN Fail(m)
      ELSE Then(uvmalloc(m, m.sz, to, seg.w), Load)

(* The stack: a guard page without PTE_U below one page. *)
AddStack(m) ==
  LET guard == PGROUNDUP(m.sz)
      Cleared(g) == [g EXCEPT !.sz = (guard + 2) * PGSIZE, !.pt.leaf[guard].u = FALSE]
  IN  IF ~m.ok THEN m
      ELSE Then(uvmalloc([m EXCEPT !.sz = guard * PGSIZE], guard * PGSIZE, (guard + 2) * PGSIZE, TRUE),
                Cleared)

(* argc strings of one unit, and the array of pointers. *)
PushArguments(m, argc) ==
  IF ~m.ok THEN m
  ELSE IF argc + 1 > PGSIZE THEN Fail(m)
  ELSE Then(copyout(m, m.sz - argc, argc, 3), LAMBDA s : copyout(s, m.sz - argc - 1, 1, 4))

(* The image of a process changes all at once, or the new one is freed. *)
exec(p, prog, argc, k) ==
  /\ task[p].used /\ Call
  /\ LET Load(new) == Else(PushArguments(AddStack(FoldLeft(LoadHeader, new, prog)), argc),
                           LAMBDA bad : proc_freepagetable(bad, bad.sz))
     IN  \E all \in {Then(proc_pagetable(Machine(k, Untabled), task[p].trapframe), Load)} :
           IF ~all.ok THEN Commit(all) /\ UNCHANGED task
           ELSE /\ Commit(proc_freepagetable([all EXCEPT !.pt = task[p].pt], task[p].sz))
                /\ task' = [task EXCEPT ![p].pt = all.pt, ![p].sz = all.sz]
  /\ copied' = <<>>

Addresses == 0 .. (MAXSZ + 1) * PGSIZE - 1

MemoryCall(p) ==
  \/ \E k \in 0 .. MAXK :
       \/ \E c \in Tasks : forkMemory(p, c, k)
       \/ \E n \in 1 .. PGSIZE + 1 : growproc(p, n, k)
       \/ \E prog \in Programs, argc \in 1 .. PGSIZE : exec(p, prog, argc, k)
  \/ \E n \in 1 .. PGSIZE + 1 : growproc(p, -n, 0)
  \/ freeTask(p)
  \/ \E addr \in Addresses, len \in 1 .. PGSIZE : store(p, addr, len, 6)
  \/ \E addr \in Addresses, max \in 0 .. PGSIZE + 1, str \in BOOLEAN : copyin(p, addr, max, str)

MemoryNext == \E p \in Tasks : MemoryCall(p)

MemorySpec == MemoryInit /\ [][MemoryNext]_memoryVars
-----------------------------------------------------------------------------
(* The pages a process owns, each with the place that refers to it: levels *)
(* 2 to 0 of the page table, 3 for its entries, 4 for the trapframe.       *)
Owned(t) ==
  LET pt == task[t].pt IN
    {<<t, <<4, 0>>, task[t].trapframe>>}
      \cup {<<t, n, pt.node[n]>> : n \in DOMAIN pt.node}
      \cup {<<t, <<3, va>>, pt.leaf[va].pa>> : va \in DOMAIN pt.leaf \ {TRAPFRAME, TRAMPOLINE}}

(* Every physical page is on the free list, once, or belongs to exactly    *)
(* one place of one process: whichever allocation of fork(), sbrk() or     *)
(* exec() fails, no page is lost, freed twice or shared.                   *)
FramesConserved ==
  LET owned == UNION {Owned(t) : t \in {u \in Tasks : task[u].used}}
  IN  \A f \in 1 .. NFRAMES : freelist[f] + Cardinality({o \in owned : o[3] = f}) = 1

(* copyin() and copyinstr() deliver what the process has at those          *)
(* addresses, across pages, and fail when they need one that is not its    *)
(* own, or find no 0 in a string.                                          *)
CopyinIsExact ==
  copied # <<>> =>
    LET pt == task[copied.from].pt
        end == copied.srcva + copied.max
        own(a) == \A b \in copied.srcva .. a : walkaddr(pt, b)
        zeros == {a \in copied.srcva .. end - 1 : own(a) /\ Unit(pt, a) = 0}
        stop == IF copied.str THEN {a \in zeros : \A b \in zeros : a <= b}
                ELSE {end}
        right == {a \in stop : own(a - 1)}
    IN  IF right = {} THEN copied.end.ret = -1
        ELSE /\ copied.end.ret = 0
             /\ \A a \in right : copied.end.dst =
                   [i \in 1 .. a - copied.srcva |-> Unit(pt, copied.srcva + i - 1)]

(* What the calls on memory promise: private images (module                *)
(* AddressSpaces).                                                         *)
Image(t) ==
  [va \in 0 .. PGROUNDUP(task[t].sz) - 1 |->
     LET pte == task[t].pt.leaf[va] IN [u |-> pte.u, w |-> pte.w, data |-> mem[pte.pa]]]

Spaces == INSTANCE AddressSpaces WITH
            image <- [t \in Tasks |-> IF task[t].used THEN Image(t) ELSE <<>>],
            live <- {t \in Tasks : task[t].used}

(* Processes have private images: fork() copies one, exec() replaces one   *)
(* by what its file says, sbrk() adds zeroed pages or drops the last ones, *)
(* stores change only what the process may write, and a call that runs out *)
(* of memory changes nothing.                                              *)
IsAddressSpaces == Spaces!Spec
=============================================================================
