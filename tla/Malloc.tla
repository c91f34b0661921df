------------------------------- MODULE Malloc -------------------------------
(***************************************************************************)
(* The user-level allocator (user/umalloc.c): a circular list of free      *)
(* blocks in the order of their addresses, searched first-fit from freep.  *)
(* Addresses and sizes count headers.  base is a header below the heap; a  *)
(* program may move the break between two calls.                           *)
(***************************************************************************)
EXTENDS Integers, FiniteSets

CONSTANTS HEAP,     \* the break before the first call
          LIMIT,    \* sbrk() fails beyond this address
          NALLOC,   \* least growth of the heap (4096)
          MAXUNITS  \* bound on the size of a block, header included

base == 0
NIL == -1
Addrs == {base} \cup HEAP .. LIMIT - 1

VARIABLES hdr,    \* ptr and size of each header
          freep,
          brk,    \* the break
          given,  \* the blocks that malloc() has returned
          gained  \* the headers that morecore() has got

mallocVars == <<hdr, freep, brk, given, gained>>

MallocInit ==
  /\ hdr = [a \in Addrs |-> [ptr |-> NIL, size |-> 0]]
  /\ freep = NIL /\ brk = HEAP /\ given = {} /\ gained = {}

(* The list of heap h, from freep. *)
Nth(h) ==
  LET at[n \in 0 .. LIMIT] == IF n = 0 THEN h.freep ELSE h.hdr[at[n - 1]].ptr IN at

First(S) == CHOOSE n \in S : \A m \in S : n <= m

(* The place of bp: between p and its successor, or at the end of the list. *)
Follows(h, p, bp) ==
  LET s == h.hdr[p].ptr IN (bp > p /\ bp < s) \/ (p >= s /\ (bp > p \/ bp < s))

Joins(h, low, high) == low + h.hdr[low].size = high

(* free() of the block with header bp. *)
Freed(h, bp) ==
  LET p == Nth(h)[First({n \in 0 .. LIMIT : Follows(h, Nth(h)[n], bp)})]
      s == h.hdr[p].ptr
      up == IF Joins(h, bp, s) THEN [ptr |-> h.hdr[s].ptr, size |-> h.hdr[bp].size + h.hdr[s].size]
                               ELSE [ptr |-> s, size |-> h.hdr[bp].size]
      low == IF Joins(h, p, bp) THEN [ptr |-> up.ptr, size |-> h.hdr[p].size + up.size]
                                ELSE [ptr |-> bp, size |-> h.hdr[p].size]
  IN  [hdr |-> [h.hdr EXCEPT ![bp] = up, ![p] = low], freep |-> p]

(* The steps of malloc()'s search that meet a large enough block; the      *)
(* search ends at freep itself.                                            *)
Fits(h, nu) ==
  LET round == First({n \in 1 .. LIMIT : Nth(h)[n] = h.freep})
  IN  {n \in 1 .. round : h.hdr[Nth(h)[n]].size >= nu}

(* Variant of Rest that forgets the header of the new block. *)
Rest_Header(size, nu) == size - nu + 1

(* What a block that is split keeps. *)
Rest(size, nu) == size - nu

(* malloc() takes the first of the Fits: all of it, or its tail. *)
FirstFit(h, nu) ==
  LET n == First(Fits(h, nu))
      prev == Nth(h)[n - 1]
      p == Nth(h)[n]
      rest == Rest(h.hdr[p].size, nu)
      block == IF h.hdr[p].size = nu THEN p ELSE p + rest
  IN  [block |-> block, freep |-> prev,
       hdr |-> IF block = p THEN [h.hdr EXCEPT ![prev].ptr = h.hdr[p].ptr]
               ELSE [h.hdr EXCEPT ![p].size = rest, ![block].size = nu]]

Heap ==
  IF freep = NIL THEN [hdr |-> [hdr EXCEPT ![base] = [ptr |-> base, size |-> 0]], freep |-> base]
  ELSE [hdr |-> hdr, freep |-> freep]

(* The heap h and the blocks g that are given out.  What else is at an     *)
(* address is the program's data, and is not kept.                         *)
Become(h, g) ==
  LET listed == {Nth(h)[n] : n \in 0 .. LIMIT} IN
    /\ hdr' = [a \in Addrs |-> [ptr |-> IF a \in listed THEN h.hdr[a].ptr ELSE NIL,
                                size |-> IF a \in listed \cup g THEN h.hdr[a].size ELSE 0]]
    /\ freep' = h.freep /\ given' = g

morecore(nu) == IF nu < NALLOC THEN NALLOC ELSE nu

malloc(nu) ==
  LET n == morecore(nu)
      fresh == [Heap EXCEPT !.hdr[brk].size = n]
  IN  \/ /\ Fits(Heap, nu) # {}
         /\ LET t == FirstFit(Heap, nu) IN Become(t, given \cup {t.block})
         /\ UNCHANGED <<brk, gained>>
      \/ /\ Fits(Heap, nu) = {} /\ brk + n <= LIMIT
         /\ LET t == FirstFit(Freed(fresh, brk), nu) IN Become(t, given \cup {t.block})
         /\ brk' = brk + n /\ gained' = gained \cup (brk .. brk + n - 1)
      \/ /\ Fits(Heap, nu) = {} /\ brk + n > LIMIT
         /\ Become(Heap, given) /\ UNCHANGED <<brk, gained>>

free(bp) ==
  /\ bp \in given
  /\ Become(Freed(Heap, bp), given \ {bp})
  /\ UNCHANGED <<brk, gained>>

(* The program itself moves the break. *)
sbrk ==
  /\ brk < LIMIT /\ brk' = brk + 1
  /\ UNCHANGED <<hdr, freep, given, gained>>

MallocNext == sbrk \/ (\E nu \in 2 .. MAXUNITS : malloc(nu)) \/ \E bp \in given : free(bp)
MallocSpec == MallocInit /\ [][MallocNext]_mallocVars
-----------------------------------------------------------------------------
FreeBlocks == {Nth(Heap)[n] : n \in 0 .. LIMIT}
Units(bp) == bp .. bp + hdr[bp].size - 1
HeapBlocks == given \cup (FreeBlocks \ {base})

(* The free blocks and the blocks that malloc() has given out tile what    *)
(* morecore() got: none overlaps another and nothing is lost, whatever the *)
(* order of malloc() and free() and whatever the program does to the break.*)
HeapIsTiled ==
  freep # NIL =>
    /\ UNION {Units(bp) : bp \in HeapBlocks} = gained
    /\ \A a, b \in HeapBlocks : a # b => Units(a) \cap Units(b) = {}
    /\ given \cap FreeBlocks = {}
=============================================================================
