-------------------------------- MODULE Mkfs --------------------------------
(***************************************************************************)
(* The tool that builds the first disk image (mkfs/mkfs.c): a root         *)
(* directory and one file per argument, appended to block by block, and    *)
(* the free bitmap at the end.  A byte of a file is a number that tells    *)
(* where it belongs; a directory entry is one byte; 0 is a zero byte, and  *)
(* a block address that is not there.                                      *)
(***************************************************************************)
EXTENDS Integers, Sequences

CONSTANTS NMETA,      \* boot, super, log, inode and bitmap blocks
          FSSIZE, BSIZE, NDIRECT, NINDIRECT, NINODES,
          MAXBYTES    \* bytes of a file given to mkfs

VARIABLES blk,        \* blk[b]: the data block b of the image
          inode,      \* inode[i]: the size and the addresses on disk
          freeinode, freeblock,
          bitmap,     \* the blocks marked as used
          appended,   \* appended[i]: the bytes appended to inode i
          stage

mkfsVars == <<blk, inode, freeinode, freeblock, bitmap, appended, stage>>

ROOTINO == 1
Inums == 1..NINODES
Zeroes == [o \in 0..(BSIZE - 1) |-> 0]
NewInode == [size |-> 0, addrs |-> [a \in 0..NDIRECT |-> 0]]

MkfsInit ==
  /\ blk = [b \in 0..(FSSIZE - 1) |-> Zeroes]
  /\ inode = [i \in Inums |-> NewInode]
  /\ freeinode = 1 /\ freeblock = NMETA
  /\ bitmap = {} /\ appended = [i \in Inums |-> <<>>] /\ stage = "root"

(* The image as one record, for the calls that main() strings together. *)
Disk == [blk |-> blk, inode |-> inode, next |-> freeblock]
Install(d) == blk' = d.blk /\ inode' = d.inode /\ freeblock' = d.next

IndirectOf(d, i) ==
  IF d.inode[i].addrs[NDIRECT] # 0 THEN d
  ELSE [d EXCEPT !.inode[i].addrs[NDIRECT] = d.next, !.next = @ + 1]

(* The image in which block fbn of inode i is there. *)
WithBlock(d, i, fbn) ==
  IF fbn < NDIRECT
  THEN IF d.inode[i].addrs[fbn] # 0 THEN d
       ELSE [d EXCEPT !.inode[i].addrs[fbn] = d.next, !.next = @ + 1]
  ELSE LET e == IndirectOf(d, i)
           ind == e.inode[i].addrs[NDIRECT]
       IN IF e.blk[ind][fbn - NDIRECT] # 0 THEN e
          ELSE [e EXCEPT !.blk[ind][fbn - NDIRECT] = e.next, !.next = @ + 1]

(* The address the kernel finds for block fbn, as bmap() does.  *)
BlockAt(d, i, fbn) ==
  IF fbn < NDIRECT THEN d.inode[i].addrs[fbn]
  ELSE d.blk[d.inode[i].addrs[NDIRECT]][fbn - NDIRECT]

(* Variant of PartOf that may run past the block. *)
PartOf_Whole(n, off) == IF n < BSIZE THEN n ELSE BSIZE

PartOf(n, off) == LET room == (off \div BSIZE + 1) * BSIZE - off IN IF n < room THEN n ELSE room

RECURSIVE iappend(_, _, _)
iappend(d, i, data) ==
  IF data = <<>> THEN d
  ELSE LET off == d.inode[i].size
           fbn == off \div BSIZE
           n1 == PartOf(Len(data), off)
           e == WithBlock(d, i, fbn)
           at == off - fbn * BSIZE
           f == [e EXCEPT !.blk[BlockAt(e, i, fbn)] =
                   [o \in 0..(BSIZE - 1) |-> IF o \in at..(at + n1 - 1) THEN data[o - at + 1] ELSE @[o]],
                   !.inode[i].size = off + n1]
       IN iappend(f, i, SubSeq(data, n1 + 1, Len(data)))

(* The bytes of the file with number i: no two bytes of the image agree. *)
Bytes(i, n) == [k \in 1..n |-> i * 100 + k]
MAXFILE == NDIRECT + NINDIRECT

(* main() up to the files: ialloc() of the root, which gets . and .. *)
makeRoot ==
  /\ stage = "root"
  /\ freeinode' = freeinode + 1
  /\ Install(iappend(iappend(Disk, freeinode, <<ROOTINO>>), freeinode, <<ROOTINO>>))
  /\ appended' = [appended EXCEPT ![freeinode] = <<ROOTINO, ROOTINO>>]
  /\ stage' = "files" /\ UNCHANGED bitmap

(* A file read a block at a time, or shorter by what read() returns first.  *)
RECURSIVE CopyFile(_, _, _, _)
CopyFile(d, i, data, cc) ==
  IF data = <<>> THEN d
  ELSE LET n == IF cc < Len(data) THEN cc ELSE Len(data) IN
         CopyFile(iappend(d, i, SubSeq(data, 1, n)), i, SubSeq(data, n + 1, Len(data)), BSIZE)

addFile ==
  /\ stage = "files" /\ freeinode \in Inums
  /\ Len(appended[ROOTINO]) < MAXFILE * BSIZE
  /\ \E n \in 0..MAXBYTES, cc \in 1..BSIZE :
       /\ n <= MAXFILE * BSIZE
       /\ Install(CopyFile(iappend(Disk, ROOTINO, <<freeinode>>), freeinode, Bytes(freeinode, n), cc))
       /\ appended' = [appended EXCEPT ![ROOTINO] = Append(@, freeinode), ![freeinode] = Bytes(freeinode, n)]
  /\ freeinode' = freeinode + 1
  /\ UNCHANGED <<bitmap, stage>>

balloc(used) == 0..(used - 1)

(* The size of the root is rounded up, past the end, and the bitmap written. *)
finish ==
  /\ stage = "files"
  /\ inode' = [inode EXCEPT ![ROOTINO].size = (@ \div BSIZE + 1) * BSIZE]
  /\ bitmap' = balloc(freeblock)
  /\ stage' = "done" /\ UNCHANGED <<blk, freeinode, freeblock, appended>>

imageDone == stage = "done" /\ UNCHANGED mkfsVars

MkfsNext == makeRoot \/ addFile \/ finish \/ imageDone
MkfsSpec == MkfsInit /\ [][MkfsNext]_mkfsVars
-----------------------------------------------------------------------------
(* Every file reads back, through the addresses on disk, as the bytes that  *)
(* were appended, in that order, whatever the lengths of the reads; what    *)
(* follows in its last block is zero, so the root has no stray entry.       *)
ImageReadsBack ==
  \A i \in 1..(freeinode - 1) : LET n == Len(appended[i]) IN
    /\ inode[i].size >= n
    /\ \A off \in 0..(MAXFILE * BSIZE - 1) :
         LET fbn == off \div BSIZE IN
           (fbn < NDIRECT \/ inode[i].addrs[NDIRECT] # 0) =>
             LET b == BlockAt(Disk, i, fbn) IN
               IF off < n THEN b # 0 /\ blk[b][off % BSIZE] = appended[i][off + 1]
               ELSE b = 0 \/ blk[b][off % BSIZE] = 0
=============================================================================
