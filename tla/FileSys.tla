------------------------------ MODULE FileSys ------------------------------
(***************************************************************************)
(* The file system above the log: inodes and the inode table, the block    *)
(* bitmap, directories and path names (kernel/fs.c), the file table        *)
(* (kernel/file.c) and the calls open, mkdir, link, unlink, write, dup and *)
(* close (kernel/sysfile.c).                                               *)
(*                                                                         *)
(* A step is the code between two places where a process may wait for an   *)
(* inode's sleep lock or where another process can see what it did: the    *)
(* scan of ialloc() goes inode by inode, and iput() gives up itable.lock   *)
(* while it frees an inode.  dinode and dirent are what the buffer cache   *)
(* holds; Log shows that a crash leaves them as they were at a moment when *)
(* no transaction was open.  Paths are absolute and name no "." or "..";   *)
(* devices, pipes, file offsets and bytes are left out.                    *)
(***************************************************************************)
EXTENDS Integers, Sequences, FiniteSets, FiniteSetsExt, Functions

CONSTANTS
  Procs,
  Calls,           \* the calls on paths that processes make, with op one of
                   \* open, mkdir, unlink and link, path, mode (open), new (link)
  NINODES,         \* inodes on disk (sb.ninodes)
  NINODE,          \* entries of itable
  Blocks,          \* data blocks
  NFILE, NOFILE,   \* struct files, and descriptors of a process
  DPB,             \* directory entries in a block, "." and ".." included
  MAXFILE,         \* blocks of a file
  MAXCALLS,        \* bound: calls on paths made in all
  NoOne

ASSUME FileSysAssumption ==
  /\ NINODES \in Nat \ {0} /\ NINODE \in Nat \ {0}
  /\ NFILE \in Nat \ {0} /\ NOFILE \in Nat \ {0}
  /\ DPB \in Nat /\ DPB > 1 /\ MAXFILE \in Nat
  /\ Blocks # {} /\ Blocks \subseteq Nat \ {0} /\ NoOne \notin Procs

Inums == 1 .. NINODES
ROOTINO == 1
Slots == 1 .. NINODE
Files == 1 .. NFILE
FDs == 0 .. NOFILE - 1
Names == UNION {Range(path) : path \in {c.path : c \in Calls}}
           \cup UNION {Range(c.new) : c \in {d \in Calls : d.op = "link"}}
Null == 0

T_NONE == "none"
T_DIR == "dir"
T_FILE == "file"

VARIABLES
  dinode,   \* type, nlink and blocks of each inode
  dirent,   \* the entries of each directory, besides "." and ".."
  bitmap,   \* the blocks in use
  itable,
  ftable,   \* ref, type and ip of each struct file
  ofile,    \* descriptor tables
  pc, call, \* where each process is, and in which call
  cur, rest,\* namex(): the inode it is at, and the names left
  ino,      \* the call's other inode
  calls,    \* calls on paths made so far
  scan,     \* ialloc(): the next inode to look at
  puts, stage  \* inodes to iput() next, and how far the first iput() is

disk == <<dinode, dirent, bitmap>>
files == <<ftable, ofile>>
walk == <<cur, rest, ino, scan, calls>>
vars == <<disk, itable, files, pc, call, walk, puts, stage>>

FreeInode == [type |-> T_NONE, nlink |-> 0, addrs |-> {}]

\* mkfs makes the root directory, in one block.
Init ==
  /\ dinode = [i \in Inums |-> IF i = ROOTINO
                 THEN [type |-> T_DIR, nlink |-> 1, addrs |-> {Min(Blocks)}] ELSE FreeInode]
  /\ bitmap = {Min(Blocks)}
  /\ dirent = [i \in Inums |-> {}]
  /\ itable = [e \in Slots |-> [inum |-> Null, ref |-> 0, valid |-> FALSE, lock |-> NoOne,
                                type |-> T_NONE, nlink |-> 0, addrs |-> {}]]
  /\ ftable = [f \in Files |-> [ref |-> 0, type |-> "FD_NONE", ip |-> Null,
                               writable |-> FALSE]]
  /\ ofile = [p \in Procs |-> [d \in FDs |-> Null]]
  /\ pc = [p \in Procs |-> "idle"]
  /\ call = [p \in Procs |-> [op |-> "none"]]
  /\ cur = [p \in Procs |-> Null] /\ ino = [p \in Procs |-> Null]
  /\ rest = [p \in Procs |-> <<>>]
  /\ calls = 0
  /\ scan = [p \in Procs |-> Null]
  /\ puts = [p \in Procs |-> <<>>]
  /\ stage = [p \in Procs |-> "test"]

---------------------------------------------------------------------------
(* The inode table. *)

Holds(T, e, i) == T[e].ref > 0 /\ T[e].inum = i

\* The entry iget(i) returns, and the table it leaves.
SlotOf(T, i) ==
  LET hits == {e \in Slots : Holds(T, e, i)}
  IN  Min(IF hits # {} THEN hits ELSE {e \in Slots : T[e].ref = 0})

Recycled(s, i) == [s EXCEPT !.inum = i, !.ref = 1, !.valid = FALSE]

(* Variant of Shared that does not count the new reference. *)
Shared_Same(s) == s
Shared(s) == [s EXCEPT !.ref = @ + 1]

iget(T, i) ==
  [T EXCEPT ![SlotOf(T, i)] =
     IF Holds(T, SlotOf(T, i), i) THEN Shared(@) ELSE Recycled(@, i)]

\* iget() panics when every entry is in use.
CanIget(T, i) == \E e \in Slots : T[e].ref = 0 \/ Holds(T, e, i)

\* An entry once ilock() has made it valid.
Loaded(s) ==
  IF s.valid THEN s
  ELSE [s EXCEPT !.valid = TRUE, !.type = dinode[s.inum].type,
                 !.nlink = dinode[s.inum].nlink, !.addrs = dinode[s.inum].addrs]

Unlocked(T, e) == T[e].lock = NoOne
ilock(T, e, p) == [T EXCEPT ![e] = [Loaded(@) EXCEPT !.lock = p]]
iunlock(T, e) == [T EXCEPT ![e].lock = NoOne]

(* Variant of iupdate that leaves the link count on disk as it is. *)
iupdate_NoLinks(D, s) ==
  [D EXCEPT ![s.inum] = [type |-> s.type, nlink |-> @.nlink, addrs |-> s.addrs]]
iupdate(D, s) ==
  [D EXCEPT ![s.inum] = [type |-> s.type, nlink |-> s.nlink, addrs |-> s.addrs]]

---------------------------------------------------------------------------
(* Directories. *)

dirlookup(i, n) == {d \in dirent[i] : d.name = n}
Found(i, n) == dirlookup(i, n) # {}
InumOf(i, n) == (CHOOSE d \in dirlookup(i, n) : TRUE).inum

isdirempty(i) == dirent[i] = {}

\* writei() of one more entry to a directory with these blocks needs a block.
Grows(i, addrs) == Cardinality(dirent[i]) + 2 >= DPB * Cardinality(addrs)

\* balloc() takes the first free block.
Free == Blocks \ bitmap
balloc == Min(Free)

---------------------------------------------------------------------------
(* Control. *)

Idle(p) == pc[p] = "idle"
At(p, label) == pc[p] = label /\ puts[p] = <<>>

\* Go on at label once the inodes in q are put.
Goto(p, label, q) ==
  /\ pc' = [pc EXCEPT ![p] = label]
  /\ puts' = [puts EXCEPT ![p] = q]

---------------------------------------------------------------------------
(* iput(): the first of puts[p].  The last reference to an inode without   *)
(* links frees it, and itable.lock is given up meanwhile.                  *)

(* Variant of LastUse that frees an inode other processes still use. *)
LastUse_Shared(s) == s.valid /\ s.nlink = 0
LastUse(s) == s.ref = 1 /\ s.valid /\ s.nlink = 0

Freed(s) == [s EXCEPT !.valid = FALSE, !.lock = NoOne]

Putting(p, st) == puts[p] # <<>> /\ stage[p] = st
Stage(p, st) == stage' = [stage EXCEPT ![p] = st]
IputVars == <<files, pc, call, walk>>

Deref(p) ==
  /\ itable' = [itable EXCEPT ![Head(puts[p])].ref = @ - 1]
  /\ puts' = [puts EXCEPT ![p] = Tail(@)]
  /\ Stage(p, "test")
  /\ UNCHANGED <<disk, IputVars>>

iputShared(p) ==
  /\ Putting(p, "test")
  /\ ~LastUse(itable[Head(puts[p])])
  /\ Deref(p)

iputLast(p) ==
  /\ Putting(p, "test")
  /\ LastUse(itable[Head(puts[p])])
  /\ Unlocked(itable, Head(puts[p]))
  /\ itable' = [itable EXCEPT ![Head(puts[p])].lock = p]
  /\ Stage(p, "trunc")
  /\ UNCHANGED <<disk, puts, IputVars>>

(* Variant of Truncated that leaves the blocks in the inode. *)
Truncated_Keep(s) == s
Truncated(s) == [s EXCEPT !.addrs = {}]

\* itrunc() of entry e: its blocks are free, its content is gone.
itrunc(e) ==
  LET s == Truncated(itable[e])
  IN  /\ dinode' = iupdate(dinode, s)
      /\ dirent' = [dirent EXCEPT ![s.inum] = {}]
      /\ bitmap' = bitmap \ itable[e].addrs

iputTrunc(p) ==
  /\ Putting(p, "trunc")
  /\ itrunc(Head(puts[p]))
  /\ itable' = [itable EXCEPT ![Head(puts[p])] = Truncated(@)]
  /\ Stage(p, "free")
  /\ UNCHANGED <<puts, IputVars>>

iputFree(p) ==
  /\ Putting(p, "free")
  /\ itable' = [itable EXCEPT ![Head(puts[p])].type = T_NONE]
  /\ dinode' = iupdate(dinode, itable'[Head(puts[p])])
  /\ Stage(p, "inval")
  /\ UNCHANGED <<dirent, bitmap, puts, IputVars>>

iputInvalidate(p) ==
  /\ Putting(p, "inval")
  /\ itable' = [itable EXCEPT ![Head(puts[p])] = Freed(@)]
  /\ Stage(p, "deref")
  /\ UNCHANGED <<disk, puts, IputVars>>

iputDeref(p) == Putting(p, "deref") /\ Deref(p)

---------------------------------------------------------------------------
(* namex(): one name of the path in each step.                             *)

\* Where namex() hands over, and whether it stops at the parent.
Goal(c) ==
  CASE c.op = "open" -> IF c.mode = "O_CREATE" THEN "create" ELSE "open"
    [] c.op = "mkdir" -> "create"
    [] OTHER -> c.op
AtParent(goal) == goal \in {"create", "unlink", "linkdir"}
\* The second walk of link() is the one that has an inode already.
GoalOf(p) == IF ino[p] # Null THEN "linkdir" ELSE Goal(call[p])
OnFailure(p) == IF ino[p] # Null THEN "linkbad" ELSE "end"

\* begin_op(), then namex() starts at the root.
Begin(p) ==
  /\ Idle(p)
  /\ calls < MAXCALLS /\ calls' = calls + 1
  /\ CanIget(itable, ROOTINO)
  /\ itable' = iget(itable, ROOTINO)
  /\ cur' = [cur EXCEPT ![p] = SlotOf(itable, ROOTINO)]
  /\ \E c \in Calls :
       /\ call' = [call EXCEPT ![p] = c]
       /\ rest' = [rest EXCEPT ![p] = c.path]
  /\ pc' = [pc EXCEPT ![p] = "namex"]
  /\ UNCHANGED <<disk, files, ino, scan, puts, stage>>

namex(p) ==
  LET e == cur[p]
      s == Loaded(itable[e])
      T == ilock(itable, e, NoOne)
      n == Head(rest[p])
  IN
  /\ At(p, "namex")
  /\ Unlocked(itable, e)
  /\ \/ /\ s.type = T_DIR /\ AtParent(GoalOf(p)) /\ Len(rest[p]) = 1
        /\ itable' = T
        /\ Goto(p, GoalOf(p), <<>>)
        /\ UNCHANGED <<cur, rest>>
     \/ /\ s.type = T_DIR /\ ~(AtParent(GoalOf(p)) /\ Len(rest[p]) = 1)
        /\ Found(s.inum, n)
        /\ CanIget(T, InumOf(s.inum, n))
        /\ itable' = iget(T, InumOf(s.inum, n))
        /\ cur' = [cur EXCEPT ![p] = SlotOf(T, InumOf(s.inum, n))]
        /\ rest' = [rest EXCEPT ![p] = Tail(@)]
        /\ Goto(p, IF Len(rest[p]) = 1 THEN GoalOf(p) ELSE "namex", <<e>>)
     \/ /\ \/ s.type # T_DIR
           \/ ~(AtParent(GoalOf(p)) /\ Len(rest[p]) = 1) /\ ~Found(s.inum, n)
        /\ itable' = T
        /\ cur' = [cur EXCEPT ![p] = Null]
        /\ rest' = [rest EXCEPT ![p] = <<>>]
        /\ Goto(p, OnFailure(p), <<e>>)
  /\ UNCHANGED <<disk, files, call, ino, scan, stage, calls>>

---------------------------------------------------------------------------
(* create(), for open(O_CREATE) and mkdir(): cur is the directory.         *)

TypeFor(c) == IF c.op = "mkdir" THEN T_DIR ELSE T_FILE
Set(f, p, v) == [f EXCEPT ![p] = v]

create(p) ==
  LET e == cur[p]
      T == ilock(itable, e, p)
      i == itable[e].inum
      n == Head(rest[p])
  IN
  /\ At(p, "create")
  /\ Unlocked(itable, e)
  /\ \/ /\ Found(i, n)
        /\ CanIget(T, InumOf(i, n))
        /\ itable' = iunlock(iget(T, InumOf(i, n)), e)
        /\ ino' = Set(ino, p, SlotOf(T, InumOf(i, n)))
        /\ cur' = Set(cur, p, Null)
        /\ Goto(p, "exists", <<e>>)
        /\ UNCHANGED scan
     \/ /\ ~Found(i, n)
        /\ itable' = T
        /\ scan' = Set(scan, p, ROOTINO)
        /\ Goto(p, "ialloc", <<>>)
        /\ UNCHANGED <<cur, ino>>
  /\ UNCHANGED <<disk, files, call, rest, stage, calls>>

exists(p) ==
  LET e == ino[p]
      keep == TypeFor(call[p]) = T_FILE /\ Loaded(itable[e]).type = T_FILE
  IN
  /\ At(p, "exists")
  /\ Unlocked(itable, e)
  /\ itable' = ilock(itable, e, IF keep THEN p ELSE NoOne)
  /\ ino' = Set(ino, p, IF keep THEN e ELSE Null)
  /\ IF keep THEN Goto(p, "opened", <<>>) ELSE Goto(p, "end", <<e>>)
  /\ UNCHANGED <<disk, files, call, cur, rest, scan, stage, calls>>

\* iunlockput(dp), the way out of create() and unlink().
dropdir(p) ==
  /\ At(p, "dropdir")
  /\ itable' = iunlock(itable, cur[p])
  /\ cur' = Set(cur, p, Null)
  /\ Goto(p, "end", <<cur[p]>>)
  /\ UNCHANGED <<disk, files, call, rest, ino, scan, stage, calls>>

ialloc(p) ==
  /\ At(p, "ialloc")
  /\ \/ /\ scan[p] \notin Inums
        /\ Goto(p, "dropdir", <<>>)
        /\ UNCHANGED <<dinode, itable, ino, scan>>
     \/ /\ scan[p] \in Inums /\ dinode[scan[p]].type # T_NONE
        /\ scan' = Set(scan, p, scan[p] + 1)
        /\ UNCHANGED <<dinode, itable, ino, pc, puts>>
     \/ /\ scan[p] \in Inums /\ dinode[scan[p]].type = T_NONE
        /\ CanIget(itable, scan[p])
        /\ dinode' = Set(dinode, scan[p], [FreeInode EXCEPT !.type = TypeFor(call[p])])
        /\ itable' = iget(itable, scan[p])
        /\ ino' = Set(ino, p, SlotOf(itable, scan[p]))
        /\ Goto(p, "fill", <<>>)
        /\ UNCHANGED scan
  /\ UNCHANGED <<dirent, bitmap, files, call, cur, rest, stage, calls>>

NewLinks == 1

\* The new inode's link, and the block of "." and ".." in a new directory.
fill(p) ==
  LET e == ino[p]
      isdir == TypeFor(call[p]) = T_DIR
      T == [ilock(itable, e, p) EXCEPT ![e].nlink = NewLinks,
              ![e].addrs = IF isdir /\ Free # {} THEN {balloc} ELSE @]
  IN
  /\ At(p, "fill")
  /\ Unlocked(itable, e)
  /\ itable' = T
  /\ dinode' = iupdate(dinode, T[e])
  /\ bitmap' = bitmap \cup T[e].addrs
  /\ Goto(p, IF isdir /\ Free = {} THEN "undo" ELSE "enter", <<>>)
  /\ UNCHANGED <<dirent, files, call, walk, stage>>

\* dirlink(dp, name, inum) in p's directory s, with k more links to the
\* directory itself, and iunlock(dp).
CanEnter(s) == ~Grows(s.inum, s.addrs) \/ Free # {}
dirlink(p, s, n, i, k) ==
  LET more == IF Grows(s.inum, s.addrs) THEN {balloc} ELSE {}
      new == [s EXCEPT !.addrs = @ \cup more, !.nlink = @ + k]
  IN  /\ dirent' = [dirent EXCEPT ![s.inum] = @ \cup {[name |-> n, inum |-> i]}]
      /\ bitmap' = bitmap \cup more
      /\ dinode' = iupdate(dinode, new)
      /\ itable' = [itable EXCEPT ![cur[p]] = [new EXCEPT !.lock = NoOne]]

enter(p) ==
  LET s == itable[cur[p]]
      isdir == TypeFor(call[p]) = T_DIR
  IN
  /\ At(p, "enter")
  /\ \/ /\ CanEnter(s)
        /\ dirlink(p, s, Head(rest[p]), itable[ino[p]].inum, IF isdir THEN 1 ELSE 0)
        /\ cur' = Set(cur, p, Null)
        /\ Goto(p, IF isdir THEN "made" ELSE "opened", <<cur[p]>>)
     \/ /\ ~CanEnter(s)
        /\ Goto(p, "undo", <<>>)
        /\ UNCHANGED <<disk, itable, cur>>
  /\ UNCHANGED <<files, call, rest, ino, scan, stage, calls>>

\* The end of mkdir(), and the failure of create().
made(p) ==
  /\ At(p, "made")
  /\ itable' = iunlock(itable, ino[p])
  /\ ino' = Set(ino, p, Null)
  /\ Goto(p, "end", <<ino[p]>>)
  /\ UNCHANGED <<disk, files, call, cur, rest, scan, stage, calls>>

undo(p) ==
  /\ At(p, "undo")
  /\ itable' = [itable EXCEPT ![ino[p]].nlink = 0, ![ino[p]].lock = NoOne]
  /\ dinode' = iupdate(dinode, itable'[ino[p]])
  /\ ino' = Set(ino, p, Null)
  /\ Goto(p, "dropdir", <<ino[p]>>)
  /\ UNCHANGED <<dirent, bitmap, files, call, cur, rest, scan, stage, calls>>

---------------------------------------------------------------------------
(* open(), once it has the inode.  O_CREATE stands for O_CREATE | O_TRUNC  *)
(* | O_RDWR, which the shell uses; the other modes are O_RDONLY and O_RDWR. *)

open(p) ==
  LET e == cur[p]
      bad == Loaded(itable[e]).type = T_DIR /\ call[p].mode # "O_RDONLY"
  IN
  /\ At(p, "open")
  /\ Unlocked(itable, e)
  /\ itable' = ilock(itable, e, IF bad THEN NoOne ELSE p)
  /\ cur' = Set(cur, p, Null)
  /\ ino' = Set(ino, p, IF bad THEN Null ELSE e)
  /\ IF bad THEN Goto(p, "end", <<e>>) ELSE Goto(p, "opened", <<>>)
  /\ UNCHANGED <<disk, files, call, rest, scan, stage, calls>>

FreeFiles == {f \in Files : ftable[f].ref = 0}
FreeFds(p) == {d \in FDs : ofile[p][d] = Null}

(* Variant of Closed that leaves the type of the file. *)
Closed_KeepType(f) == [f EXCEPT !.ref = 0]
Closed(f) == [f EXCEPT !.ref = 0, !.type = "FD_NONE"]

\* What the last fileclose() of a file puts.
ClosePuts(f) == IF ftable[f].type = "FD_INODE" THEN <<ftable[f].ip>> ELSE <<>>

\* filealloc() and fdalloc() succeed.
openDone(p) ==
  LET e == ino[p]
      f == Min(FreeFiles)
      trunc == call[p].mode = "O_CREATE" /\ itable[e].type = T_FILE
  IN
  /\ At(p, "opened")
  /\ FreeFiles # {} /\ FreeFds(p) # {}
  /\ ftable' = Set(ftable, f, [ref |-> 1, type |-> "FD_INODE", ip |-> e,
                               writable |-> call[p].mode # "O_RDONLY"])
  /\ ofile' = [ofile EXCEPT ![p][Min(FreeFds(p))] = f]
  /\ IF trunc THEN itrunc(e) ELSE UNCHANGED disk
  /\ itable' = [itable EXCEPT ![e].lock = NoOne, ![e].addrs = IF trunc THEN {} ELSE @]
  /\ ino' = Set(ino, p, Null)
  /\ Goto(p, "end", <<>>)
  /\ UNCHANGED <<call, cur, rest, scan, stage, calls>>

\* One of them fails: fileclose(f), if there is one, and iunlockput(ip).
openFail(p) ==
  LET e == ino[p] IN
  /\ At(p, "opened")
  /\ FreeFiles = {} \/ FreeFds(p) = {}
  /\ itable' = iunlock(itable, e)
  /\ IF FreeFiles = {}
     THEN UNCHANGED ftable /\ Goto(p, "end", <<e>>)
     ELSE LET f == Min(FreeFiles)
          IN  ftable' = [ftable EXCEPT ![f] = Closed(@)] /\ Goto(p, "end", ClosePuts(f) \o <<e>>)
  /\ ino' = Set(ino, p, Null)
  /\ UNCHANGED <<disk, ofile, call, cur, rest, scan, stage, calls>>

---------------------------------------------------------------------------
(* unlink(): cur is the directory, ino the inode that loses a name.        *)

unlink(p) ==
  LET e == cur[p]
      T == ilock(itable, e, p)
      i == itable[e].inum
      n == Head(rest[p])
  IN
  /\ At(p, "unlink")
  /\ Unlocked(itable, e)
  /\ \/ /\ Found(i, n)
        /\ CanIget(T, InumOf(i, n))
        /\ itable' = iget(T, InumOf(i, n))
        /\ ino' = Set(ino, p, SlotOf(T, InumOf(i, n)))
        /\ Goto(p, "victim", <<>>)
     \/ /\ ~Found(i, n)
        /\ itable' = T
        /\ Goto(p, "dropdir", <<>>)
        /\ UNCHANGED ino
  /\ UNCHANGED <<disk, files, call, cur, rest, scan, stage, calls>>

\* The name goes first, with the lock of the directory ...
victim(p) ==
  LET e == ino[p]
      s == Loaded(itable[e])
      dp == [itable[cur[p]] EXCEPT !.nlink = IF s.type = T_DIR THEN @ - 1 ELSE @,
                                   !.lock = NoOne]
  IN
  /\ At(p, "victim")
  /\ Unlocked(itable, e)
  /\ \/ /\ s.type = T_DIR /\ ~isdirempty(s.inum)
        /\ itable' = ilock(itable, e, NoOne)
        /\ ino' = Set(ino, p, Null)
        /\ Goto(p, "dropdir", <<e>>)
        /\ UNCHANGED <<disk, cur>>
     \/ /\ ~(s.type = T_DIR /\ ~isdirempty(s.inum))
        /\ dirent' = [dirent EXCEPT ![dp.inum] = @ \ dirlookup(dp.inum, Head(rest[p]))]
        /\ dinode' = iupdate(dinode, dp)
        /\ itable' = [ilock(itable, e, p) EXCEPT ![cur[p]] = dp]
        /\ cur' = Set(cur, p, Null)
        /\ Goto(p, "unlinked", <<cur[p]>>)
        /\ UNCHANGED <<bitmap, ino>>
  /\ UNCHANGED <<files, call, rest, scan, stage, calls>>

\* Adjust the link count of ino[p], then iunlock() and iput() it.
AddLinksAndPut(p, T, k) ==
  LET s == [T[ino[p]] EXCEPT !.nlink = @ + k] IN
  /\ itable' = [T EXCEPT ![ino[p]] = [s EXCEPT !.lock = NoOne]]
  /\ dinode' = iupdate(dinode, s)
  /\ ino' = Set(ino, p, Null)
  /\ Goto(p, "end", <<ino[p]>>)
  /\ UNCHANGED <<dirent, bitmap, files, call, cur, rest, scan, stage, calls>>

\* ... then the link.
unlinked(p) == At(p, "unlinked") /\ AddLinksAndPut(p, itable, -1)

---------------------------------------------------------------------------
(* link(): the link first, then the name, and back if that fails.          *)

link(p) ==
  LET e == cur[p]
      s == Loaded(itable[e])
      T == ilock(itable, e, NoOne)
      U == [T EXCEPT ![e].nlink = @ + 1]
  IN
  /\ At(p, "link")
  /\ Unlocked(itable, e)
  /\ \/ /\ s.type = T_DIR
        /\ itable' = T
        /\ cur' = Set(cur, p, Null)
        /\ Goto(p, "end", <<e>>)
        /\ UNCHANGED <<dinode, ino, rest>>
     \/ /\ s.type # T_DIR
        /\ CanIget(U, ROOTINO)
        /\ dinode' = iupdate(dinode, U[e])
        /\ itable' = iget(U, ROOTINO)
        /\ ino' = Set(ino, p, e)
        /\ cur' = Set(cur, p, SlotOf(U, ROOTINO))
        /\ rest' = Set(rest, p, call[p].new)
        /\ Goto(p, "namex", <<>>)
  /\ UNCHANGED <<dirent, bitmap, files, call, scan, stage, calls>>

linkdir(p) ==
  LET e == cur[p]
      s == Loaded(itable[e])
      n == Head(rest[p])
      ok == ~Found(s.inum, n) /\ CanEnter(s)
  IN
  /\ At(p, "linkdir")
  /\ Unlocked(itable, e)
  /\ IF ok
     THEN /\ dirlink(p, s, n, itable[ino[p]].inum, 0)
          /\ Goto(p, "end", <<e, ino[p]>>)
          /\ ino' = Set(ino, p, Null)
     ELSE /\ itable' = ilock(itable, e, NoOne)
          /\ Goto(p, "linkbad", <<e>>)
          /\ UNCHANGED <<disk, ino>>
  /\ cur' = Set(cur, p, Null)
  /\ UNCHANGED <<files, call, rest, scan, stage, calls>>

linkbad(p) ==
  /\ At(p, "linkbad")
  /\ Unlocked(itable, ino[p])
  /\ AddLinksAndPut(p, ilock(itable, ino[p], NoOne), -1)

end_op(p) ==
  /\ At(p, "end")
  /\ Goto(p, "idle", <<>>)
  /\ call' = Set(call, p, [op |-> "none"])
  /\ rest' = Set(rest, p, <<>>)
  /\ scan' = Set(scan, p, Null)
  /\ UNCHANGED <<disk, itable, files, cur, ino, stage, calls>>

---------------------------------------------------------------------------
(* Calls on a descriptor.                                                  *)

\* filewrite() of one block's worth, in a transaction of its own.
write(p) ==
  \E d \in FDs :
    LET f == ofile[p][d]
        e == ftable[f].ip
        T == [ilock(itable, e, NoOne) EXCEPT ![e].addrs = @ \cup {balloc}]
    IN
    /\ Idle(p)
    /\ f # Null /\ ftable[f].writable
    /\ Unlocked(itable, e)
    /\ Cardinality(itable[e].addrs) < MAXFILE /\ Free # {}
    /\ itable' = T
    /\ dinode' = iupdate(dinode, T[e])
    /\ bitmap' = bitmap \cup {balloc}
    /\ UNCHANGED <<dirent, files, pc, call, walk, puts, stage>>

dup(p) ==
  \E d \in FDs :
    LET f == ofile[p][d] IN
    /\ Idle(p)
    /\ f # Null /\ FreeFds(p) # {}
    /\ ofile' = [ofile EXCEPT ![p][Min(FreeFds(p))] = f]
    /\ ftable' = [ftable EXCEPT ![f].ref = @ + 1]
    /\ UNCHANGED <<disk, itable, pc, call, walk, puts, stage>>

close(p) ==
  \E d \in FDs :
    LET f == ofile[p][d] IN
    /\ Idle(p)
    /\ f # Null
    /\ ofile' = [ofile EXCEPT ![p][d] = Null]
    /\ IF ftable[f].ref > 1
       THEN /\ ftable' = [ftable EXCEPT ![f].ref = @ - 1]
            /\ UNCHANGED <<pc, puts>>
       ELSE /\ ftable' = [ftable EXCEPT ![f] = Closed(@)]
            /\ Goto(p, "end", ClosePuts(f))
    /\ UNCHANGED <<disk, itable, call, walk, stage>>

---------------------------------------------------------------------------
Step(p) ==
  \/ Begin(p) \/ namex(p) \/ end_op(p)
  \/ create(p) \/ exists(p) \/ ialloc(p) \/ fill(p) \/ enter(p) \/ made(p)
  \/ undo(p) \/ dropdir(p)
  \/ open(p) \/ openDone(p) \/ openFail(p)
  \/ unlink(p) \/ victim(p) \/ unlinked(p)
  \/ link(p) \/ linkdir(p) \/ linkbad(p)
  \/ iputShared(p) \/ iputLast(p) \/ iputTrunc(p) \/ iputFree(p)
  \/ iputInvalidate(p) \/ iputDeref(p)
  \/ write(p) \/ dup(p) \/ close(p)

\* All calls are made and done.
Terminated == calls = MAXCALLS /\ (\A p \in Procs : Idle(p)) /\ UNCHANGED vars

Next == (\E p \in Procs : Step(p)) \/ Terminated
Spec == Init /\ [][Next]_vars

---------------------------------------------------------------------------
\* fs.c: "ip->ref tracks the number of in-memory pointers to the entry".  The
\* pointers are those of open files, of calls on their way, and of iput()s to come.
RefsCounted ==
  \A e \in Slots :
    itable[e].ref =
        Cardinality({f \in Files : ftable[f].ref > 0 /\ ftable[f].ip = e})
      + Cardinality({p \in Procs : cur[p] = e}) + Cardinality({p \in Procs : ino[p] = e})
      + Cardinality({<<p, k>> \in Procs \X (1 .. 3) : k \in DOMAIN puts[p] /\ puts[p][k] = e})

NamesOf(i) == {<<j, d>> \in Inums \X [name : Names, inum : {i}] : d \in dirent[j]}
Subdirs(i) == {d \in dirent[i] : dinode[d.inum].type = T_DIR}

\* When no transaction is open, so also after a crash: what a directory names is
\* an allocated inode whose link count is the number of its names, plus one for
\* the ".." of each subdirectory.
LinksCounted ==
  (\A p \in Procs : Idle(p)) =>
    \A i \in Inums : NamesOf(i) # {} =>
      /\ dinode[i].type # T_NONE
      /\ dinode[i].nlink = Cardinality(NamesOf(i)) + Cardinality(Subdirs(i))

\* A block belongs to one inode at most, and the bitmap marks those in use:
\* balloc(), itrunc() and iput() neither lose a block nor give it out twice.
BlocksOwned ==
  /\ bitmap = UNION {dinode[i].addrs : i \in Inums}
  /\ \A i, j \in Inums : i # j => dinode[i].addrs \cap dinode[j].addrs = {}

\* An inode that an open file or a call refers to is allocated, even when its
\* last name is gone, so ilock() never panics with "no type"; and unlink() never
\* finds an inode without links.
UsedIsAllocated ==
  /\ \A f \in Files : ftable[f].ref > 0 => dinode[itable[ftable[f].ip].inum].type # T_NONE
  /\ \A p \in Procs, e \in Slots : e \in {cur[p], ino[p]} =>
       dinode[itable[e].inum].type # T_NONE
  /\ \A p \in Procs : At(p, "victim") => dinode[itable[ino[p]].inum].nlink > 0

\* iput(): "If that was the last reference and the inode has no links to it, free
\* the inode (and its content) on disk."  So when no call is running, an inode
\* without links is that of an open file.
NoOrphan ==
  (\A p \in Procs : Idle(p)) =>
    \A i \in Inums : dinode[i].type # T_NONE /\ dinode[i].nlink = 0 =>
      \E f \in Files : ftable[f].ref > 0 /\ itable[ftable[f].ip].inum = i

\* iput(): "ip->ref == 1 means no other process can have ip locked, so this
\* acquiresleep() won't block"; it holds itable.lock and must not sleep.
IputNeverWaits ==
  \A p \in Procs : Putting(p, "test") =>
    LET s == itable[Head(puts[p])] IN s.ref = 1 /\ s.valid /\ s.nlink = 0 => s.lock = NoOne

=============================================================================
