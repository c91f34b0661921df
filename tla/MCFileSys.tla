----------------------------- MODULE MCFileSys -----------------------------
EXTENDS FileSys, TLC

Symmetry == Permutations(Procs)

\* Two names in the root, one of which may be a directory with an entry.
A == <<"a">>
B == <<"b">>
AB == <<"a", "b">>
MCCalls ==
  {[op |-> "open", path |-> A, mode |-> "O_CREATE"], [op |-> "open", path |-> AB, mode |-> "O_CREATE"],
   [op |-> "open", path |-> A, mode |-> "O_RDONLY"], [op |-> "open", path |-> A, mode |-> "O_RDWR"],
   [op |-> "mkdir", path |-> A], [op |-> "unlink", path |-> A],
   [op |-> "unlink", path |-> B], [op |-> "unlink", path |-> AB],
   [op |-> "link", path |-> A, new |-> B], [op |-> "link", path |-> B, new |-> AB]}

\* What entries of itable and ftable hold while they are free is overwritten
\* before it is read.
View ==
  <<disk, [e \in Slots |-> IF itable[e].ref = 0 THEN Null ELSE itable[e]],
    [f \in Files |-> IF ftable[f].ref = 0 THEN Null ELSE ftable[f]],
    ofile, pc, call, walk, puts, stage>>
=============================================================================
