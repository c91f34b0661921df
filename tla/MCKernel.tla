------------------------------ MODULE MCKernel ------------------------------
(***************************************************************************)
(* The process table and the spin locks, and programs that need no more of *)
(* the kernel than its system calls: the shell, the allocator, and the     *)
(* tool that makes the disk.  These share no state, so each behaviour      *)
(* moves one of them.  None of them may get stuck.                         *)
(***************************************************************************)
EXTENDS Proc, SpinLock, Malloc, Shell, Mkfs, TLC

VARIABLE unit

(* Commands of every kind inside one another, and lines that are none. *)
MCWords == {"echo", "cat", "gone", "x", "y"}
Echo == EXEC(<<"echo", "x">>)
Cat == EXEC(<<"cat">>)
Commands ==
  {PIPE(Echo, PIPE(Cat, Cat)), PIPE(PIPE(Echo, Cat), Cat), LIST(PIPE(Echo, Cat), Cat), BACK(PIPE(Echo, Cat)),
   LIST(BACK(Echo), LIST(PIPE(Echo, Cat), NoCmd)), LIST(LIST(Cat, Echo), Cat), BACK(LIST(Cat, Echo)),
   BACK(BACK(Echo)), PIPE(BACK(Echo), Cat), PIPE(LIST(Echo, Cat), Cat), PIPE(EXEC(<<"gone">>), Cat),
   REDIR(REDIR(Cat, "x", "<"), "y", ">"), PIPE(REDIR(Echo, "y", ">>"), Cat), PIPE(Cat, REDIR(Cat, "gone", "<")),
   REDIR(PIPE(Echo, LIST(Cat, Cat)), "x", ">"), REDIR(EXEC(<<>>), "x", ">"), REDIR(BACK(Echo), "y", ">")}
Malformed ==
  {<<"(", "echo">>, <<"echo", ")">>, <<"cat", "<">>, <<"cat", ">", "|", "cat">>, <<"echo", "x", "x">>,
   <<"cat", "|", "(", ";", ")", "x">>, <<"cat", "(", ")">>}
MCTyped ==
  {[line |-> Line(c), means |-> c] : c \in Commands}
    \cup {[line |-> l, means |-> Panic] : l \in Malformed}
    \cup {[line |-> <<"<", "x", "cat", "x">>, means |-> REDIR(EXEC(<<"cat", "x">>), "x", "<")],
          [line |-> <<"(", "(", "cat", ")", ")">>, means |-> Cat]}

KernelInit ==
  /\ unit \in {"proc", "spinlock", "malloc", "shell", "mkfs"}
  /\ Init /\ SpinInit /\ MallocInit /\ ShellInit /\ MkfsInit

kernelVars == <<unit, vars, spinVars, mallocVars, shellVars, mkfsVars>>

KernelNext ==
  \/ unit = "proc" /\ Next /\ UNCHANGED <<unit, spinVars, mallocVars, shellVars, mkfsVars>>
  \/ unit = "spinlock" /\ SpinNext /\ UNCHANGED <<unit, vars, mallocVars, shellVars, mkfsVars>>
  \/ unit = "malloc" /\ MallocNext /\ UNCHANGED <<unit, vars, spinVars, shellVars, mkfsVars>>
  \/ unit = "shell" /\ ShellNext /\ UNCHANGED <<unit, vars, spinVars, mallocVars, mkfsVars>>
  \/ unit = "mkfs" /\ MkfsNext /\ UNCHANGED <<unit, vars, spinVars, mallocVars, shellVars>>

KernelSpec == KernelInit /\ [][KernelNext]_kernelVars

Symmetry == Permutations(CPUs)

(* The parts that a behaviour does not move stay as they started. *)
View ==
  <<unit, CASE unit = "proc" -> vars [] unit = "spinlock" -> spinVars
            [] unit = "malloc" -> mallocVars [] unit = "shell" -> shellVars [] unit = "mkfs" -> mkfsVars>>
=============================================================================
