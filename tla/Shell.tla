------------------------------- MODULE Shell --------------------------------
(***************************************************************************)
(* The shell (user/sh.c): main() forks a child per line and waits for it;  *)
(* the child parses the line and runs the command tree, forking, making    *)
(* pipes and moving file descriptors as it goes down the tree.  The system *)
(* calls and the programs it runs are modelled by what the shell relies on.*)
(***************************************************************************)
EXTENDS Parser, FiniteSets

CONSTANTS Typed,      \* what the user may type: a line, and the command it means
          Missing,    \* the words that name no program and no file to read
          Copying,    \* the programs that copy their input to their output
          NSHPROC,    \* process slots
          NFD,        \* file descriptors of a process
          MAXLINES,   \* lines typed
          MAXREFUSED  \* forks and pipes that the kernel refuses

VARIABLES job,        \* the processes; the first is the shell
          pipes,      \* pipes[k]: the bytes in the pipe, and the node that made it
          typed,      \* the lines typed so far
          refused     \* forks and pipes refused so far

shellVars == <<job, pipes, typed, refused>>

ShTasks == 1..NSHPROC
Fds == 0..(NFD - 1)
Closed == <<"closed", 0>>
Tty == <<"tty", 0>>
NoCmd == EXEC(<<>>)
Gone == [at |-> "free", cmd |-> NoCmd, node |-> <<>>, fd |-> [f \in Fds |-> Closed],
         line |-> 0, parent |-> 0, p |-> <<0, 0>>]

LowestOf(S) == CHOOSE x \in S : \A y \in S : x <= y
FreeFds(t) == {f \in Fds : t.fd[f] = Closed}
FreeTasks == {i \in ShTasks : job[i].at = "free"}
Kids(i) == {j \in ShTasks : job[j].at # "free" /\ job[j].parent = i}
Holds(end, k) == {i \in ShTasks : \E f \in Fds : job[i].fd[f] = <<end, k>>}
FreePipes == {k \in DOMAIN pipes : Holds("read", k) = {} /\ Holds("write", k) = {}}

ShellInit ==
  /\ job = [i \in ShTasks |->
               IF i = 1 THEN [Gone EXCEPT !.at = "prompt", !.fd = [f \in Fds |-> IF f < 3 THEN Tty ELSE Closed]]
               ELSE Gone]
  /\ pipes = [k \in 1..NSHPROC |-> [n |-> 0, node |-> <<>>]]
  /\ typed = <<>>
  /\ refused = 0

close(t, f) == [t EXCEPT !.fd[f] = Closed]
openLowest(t, obj) == [t EXCEPT !.fd[LowestOf(FreeFds(t))] = obj]
dup(t, f) == openLowest(t, t.fd[f])

(* exit(): the descriptors close and the children go to init, which waits   *)
(* for every child of its own.                                              *)
shExit(i) ==
  job' = [j \in ShTasks |->
             IF j = i THEN IF job[i].parent = 0 THEN Gone
                           ELSE [Gone EXCEPT !.at = "zombie", !.parent = job[i].parent]
             ELSE IF j \in Kids(i) THEN IF job[j].at = "zombie" THEN Gone ELSE [job[j] EXCEPT !.parent = 0]
             ELSE job[j]]

(* A system call that the kernel refuses: the shell panics. *)
refuse(i) == refused < MAXREFUSED /\ refused' = refused + 1 /\ shExit(i)

(* fork1(): the child runs cmd, the node of the tree below i's by step, and *)
(* the parent goes on at next.                                              *)
fork1(i, cmd, step, at, next) ==
  \/ /\ job' = [job EXCEPT ![LowestOf(FreeTasks)] =
                               [job[i] EXCEPT !.at = at, !.cmd = cmd, !.node = Append(@, step), !.parent = i],
                             ![i].at = next]
     /\ UNCHANGED refused
  \/ refuse(i)

(* wait(0) reaps a child that has exited; the shell calls it once for each  *)
(* child it has, so that it never fails.                                    *)
shWait(i, next) ==
  \E j \in Kids(i) : /\ job[j].at = "zombie"
                     /\ job' = [job EXCEPT ![j] = Gone, ![i].at = next]

Reached(i, place, type) == job[i].at = place /\ job[i].cmd.type = type
-----------------------------------------------------------------------------
(* main(): the line is typed, a child parses and runs it, and the shell     *)
(* waits.  A failed fork ends the shell.                                    *)
getcmd ==
  /\ job[1].at = "prompt" /\ Len(typed) < MAXLINES
  /\ \E t \in Typed : typed' = Append(typed, t)
  /\ job' = [job EXCEPT ![1].at = "fork", ![1].line = @ + 1]
  /\ UNCHANGED <<pipes, refused>>

mainFork ==
  /\ job[1].at = "fork"
  /\ fork1(1, NoCmd, "line", "parse", "wait")
  /\ UNCHANGED <<pipes, typed>>

parse(i) ==
  /\ job[i].at = "parse"
  /\ LET r == parsecmd(typed[job[i].line].line) IN
       IF r.ok THEN job' = [job EXCEPT ![i].at = "run", ![i].cmd = r.cmd]
       ELSE shExit(i)
  /\ UNCHANGED <<pipes, typed, refused>>

mainWait ==
  /\ job[1].at = "wait" /\ shWait(1, "prompt")
  /\ UNCHANGED <<pipes, typed, refused>>

runExec(i) ==
  /\ Reached(i, "run", "EXEC")
  /\ LET argv == job[i].cmd.argv IN
       IF argv = <<>> \/ Head(argv) \in Missing THEN shExit(i)
       ELSE job' = [job EXCEPT ![i].at = IF Head(argv) \in Copying THEN "input" ELSE "output"]
  /\ UNCHANGED <<pipes, typed, refused>>

runRedir(i) ==
  /\ Reached(i, "run", "REDIR")
  /\ LET c == job[i].cmd IN
       IF c.mode = "<" /\ c.file \in Missing THEN shExit(i)
       ELSE job' = [job EXCEPT ![i] = [openLowest(close(@, c.fd), <<"file", c.file>>) EXCEPT
                                           !.cmd = c.cmd, !.node = Append(@, "cmd")]]
  /\ UNCHANGED <<pipes, typed, refused>>

runList(i) ==
  /\ Reached(i, "run", "LIST")
  /\ fork1(i, job[i].cmd.left, "first", "run", "list")
  /\ UNCHANGED <<pipes, typed>>

ListWaits(i) == shWait(i, "second")

listWait(i) == Reached(i, "list", "LIST") /\ ListWaits(i) /\ UNCHANGED <<pipes, typed, refused>>

listRight(i) ==
  /\ Reached(i, "second", "LIST")
  /\ job' = [job EXCEPT ![i].at = "run", ![i].cmd = @.right, ![i].node = Append(@, "then")]
  /\ UNCHANGED <<pipes, typed, refused>>

runBack(i) ==
  /\ Reached(i, "run", "BACK")
  /\ fork1(i, job[i].cmd.cmd, "back", "run", "leave")
  /\ UNCHANGED <<pipes, typed>>

leave(i) == job[i].at = "leave" /\ shExit(i) /\ UNCHANGED <<pipes, typed, refused>>

(* The pipe takes the two lowest free descriptors. *)
runPipe(i) ==
  /\ Reached(i, "run", "PIPE")
  /\ \/ LET k == LowestOf(FreePipes)
            r == LowestOf(FreeFds(job[i]))
            w == LowestOf(FreeFds(job[i]) \ {r})
        IN /\ job' = [job EXCEPT ![i] = [@ EXCEPT !.at = "pipe", !.p = <<r, w>>,
                                                    !.fd[r] = <<"read", k>>, !.fd[w] = <<"write", k>>]]
           /\ pipes' = [pipes EXCEPT ![k] = [n |-> 0, node |-> job[i].node]]
           /\ UNCHANGED refused
     \/ refuse(i) /\ UNCHANGED pipes
  /\ UNCHANGED typed

pipeLeft(i) ==
  /\ Reached(i, "pipe", "PIPE")
  /\ fork1(i, job[i].cmd.left, "left", "left", "piped")
  /\ UNCHANGED <<pipes, typed>>

pipeRight(i) ==
  /\ Reached(i, "piped", "PIPE")
  /\ fork1(i, job[i].cmd.right, "right", "right", "close")
  /\ UNCHANGED <<pipes, typed>>

(* Variant of BothClosed that closes the reading end only. *)
BothClosed_Read(t) == close(t, t.p[1])

BothClosed(t) == close(close(t, t.p[1]), t.p[2])

(* The child's end of the pipe becomes its descriptor f. *)
Takes(i, f, end) ==
  /\ job' = [job EXCEPT ![i] = [BothClosed(dup(close(@, f), @.p[end])) EXCEPT !.at = "run"]]
  /\ UNCHANGED <<pipes, typed, refused>>

leftEnd(i) == job[i].at = "left" /\ Takes(i, 1, 2)
rightEnd(i) == job[i].at = "right" /\ Takes(i, 0, 1)

(* Variant of ParentCloses that keeps the descriptors. *)
ParentCloses_Not(t) == t

ParentCloses(t) == BothClosed(t)

pipeClose(i) ==
  /\ Reached(i, "close", "PIPE")
  /\ job' = [job EXCEPT ![i] = [ParentCloses(@) EXCEPT !.at = "wait1"]]
  /\ UNCHANGED <<pipes, typed, refused>>

pipeWait(i) ==
  /\ \/ Reached(i, "wait1", "PIPE") /\ shWait(i, "wait2")
     \/ Reached(i, "wait2", "PIPE") /\ shWait(i, "leave")
  /\ UNCHANGED <<pipes, typed, refused>>
-----------------------------------------------------------------------------
(* The programs: one that copies reads until the end of its input, the      *)
(* others write once.  A pipe holds one item; reading an empty one waits    *)
(* for a writer or the last writer's close, and writing fails without       *)
(* readers.                                                                 *)
input(i) ==
  /\ job[i].at = "input"
  /\ LET in == job[i].fd[0] IN
       IF in[1] # "read" THEN shExit(i) /\ UNCHANGED pipes
       ELSE \/ /\ pipes[in[2]].n = 1
               /\ pipes' = [pipes EXCEPT ![in[2]].n = 0]
               /\ job' = [job EXCEPT ![i].at = "output"]
            \/ pipes[in[2]].n = 0 /\ Holds("write", in[2]) = {} /\ shExit(i) /\ UNCHANGED pipes
  /\ UNCHANGED <<typed, refused>>

wrote(i) ==
  IF Head(job[i].cmd.argv) \in Copying THEN job' = [job EXCEPT ![i].at = "input"] ELSE shExit(i)

output(i) ==
  /\ job[i].at = "output"
  /\ LET out == job[i].fd[1] IN
     IF out[1] # "write" THEN wrote(i) /\ UNCHANGED pipes
        ELSE \/ Holds("read", out[2]) = {} /\ shExit(i) /\ UNCHANGED pipes
             \/ /\ Holds("read", out[2]) # {} /\ pipes[out[2]].n = 0
                /\ pipes' = [pipes EXCEPT ![out[2]].n = 1]
                /\ wrote(i)
  /\ UNCHANGED <<typed, refused>>

runcmd(i) == \/ runExec(i) \/ runRedir(i) \/ runList(i) \/ listWait(i) \/ listRight(i) \/ runBack(i) \/ leave(i)
             \/ runPipe(i) \/ pipeLeft(i) \/ pipeRight(i) \/ leftEnd(i) \/ rightEnd(i) \/ pipeClose(i) \/ pipeWait(i)

program(i) == input(i) \/ output(i)

ShellMoves == \/ mainFork \/ mainWait
              \/ \E i \in ShTasks : parse(i) \/ runcmd(i) \/ program(i)

(* Every process is gone but the shell, at its prompt or killed by a failed *)
(* fork.                                                                    *)
Idle == \A i \in ShTasks : job[i].at \in (IF i = 1 THEN {"prompt", "free"} ELSE {"free"})

shellDone == Idle /\ UNCHANGED shellVars

ShellNext == getcmd \/ ShellMoves \/ shellDone

ShellSpec == ShellInit /\ [][ShellNext]_shellVars
-----------------------------------------------------------------------------
(* Where a program reads and writes, from the command tree alone: the       *)
(* descriptors in force above the path, replaced by each redirection and    *)
(* each side of a pipe on the way down.                                     *)
RECURSIVE Ends(_, _, _, _)
Ends(cmd, above, path, ends) ==
  IF path = <<>> THEN ends
  ELSE LET step == Head(path)
           here == CASE step = "cmd"   -> [ends EXCEPT ![cmd.fd] = <<"file", cmd.file>>]
                     [] step = "left"  -> [ends EXCEPT ![1] = <<"write", above>>]
                     [] step = "right" -> [ends EXCEPT ![0] = <<"read", above>>]
                     [] OTHER          -> ends
           next == CASE step \in {"cmd", "back"}    -> cmd.cmd
                     [] step \in {"left", "first"} -> cmd.left
                     [] step \in {"right", "then"} -> cmd.right
       IN Ends(next, Append(above, step), Tail(path), here)

Named(obj) == IF obj[1] \in {"read", "write"} THEN <<obj[1], pipes[obj[2]].node>> ELSE obj

(* A program starts with the descriptors its place in the command calls for *)
(* and with no other: a stray end of a pipe would keep a reader from its    *)
(* end of file, or a writer from its error, for as long as the program runs.*)
ProgramsAreWired ==
  \A i \in ShTasks : job[i].at \in {"input", "output"} =>
    LET ends == Ends(typed[job[i].line].means, <<"line">>, Tail(job[i].node), [f \in 0..2 |-> Tty])
    IN \A f \in Fds : IF f < 3 THEN Named(job[i].fd[f]) = ends[f] ELSE job[i].fd[f] = Closed

Live(i) == job[i].at \notin {"free", "zombie"}
Waits(i) == /\ job[i].at \in {"wait", "list", "wait1", "wait2"}
            /\ \A j \in Kids(i) : job[j].at # "zombie"
Reads(i) == /\ job[i].at = "input" /\ job[i].fd[0][1] = "read"
            /\ LET k == job[i].fd[0][2] IN pipes[k].n = 0 /\ Holds("write", k) # {}
Writes(i) == /\ job[i].at = "output" /\ job[i].fd[1][1] = "write"
             /\ LET k == job[i].fd[1][2] IN pipes[k].n = 1 /\ Holds("read", k) # {}

(* Whatever the kernel refuses, no set of processes is left waiting for one *)
(* another: as long as a process is left besides the shell at its prompt,   *)
(* one of them waits neither for a child nor for the other end of a pipe.   *)
CommandsEnd ==
  Idle \/ \E i \in ShTasks : /\ Live(i) /\ job[i].at # "prompt"
                             /\ ~Waits(i) /\ ~Reads(i) /\ ~Writes(i)
=============================================================================
