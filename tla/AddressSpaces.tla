--------------------------- MODULE AddressSpaces ----------------------------
(***************************************************************************)
(* What fork, sbrk, exec and copyout promise: each process has an image of *)
(* its own, a function from pages to permissions and contents.             *)
(***************************************************************************)
EXTENDS Integers, Sequences

CONSTANTS Tasks, FirstTask, PGSIZE, Programs

VARIABLES live,    \* processes that exist
          image    \* per process: its pages

vars == <<live, image>>

Page(u, w, data) == [u |-> u, w |-> w, data |-> data]
Zeroed == [i \in 0 .. PGSIZE - 1 |-> 0]
Size(t) == IF image[t] = <<>> THEN 0 ELSE CHOOSE n \in 1 .. 100 : DOMAIN image[t] = 0 .. n - 1

Init ==
  /\ live = {FirstTask}
  /\ image = [t \in Tasks |-> IF t = FirstTask
                               THEN [va \in {0} |-> Page(TRUE, TRUE, [i \in 0 .. PGSIZE - 1 |-> 2])]
                               ELSE <<>>]

Fork(t, c) ==
  /\ t \in live /\ c \notin live
  /\ live' = live \cup {c}
  /\ image' = [image EXCEPT ![c] = image[t]]

Free(t) ==
  /\ t \in live \ {FirstTask}
  /\ live' = live \ {t}
  /\ image' = [image EXCEPT ![t] = <<>>]

Resize(t, n) ==
  /\ t \in live
  /\ image' = [image EXCEPT ![t] =
       [va \in 0 .. n - 1 |-> IF va < Size(t) THEN image[t][va] ELSE Page(TRUE, TRUE, Zeroed)]]
  /\ UNCHANGED live

Store(t, addrs, v) ==
  /\ t \in live
  /\ \A a \in addrs : /\ (a \div PGSIZE) \in DOMAIN image[t]
                       /\ image[t][a \div PGSIZE].u /\ image[t][a \div PGSIZE].w
  /\ image' = [image EXCEPT ![t] = [va \in DOMAIN image[t] |->
       [image[t][va] EXCEPT !.data = [i \in 0 .. PGSIZE - 1 |->
          IF va * PGSIZE + i \in addrs THEN v ELSE image[t][va].data[i]]]]]
  /\ UNCHANGED live

(* The image of a program with argc arguments: what its segments take from *)
(* the file, zeros, a guard page and the stack.                            *)
ProgramImage(prog, argc) ==
  LET First(i) == prog[i].vaddr * PGSIZE
      Pages(i) == (First(i) + prog[i].memsz + PGSIZE - 1) \div PGSIZE
      n == CHOOSE m \in {Pages(i) : i \in DOMAIN prog} : \A i \in DOMAIN prog : Pages(i) <= m
      Loads(a) == {i \in DOMAIN prog : a \in First(i) .. First(i) + prog[i].filesz - 1}
      Maps(va) == {i \in DOMAIN prog : va < Pages(i)}
      Least(s) == CHOOSE i \in s : \A j \in s : i <= j
      Last(s) == CHOOSE i \in s : \A j \in s : i >= j
      text(va) == Page(TRUE, prog[Least(Maps(va))].w, [i \in 0 .. PGSIZE - 1 |->
                    LET l == Loads(va * PGSIZE + i) IN IF l = {} THEN 0 ELSE prog[Last(l)].data])
      stack == [i \in 0 .. PGSIZE - 1 |-> CASE i >= PGSIZE - argc -> 3
                                            [] i = PGSIZE - argc - 1 -> 4 [] OTHER -> 0]
  IN  [va \in 0 .. n + 1 |-> CASE va < n -> text(va)
                                [] va = n -> Page(FALSE, TRUE, Zeroed)
                                [] OTHER -> Page(TRUE, TRUE, stack)]

Exec(t, prog, argc) ==
  /\ t \in live /\ argc < PGSIZE
  /\ \A i \in DOMAIN prog : prog[i].file = "good" /\ prog[i].memsz >= prog[i].filesz
  /\ image' = [image EXCEPT ![t] = ProgramImage(prog, argc)]
  /\ UNCHANGED live

Next == \E t \in live :
  \/ \E c \in Tasks : Fork(t, c)
  \/ Free(t)
  \/ \E n \in 0 .. Size(t) + 2 : Resize(t, n)
  \/ \E a \in 0 .. Size(t) * PGSIZE, n \in 1 .. PGSIZE : Store(t, a .. a + n - 1, 6)
  \/ \E prog \in Programs, argc \in 0 .. PGSIZE - 1 : Exec(t, prog, argc)

Spec == Init /\ [][Next]_vars
=============================================================================
