----------------------------- MODULE PipeProofs -----------------------------
(***************************************************************************)
(* Proofs about the pipes of Pipe.  pi->lock is given up only in sleep()   *)
(* and on return, so a process between the test of readopen and the store  *)
(* of its byte still has the pipe as it tested it; that, and that an end   *)
(* is open exactly while some process has not closed it, is PipeInv.  The  *)
(* rest is arithmetic: nread and nwrite wrap at UINT, a multiple of        *)
(* PIPESIZE, and the queue of the abstract specification is read off them. *)
(***************************************************************************)
EXTENDS Pipe, Sequences, SequenceTheorems, TLAPS

-----------------------------------------------------------------------------
(* Division with remainder.                                                *)
LEMMA Division ==
  ASSUME NEW n \in Nat \ {0}, NEW a \in Int
  PROVE  /\ a % n \in 0 .. n - 1
         /\ a \div n \in Int
         /\ a = n * (a \div n) + (a % n)
OBVIOUS

(* A multiple of n smaller than n is zero.                                 *)
LEMMA SmallMultiple ==
  ASSUME NEW n \in Nat \ {0}, NEW q \in Int, n * q < n, n * q > 0 - n
  PROVE  q = 0
OBVIOUS

(* The remainder is unique.                                                *)
LEMMA Remainder ==
  ASSUME NEW n \in Nat \ {0}, NEW a \in Int, NEW q \in Int, NEW r \in 0 .. n - 1,
         a = n * q + r
  PROVE  a % n = r
<1> DEFINE d == a \div n
           s == a % n
<1> HIDE DEF d, s
<1> QED OBVIOUS

(* A multiple of n does not change the remainder.                          *)
LEMMA Shift ==
  ASSUME NEW n \in Nat \ {0}, NEW a \in Int, NEW k \in Int
  PROVE  (a + k * n) % n = a % n
<1> DEFINE d == a \div n
           s == a % n
<1>1. d \in Int /\ s \in 0 .. n - 1 /\ a = n * d + s
  OBVIOUS
<1> HIDE DEF d, s
<1>3. (a + k * n) % n = s
  BY <1>1
<1> QED BY <1>3 DEF s

(* Numbers less than n apart have different remainders.                    *)
LEMMA Apart ==
  ASSUME NEW n \in Nat \ {0}, NEW a \in Int, NEW d \in 1 .. n - 1
  PROVE  (a + d) % n # a % n
<1> SUFFICES ASSUME (a + d) % n = a % n PROVE FALSE
  OBVIOUS
<1> DEFINE u == a \div n
           v == (a + d) \div n
           s == a % n
           t == (a + d) % n
<1>1. u \in Int /\ s \in Int /\ a = n * u + s
  OBVIOUS
<1>3. v \in Int /\ a + d = n * v + t
  OBVIOUS
<1> HIDE DEF u, v, s, t
<1>5. d = n * (v - u)
  BY <1>1
<1>6. v - u = 0
  BY <1>1, <1>3
<1> QED BY <1>5, <1>6

-----------------------------------------------------------------------------
(* nwrite - nread, as the uints they are.                                  *)
Count(r, w) == (w - r) % UINT

(* UINT is a multiple of PIPESIZE, and larger.                             *)
LEMMA Multiple == \E k \in Int : k >= 2 /\ UINT = k * PIPESIZE
BY PipeAssumption

(* The sizes are positive, and the counters reach beyond a full ring.      *)
LEMMA Sizes ==
  PIPESIZE \in Nat \ {0} /\ UINT \in Nat \ {0} /\ UINT >= 2 * PIPESIZE
<1>1. PICK k \in Int : k >= 2 /\ UINT = k * PIPESIZE
  BY Multiple
<1>2. PIPESIZE \in Nat \ {0}
  BY PipeAssumption
<1> QED BY <1>1, <1>2

(* The difference of the counters is taken modulo UINT.                    *)
LEMMA CountIs ==
  ASSUME NEW r \in 0 .. UINT - 1, NEW w \in 0 .. UINT - 1
  PROVE  Count(r, w) = IF r <= w THEN w - r ELSE w - r + UINT
BY Sizes DEF Count

(* A counter goes back to 0 after UINT - 1.                                *)
LEMMA IncIs ==
  ASSUME NEW n \in 0 .. UINT - 1
  PROVE  Inc(n) = IF n = UINT - 1 THEN 0 ELSE n + 1
BY Sizes DEF Inc

(* Wrapping at UINT does not change the slot of data[].                    *)
LEMMA SameSlot ==
  ASSUME NEW n \in Int
  PROVE  (n + UINT) % PIPESIZE = n % PIPESIZE
<1>1. PICK k \in Int : UINT = k * PIPESIZE
  BY Multiple
<1>2. (n + k * PIPESIZE) % PIPESIZE = n % PIPESIZE
  BY Sizes, Shift, Zenon
<1> QED BY <1>1, <1>2

(* A byte stored in a pipe that is not full goes to the slot after the     *)
(* last one in use.                                                        *)
LEMMA PutCount ==
  ASSUME NEW r \in 0 .. UINT - 1, NEW w \in 0 .. UINT - 1,
         Count(r, w) <= PIPESIZE, w # (r + PIPESIZE) % UINT
  PROVE  /\ Count(r, w) \in 0 .. PIPESIZE - 1
         /\ Inc(w) \in 0 .. UINT - 1
         /\ Count(r, Inc(w)) = Count(r, w) + 1
         /\ w % PIPESIZE = (r + Count(r, w)) % PIPESIZE
<1>2. Count(r, w) \in 0 .. PIPESIZE - 1
  <2>1. Count(r, w) = IF r <= w THEN w - r ELSE w - r + UINT
    BY CountIs
  <2> QED BY <2>1, Sizes
<1>3. Inc(w) \in 0 .. UINT - 1
  BY Sizes, IncIs
<1>4. Count(r, Inc(w)) = Count(r, w) + 1
  <2>1. Count(r, w) = IF r <= w THEN w - r ELSE w - r + UINT
    BY CountIs
  <2>2. Count(r, Inc(w)) = IF r <= Inc(w) THEN Inc(w) - r ELSE Inc(w) - r + UINT
    BY <1>3, CountIs
  <2> QED BY <2>1, <2>2, Sizes, IncIs
<1>5. r + Count(r, w) = w \/ r + Count(r, w) = w + UINT
  BY CountIs, Sizes
<1>6. (w + UINT) % PIPESIZE = w % PIPESIZE
  BY SameSlot
<1> QED BY <1>2, <1>3, <1>4, <1>5, <1>6

(* A byte taken from a pipe that is not empty is the one in the first slot *)
(* in use.                                                                 *)
LEMMA GetCount ==
  ASSUME NEW r \in 0 .. UINT - 1, NEW w \in 0 .. UINT - 1, r # w
  PROVE  /\ Count(r, w) > 0
         /\ Inc(r) \in 0 .. UINT - 1
         /\ Count(Inc(r), w) = Count(r, w) - 1
         /\ \A i \in Nat : (Inc(r) + i) % PIPESIZE = (r + 1 + i) % PIPESIZE
<1>1. Count(r, w) > 0
  BY Sizes, CountIs
<1>2. Inc(r) \in 0 .. UINT - 1
  BY Sizes, IncIs
<1>3. Count(Inc(r), w) = Count(r, w) - 1
  BY Sizes, IncIs, CountIs
<1>4. ASSUME NEW i \in Nat PROVE (Inc(r) + i) % PIPESIZE = (r + 1 + i) % PIPESIZE
  <2>1. Inc(r) + i = r + 1 + i \/ r + 1 + i = (Inc(r) + i) + UINT
    BY Sizes, IncIs
  <2>2. ((Inc(r) + i) + UINT) % PIPESIZE = (Inc(r) + i) % PIPESIZE
    BY <1>2, SameSlot
  <2> QED BY <2>1, <2>2
<1> QED BY <1>1, <1>2, <1>3, <1>4

-----------------------------------------------------------------------------
Writing == {"w_loop", "w_body", "w_sleep", "w_wake"}
Reading == {"r_loop", "r_block", "r_copy", "r_sleep", "r_wake"}
Locked == {"w_loop", "w_body", "r_loop", "r_block", "r_copy"}

Typed ==
  /\ data \in [0 .. PIPESIZE - 1 -> Bytes]
  /\ nread \in 0 .. UINT - 1 /\ nwrite \in 0 .. UINT - 1
  /\ readopen \in BOOLEAN /\ writeopen \in BOOLEAN
  /\ lock \in Procs \cup {NoOne}
  /\ open \subseteq Procs
  /\ left \in [Procs -> Nat]
  /\ pc \in [Procs -> Writing \cup Reading \cup {"idle"}]

(* Where p is in a call, on its own end, that it has not closed.           *)
CallInv(p) ==
  /\ pc[p] \in Writing => p \in open \cap Writers
  /\ pc[p] \in Reading => p \in open \cap Readers
  /\ pc[p] \in Locked => lock = p
  /\ pc[p] = "w_body" => readopen /\ left[p] > 0

(* An end is open while some process has not closed it; the pipe is freed  *)
(* with the second end, and never holds more than PIPESIZE bytes.          *)
EndInv ==
  /\ readopen <=> open \cap Readers # {}
  /\ writeopen <=> open \cap Writers # {}
  /\ freed = (~readopen /\ ~writeopen)
  /\ Count(nread, nwrite) <= PIPESIZE

PipeInv == Typed /\ EndInv /\ \A p \in Procs : CallInv(p)

(* Each end of the pipe has users of its own.                              *)
LEMMA ProcSets ==
  /\ Writers # {} /\ Readers # {} /\ Writers \cap Readers = {}
  /\ NoOne \notin Writers \cup Readers
BY PipeAssumption DEF Procs

(* wakeup() moves only the processes that sleep on its channel.            *)
LEMMA WakeTyped ==
  ASSUME Typed
  PROVE  /\ WakeReaders(pc) \in [Procs -> Writing \cup Reading \cup {"idle"}]
         /\ WakeWriters(pc) \in [Procs -> Writing \cup Reading \cup {"idle"}]
BY DEF Typed, WakeReaders, WakeWriters, Writing, Reading

(* pipealloc() returns an empty pipe with both ends open.                  *)
LEMMA PipeInitial ==
  ASSUME Init
  PROVE  PipeInv
<1> USE ProcSets DEF Procs
<1>1. Typed
  BY Sizes DEF Init, Fresh, Typed
<1>2. EndInv
  <2>1. Count(0, 0) = 0
    BY CountIs, Sizes
  <2>2. open \cap Readers # {} /\ open \cap Writers # {}
    BY DEF Init
  <2>3. nread = 0 /\ nwrite = 0 /\ readopen /\ writeopen /\ ~freed /\ freed = FALSE
    BY DEF Init, Fresh
  <2>4. 0 <= PIPESIZE
    BY Sizes
  <2> QED BY <2>1, <2>2, <2>3, <2>4, Zenon DEF EndInv
<1>3. ASSUME NEW p \in Procs PROVE CallInv(p)
  BY DEF Init, CallInv, Writing, Reading, Locked
<1> QED BY <1>1, <1>2, <1>3 DEF PipeInv

(* pipewrite() enters the pipe with pi->lock.                              *)
LEMMA pipewriteKeeps ==
  ASSUME PipeInv, NEW n \in 0 .. MAXN, NEW p \in Writers, pipewrite(p, n)
  PROVE  PipeInv'
<1> USE ProcSets DEF Procs
<1>1. Typed /\ EndInv
  BY DEF PipeInv
<1>3. Typed'
  BY <1>1 DEF Typed, pipewrite, endVars, Acquire, Writing
<1>4. EndInv'
  BY <1>1 DEF EndInv, pipewrite, endVars
<1>5. ASSUME NEW q \in Procs PROVE CallInv(q)'
  <2>1. CallInv(q)
    BY DEF PipeInv
  <2> QED BY <2>1 DEF CallInv, pipewrite, endVars, Acquire, Reading
<1> QED BY <1>3, <1>4, <1>5 DEF PipeInv

(* piperead() enters the pipe with pi->lock.                               *)
LEMMA pipereadKeeps ==
  ASSUME PipeInv, NEW n \in 0 .. MAXN, NEW p \in Readers, piperead(p, n)
  PROVE  PipeInv'
<1> USE ProcSets DEF Procs
<1>1. Typed /\ EndInv
  BY DEF PipeInv
<1>3. Typed'
  BY <1>1 DEF Typed, piperead, endVars, Acquire, Reading
<1>4. EndInv'
  BY <1>1 DEF EndInv, piperead, endVars
<1>5. ASSUME NEW q \in Procs PROVE CallInv(q)'
  <2>1. CallInv(q)
    BY DEF PipeInv
  <2> QED BY <2>1 DEF CallInv, piperead, endVars, Acquire, Writing
<1> QED BY <1>3, <1>4, <1>5 DEF PipeInv

(* A woken writer takes pi->lock again.                                    *)
LEMMA pipewrite_wakeKeeps ==
  ASSUME PipeInv, NEW p \in Procs, pipewrite_wake(p)
  PROVE  PipeInv'
<1> USE ProcSets DEF Procs
<1>1. Typed /\ EndInv
  BY DEF PipeInv
<1>2. CallInv(p)
  BY DEF PipeInv
<1>3. Typed'
  BY <1>1, <1>2 DEF Typed, pipewrite_wake, endVars, Acquire, Writing
<1>4. EndInv'
  BY <1>1 DEF EndInv, pipewrite_wake, endVars
<1>5. ASSUME NEW q \in Procs PROVE CallInv(q)'
  <2>1. CallInv(q)
    BY DEF PipeInv
  <2> QED
    BY <2>1 DEF CallInv, pipewrite_wake, endVars, Acquire, Writing, Reading, Locked
<1> QED BY <1>3, <1>4, <1>5 DEF PipeInv

(* A woken reader takes pi->lock again.                                    *)
LEMMA piperead_wakeKeeps ==
  ASSUME PipeInv, NEW p \in Procs, piperead_wake(p)
  PROVE  PipeInv'
<1> USE ProcSets DEF Procs
<1>1. Typed /\ EndInv
  BY DEF PipeInv
<1>3. Typed'
  BY <1>1 DEF Typed, piperead_wake, endVars, Acquire, Reading
<1>4. EndInv'
  BY <1>1 DEF EndInv, piperead_wake, endVars
<1>5. ASSUME NEW q \in Procs PROVE CallInv(q)'
  <2>1. CallInv(q)
    BY DEF PipeInv
  <2> QED
    BY <2>1 DEF CallInv, piperead_wake, endVars, Acquire, Writing, Reading, Locked
<1> QED BY <1>3, <1>4, <1>5 DEF PipeInv

(* A writer that goes on has seen the read end open.                       *)
LEMMA pipewrite_loopKeeps ==
  ASSUME PipeInv, NEW p \in Procs, pipewrite_loop(p)
  PROVE  PipeInv'
<1> USE ProcSets DEF Procs
<1>1. Typed /\ EndInv
  BY DEF PipeInv
<1>3. Typed'
  <2>1. pc' \in [Procs -> Writing \cup Reading \cup {"idle"}]
    BY <1>1, WakeTyped, Zenon DEF Typed, pipewrite_loop, Release, Writing
  <2>2. lock' \in Procs \cup {NoOne} /\ left' \in [Procs -> Nat]
    BY SMTT(60), <1>1 DEF Typed, pipewrite_loop, Release
  <2> QED BY <1>1, <2>1, <2>2, Zenon DEF Typed, pipewrite_loop, endVars
<1>4. EndInv'
  BY <1>1 DEF EndInv, pipewrite_loop, endVars
<1>5. ASSUME NEW q \in Procs PROVE CallInv(q)'
  <2>1. CallInv(q)
    BY DEF PipeInv
  <2> QED
    BY ZenonT(60), <1>1, <2>1
       DEF Typed, CallInv, pipewrite_loop, endVars, At, Release, WakeReaders,
           Writing, Reading, Locked
<1> QED BY <1>3, <1>4, <1>5 DEF PipeInv

(* A reader goes on to sleep, to copy, or returns.                         *)
LEMMA piperead_loopKeeps ==
  ASSUME PipeInv, NEW p \in Procs, piperead_loop(p)
  PROVE  PipeInv'
<1> USE ProcSets DEF Procs
<1>1. Typed /\ EndInv
  BY DEF PipeInv
<1>3. Typed'
  <2>1. pc' \in [Procs -> Writing \cup Reading \cup {"idle"}]
    BY SMTT(60), <1>1 DEF Typed, piperead_loop, Release, Reading
  <2>2. lock' \in Procs \cup {NoOne} /\ left' \in [Procs -> Nat]
    BY SMTT(60), <1>1 DEF Typed, piperead_loop, Release
  <2> QED BY <1>1, <2>1, <2>2, Zenon DEF Typed, piperead_loop, endVars
<1>4. EndInv'
  BY <1>1 DEF EndInv, piperead_loop, endVars
<1>5. ASSUME NEW q \in Procs PROVE CallInv(q)'
  <2>1. CallInv(q)
    BY DEF PipeInv
  <2> QED
    BY <1>1, <2>1
       DEF Typed, CallInv, piperead_loop, endVars, At, Release, Writing, Locked
<1> QED BY <1>3, <1>4, <1>5 DEF PipeInv

(* A reader sleeps and gives up pi->lock.                                  *)
LEMMA piperead_sleepKeeps ==
  ASSUME PipeInv, NEW p \in Procs, piperead_sleep(p)
  PROVE  PipeInv'
<1> USE ProcSets DEF Procs
<1>1. Typed /\ EndInv
  BY DEF PipeInv
<1>3. Typed'
  BY <1>1 DEF Typed, piperead_sleep, endVars, Sleep, Writing, Reading
<1>4. EndInv'
  BY <1>1 DEF EndInv, piperead_sleep, endVars
<1>5. ASSUME NEW q \in Procs PROVE CallInv(q)'
  <2>1. CallInv(q)
    BY DEF PipeInv
  <2> QED
    BY <1>1, <2>1
       DEF Typed, CallInv, piperead_sleep, endVars, At, Sleep, Writing, Locked
<1> QED BY <1>3, <1>4, <1>5 DEF PipeInv

(* A writer sleeps, returns, or stores a byte in the pipe, which is not    *)
(* full.                                                                   *)
LEMMA pipewrite_bodyKeeps ==
  ASSUME PipeInv, NEW p \in Procs, pipewrite_body(p)
  PROVE  PipeInv'
<1> USE ProcSets DEF Procs
<1>1. Typed /\ EndInv
  BY DEF PipeInv
<1>2. CallInv(p)
  BY DEF PipeInv
<1>3. \/ /\ ~Full /\ nwrite' = Inc(nwrite)
         /\ \E ch \in Bytes : data' = [data EXCEPT ![nwrite % PIPESIZE] = ch]
      \/ UNCHANGED <<data, nwrite>>
  BY DEF pipewrite_body
<1>4. Typed'
  <2>1. data' \in [0 .. PIPESIZE - 1 -> Bytes] /\ nwrite' \in 0 .. UINT - 1
    <3>1. CASE UNCHANGED <<data, nwrite>>
      BY <1>1, <3>1 DEF Typed
    <3>2. ASSUME NEW ch \in Bytes, data' = [data EXCEPT ![nwrite % PIPESIZE] = ch],
                 nwrite' = Inc(nwrite)
          PROVE  data' \in [0 .. PIPESIZE - 1 -> Bytes] /\ nwrite' \in 0 .. UINT - 1
      <4>2. Inc(nwrite) = IF nwrite = UINT - 1 THEN 0 ELSE nwrite + 1
        BY <1>1, IncIs DEF Typed
      <4> QED BY <1>1, <3>2, <4>2, Sizes DEF Typed
    <3> QED BY <1>3, <3>1, <3>2
  <2>2. pc' \in [Procs -> Writing \cup Reading \cup {"idle"}]
    BY <1>1, WakeTyped, Zenon DEF Typed, pipewrite_body, Release, Sleep, Writing
  <2>3. lock' \in Procs \cup {NoOne} /\ left' \in [Procs -> Nat]
    BY <1>1, <1>2 DEF Typed, CallInv, pipewrite_body, At, Release, Sleep
  <2> QED BY <1>1, <2>1, <2>2, <2>3, Zenon DEF Typed, pipewrite_body, endVars
<1>5. EndInv'
  <2>1. Count(nread, nwrite)' <= PIPESIZE
    BY SMTT(60), <1>1, Sizes, PutCount DEF Typed, EndInv, Full, pipewrite_body
  <2> QED BY <1>1, <2>1 DEF EndInv, pipewrite_body, endVars
<1>6. ASSUME NEW q \in Procs PROVE CallInv(q)'
  <2>1. CallInv(q)
    BY DEF PipeInv
  <2> QED
    BY ZenonT(60), <1>1, <2>1
       DEF Typed, CallInv, pipewrite_body, At, Release, Sleep, WakeReaders, endVars,
           Writing, Reading, Locked
<1> QED BY <1>4, <1>5, <1>6 DEF PipeInv

(* A reader takes a byte from the pipe, which is not empty, or returns.    *)
LEMMA piperead_copyKeeps ==
  ASSUME PipeInv, NEW p \in Procs, piperead_copy(p)
  PROVE  PipeInv'
<1> USE ProcSets DEF Procs
<1>1. Typed /\ EndInv
  BY DEF PipeInv
<1>3. (nread # nwrite /\ nread' = Inc(nread)) \/ UNCHANGED nread
  BY DEF piperead_copy, Empty
<1>4. Typed'
  <2>1. nread' \in 0 .. UINT - 1
    BY <1>1, <1>3, Sizes, IncIs DEF Typed
  <2>2. pc' \in [Procs -> Writing \cup Reading \cup {"idle"}]
    BY <1>1, WakeTyped DEF Typed, piperead_copy, Release
  <2>3. lock' \in Procs \cup {NoOne} /\ left' \in [Procs -> Nat]
    BY <1>1 DEF Typed, piperead_copy, Release
  <2> QED BY ZenonT(60), <1>1, <2>1, <2>2, <2>3 DEF Typed, piperead_copy, endVars
<1>5. EndInv'
  <2>1. Count(nread, nwrite) \in Nat
    BY <1>1, Sizes DEF Typed, Count
  <2>2. nread # nwrite => Count(Inc(nread), nwrite) = Count(nread, nwrite) - 1
    BY <1>1, GetCount DEF Typed
  <2>3. Count(nread, nwrite)' <= PIPESIZE
    BY <1>1, <1>3, <2>1, <2>2, Sizes DEF EndInv, piperead_copy
  <2> QED BY <1>1, <2>3 DEF EndInv, piperead_copy, endVars
<1>6. ASSUME NEW q \in Procs PROVE CallInv(q)'
  <2>1. CallInv(q)
    BY DEF PipeInv
  <2> QED
    BY <2>1, Zenon
       DEF CallInv, piperead_copy, At, Release, WakeWriters, endVars, Writing,
           Reading, Locked
<1> QED BY <1>4, <1>5, <1>6 DEF PipeInv

(* The last process to close an end closes it, while nobody is between a   *)
(* test of that end and what follows from it.                              *)
LEMMA pipecloseKeeps ==
  ASSUME PipeInv, NEW p \in Procs, pipeclose(p)
  PROVE  PipeInv'
<1> USE ProcSets DEF Procs
<1>1. Typed /\ EndInv
  BY DEF PipeInv
<1>2. pc' = WakeReaders(pc) \/ pc' = WakeWriters(pc) \/ pc' = pc
  BY DEF pipeclose
<1>3. Typed'
  <2>1. pc' \in [Procs -> Writing \cup Reading \cup {"idle"}]
    BY <1>1, <1>2, WakeTyped DEF Typed
  <2> QED BY <1>1, <2>1, Zenon DEF Typed, pipeclose
<1>4. EndInv'
  BY <1>1, Zenon DEF EndInv, pipeclose, Unused
<1>5. ASSUME NEW q \in Procs PROVE CallInv(q)'
  <2>1. CallInv(q)
    BY DEF PipeInv
  <2>2. \/ pc'[q] = pc[q]
        \/ pc[q] = "w_sleep" /\ pc'[q] = "w_wake"
        \/ pc[q] = "r_sleep" /\ pc'[q] = "r_wake"
    BY <1>2 DEF WakeReaders, WakeWriters
  <2> QED BY <2>1, <2>2 DEF CallInv, pipeclose, Writing, Reading, Locked
<1> QED BY <1>3, <1>4, <1>5 DEF PipeInv

(* A new pipe starts with nobody in it.                                    *)
LEMMA pipeallocKeeps ==
  ASSUME PipeInv, pipealloc
  PROVE  PipeInv'
<1> USE ProcSets DEF Procs
<1>1. Typed /\ EndInv
  BY DEF PipeInv
<1>2. Typed'
  BY <1>1, Sizes DEF Typed, pipealloc
<1>3. EndInv'
  <2>1. Count(0, 0) = 0 /\ 0 <= PIPESIZE
    BY CountIs, Sizes
  <2>2. open' \cap Readers # {} /\ open' \cap Writers # {}
    BY DEF pipealloc
  <2>3. nread' = 0 /\ nwrite' = 0 /\ readopen' /\ writeopen' /\ freed' = FALSE
    BY DEF pipealloc
  <2> QED BY <2>1, <2>2, <2>3, Zenon DEF EndInv
<1>4. ASSUME NEW q \in Procs PROVE CallInv(q)'
  <2>1. CallInv(q)
    BY DEF PipeInv
  <2> QED BY <2>1 DEF CallInv, pipealloc
<1> QED BY <1>2, <1>3, <1>4 DEF PipeInv

(* kill() moves a process out of its sleep and nothing else.               *)
LEMMA killKeeps ==
  ASSUME PipeInv, NEW p \in Procs, kill(p)
  PROVE  PipeInv'
<1> USE ProcSets DEF Procs
<1>1. Typed /\ EndInv
  BY DEF PipeInv
<1>2. Typed'
  BY <1>1 DEF Typed, kill, endVars, Writing, Reading
<1>3. EndInv'
  BY <1>1 DEF EndInv, kill, endVars
<1>4. ASSUME NEW q \in Procs PROVE CallInv(q)'
  <2>1. CallInv(q)
    BY DEF PipeInv
  <2> QED BY <2>1 DEF CallInv, kill, endVars, Writing, Reading, Locked
<1> QED BY <1>2, <1>3, <1>4 DEF PipeInv

(* Every step of a process at either end preserves the invariant.          *)
LEMMA PipeStep ==
  ASSUME PipeInv, [Next]_vars
  PROVE  PipeInv'
<1>1. CASE \E n \in 0 .. MAXN : \E p \in Writers : pipewrite(p, n)
  BY <1>1, pipewriteKeeps
<1>2. CASE \E n \in 0 .. MAXN : \E p \in Readers : piperead(p, n)
  BY <1>2, pipereadKeeps
<1>3. ASSUME NEW p \in Procs, Call(p) PROVE PipeInv'
  BY <1>3, pipewrite_wakeKeeps, pipewrite_loopKeeps, pipewrite_bodyKeeps,
     piperead_wakeKeeps, piperead_loopKeeps, piperead_sleepKeeps, piperead_copyKeeps
     DEF Call
<1>4. ASSUME NEW p \in Procs, pipeclose(p) PROVE PipeInv'
  BY <1>4, pipecloseKeeps
<1>5. ASSUME NEW p \in Procs, kill(p) PROVE PipeInv'
  BY <1>5, killKeeps
<1>6. CASE pipealloc
  BY <1>6, pipeallocKeeps
<1>7. CASE UNCHANGED vars
  BY <1>7 DEF PipeInv, Typed, EndInv, CallInv, vars
<1> QED BY <1>1, <1>2, <1>3, <1>4, <1>5, <1>6, <1>7 DEF Next

(* The pipe's invariant holds in every reachable state.                    *)
THEOREM PipeInvariance == Spec => []PipeInv
BY PipeInitial, PipeStep, PTL DEF Spec

(* pipeclose() frees the pipe only when no process can reach it any more:  *)
(* a process inside pipewrite() or piperead() holds an end it has not      *)
(* closed, which keeps that end open.                                      *)
THEOREM NoUseAfterFree == Spec => []FreedIsUnreachable
<1>1. ASSUME PipeInv PROVE FreedIsUnreachable
  <2> SUFFICES ASSUME freed PROVE open = {} /\ \A p \in Procs : pc[p] = "idle"
    BY DEF FreedIsUnreachable
  <2>1. open = {}
    BY <1>1, Zenon DEF PipeInv, Typed, EndInv, Procs
  <2>2. ASSUME NEW p \in Procs PROVE pc[p] = "idle"
    BY <1>1, <2>1 DEF PipeInv, Typed, CallInv
  <2> QED BY <2>1, <2>2
<1> QED BY <1>1, PipeInvariance, PTL

-----------------------------------------------------------------------------
(* The queue that the bytes d stand for, read off the counters r and w.    *)
QueueOf(d, r, w) == [j \in 1 .. Count(r, w) |-> d[(r + j - 1) % PIPESIZE]]

(* What the queue read off the ring looks like.                            *)
LEMMA QueueTyped ==
  ASSUME NEW d \in [0 .. PIPESIZE - 1 -> Bytes],
         NEW r \in 0 .. UINT - 1, NEW w \in 0 .. UINT - 1
  PROVE  /\ Count(r, w) \in Nat
         /\ QueueOf(d, r, w) \in Seq(Bytes)
         /\ Len(QueueOf(d, r, w)) = Count(r, w)
         /\ \A j \in 1 .. Count(r, w) : QueueOf(d, r, w)[j] = d[(r + j - 1) % PIPESIZE]
<1>1. Count(r, w) \in Nat
  BY Sizes DEF Count
<1>2. ASSUME NEW j \in 1 .. Count(r, w) PROVE d[(r + j - 1) % PIPESIZE] \in Bytes
  <2>2. (r + j - 1) % PIPESIZE \in 0 .. PIPESIZE - 1
    BY Sizes
  <2> QED BY <2>2
<1> QED BY <1>1, <1>2 DEF QueueOf

(* A byte stored is appended: its slot holds none of the bytes in the      *)
(* queue.                                                                  *)
LEMMA PutAppends ==
  ASSUME NEW d \in [0 .. PIPESIZE - 1 -> Bytes],
         NEW r \in 0 .. UINT - 1, NEW w \in 0 .. UINT - 1, NEW ch \in Bytes,
         Count(r, w) <= PIPESIZE, w # (r + PIPESIZE) % UINT
  PROVE  /\ Len(QueueOf(d, r, w)) < PIPESIZE
         /\ QueueOf([d EXCEPT ![w % PIPESIZE] = ch], r, Inc(w))
              = Append(QueueOf(d, r, w), ch)
<1> DEFINE c == Count(r, w)
           e == [d EXCEPT ![w % PIPESIZE] = ch]
           before == QueueOf(d, r, w)
           after == QueueOf(e, r, Inc(w))
<1>1. /\ c \in 0 .. PIPESIZE - 1 /\ Inc(w) \in 0 .. UINT - 1
      /\ Count(r, Inc(w)) = c + 1 /\ w % PIPESIZE = (r + c) % PIPESIZE
  BY PutCount
<1>2. w % PIPESIZE \in 0 .. PIPESIZE - 1
  BY Sizes
<1>3. e \in [0 .. PIPESIZE - 1 -> Bytes]
  BY <1>2
<1>4. /\ before \in Seq(Bytes) /\ Len(before) = c
      /\ \A j \in 1 .. c : before[j] = d[(r + j - 1) % PIPESIZE]
  BY QueueTyped, Zenon
<1>5. /\ after \in Seq(Bytes) /\ Len(after) = c + 1
      /\ \A j \in 1 .. c + 1 : after[j] = e[(r + j - 1) % PIPESIZE]
  <2> HIDE DEF e
  <2> DEFINE v == Inc(w)
  <2>1. v \in 0 .. UINT - 1 /\ Count(r, v) = c + 1
    BY <1>1
  <2> HIDE DEF v, c
  <2>2. /\ QueueOf(e, r, v) \in Seq(Bytes) /\ Len(QueueOf(e, r, v)) = Count(r, v)
        /\ \A j \in 1 .. Count(r, v) : QueueOf(e, r, v)[j] = e[(r + j - 1) % PIPESIZE]
    BY ZenonT(60), <1>3, <2>1, QueueTyped
  <2> QED BY <2>1, <2>2 DEF v
<1>6. ASSUME NEW j \in 1 .. c
      PROVE  e[(r + j - 1) % PIPESIZE] = d[(r + j - 1) % PIPESIZE]
  <2>1. r + j - 1 \in Int /\ c - j + 1 \in 1 .. PIPESIZE - 1
    BY SMTT(60), <1>1, Sizes
  <2>2. ((r + j - 1) + (c - j + 1)) % PIPESIZE # (r + j - 1) % PIPESIZE
    BY <2>1, Sizes, Apart, Zenon
  <2>4. (r + j - 1) % PIPESIZE # w % PIPESIZE
    BY SMTT(60), <1>1, <2>2
  <2> QED BY <2>4
<1>7. e[(r + (c + 1) - 1) % PIPESIZE] = ch
  <2>1. r + (c + 1) - 1 = r + c
    BY <1>1
  <2> QED BY <1>1, <1>2, <2>1
<1>11. c \in Nat /\ c < PIPESIZE
  BY <1>1, Sizes
<1> HIDE DEF c, e, before, after
<1>8. /\ Append(before, ch) \in Seq(Bytes) /\ Len(Append(before, ch)) = c + 1
      /\ \A j \in 1 .. c : Append(before, ch)[j] = before[j]
      /\ Append(before, ch)[c + 1] = ch
  BY <1>4
<1>9. ASSUME NEW j \in 1 .. c + 1 PROVE after[j] = Append(before, ch)[j]
  <2>1. CASE j \in 1 .. c
    BY ZenonT(60), <1>4, <1>5, <1>6, <1>8, <2>1
  <2>2. CASE j = c + 1
    BY SMTT(60), <1>5, <1>7, <1>8, <2>2
  <2>3. j \in 1 .. c \/ j = c + 1
    BY <1>11
  <2> QED BY <2>1, <2>2, <2>3, Zenon
<1>10. after = Append(before, ch)
  BY SMTT(60), <1>5, <1>8, <1>9
<1> QED BY <1>11, <1>4, <1>10, Zenon DEF e, before, after

(* A byte taken is the head of the queue.                                  *)
LEMMA GetTakesHead ==
  ASSUME NEW d \in [0 .. PIPESIZE - 1 -> Bytes],
         NEW r \in 0 .. UINT - 1, NEW w \in 0 .. UINT - 1, r # w
  PROVE  /\ QueueOf(d, r, w) # <<>>
         /\ QueueOf(d, Inc(r), w) = Tail(QueueOf(d, r, w))
<1> DEFINE c == Count(r, w)
           before == QueueOf(d, r, w)
           after == QueueOf(d, Inc(r), w)
<1>1. /\ c > 0 /\ Inc(r) \in 0 .. UINT - 1 /\ Count(Inc(r), w) = c - 1
      /\ \A i \in Nat : (Inc(r) + i) % PIPESIZE = (r + 1 + i) % PIPESIZE
  BY GetCount
<1>2. /\ c \in Nat /\ before \in Seq(Bytes) /\ Len(before) = c
      /\ \A j \in 1 .. c : before[j] = d[(r + j - 1) % PIPESIZE]
  BY QueueTyped, Zenon
<1>3. /\ after \in Seq(Bytes) /\ Len(after) = c - 1
      /\ \A j \in 1 .. c - 1 : after[j] = d[(Inc(r) + j - 1) % PIPESIZE]
  <2> DEFINE v == Inc(r)
  <2>1. v \in 0 .. UINT - 1 /\ Count(v, w) = c - 1
    BY <1>1
  <2> HIDE DEF v, c
  <2>2. /\ QueueOf(d, v, w) \in Seq(Bytes) /\ Len(QueueOf(d, v, w)) = Count(v, w)
        /\ \A j \in 1 .. Count(v, w) : QueueOf(d, v, w)[j] = d[(v + j - 1) % PIPESIZE]
    BY ZenonT(60), <2>1, QueueTyped
  <2> QED BY <2>1, <2>2 DEF v
<1>4. ASSUME NEW j \in 1 .. c - 1
      PROVE  (Inc(r) + j - 1) % PIPESIZE = (r + (j + 1) - 1) % PIPESIZE
  <2>1. j - 1 \in Nat
    OBVIOUS
  <2>2. (Inc(r) + (j - 1)) % PIPESIZE = (r + 1 + (j - 1)) % PIPESIZE
    BY <1>1, <2>1
  <2> QED BY <2>2
<1> HIDE DEF c, before, after
<1>5. before # <<>>
  BY <1>1, <1>2
<1>6. /\ Tail(before) \in Seq(Bytes) /\ Len(Tail(before)) = c - 1
      /\ \A j \in 1 .. c - 1 : Tail(before)[j] = before[j + 1]
  BY <1>2, <1>5
<1>7. ASSUME NEW j \in 1 .. c - 1 PROVE after[j] = Tail(before)[j]
  <2>1. j + 1 \in 1 .. c
    BY <1>2
  <2> QED BY SMTT(60), <1>2, <1>3, <1>4, <1>6, <2>1
<1>8. after = Tail(before)
  BY <1>3, <1>6, <1>7, SeqEqual
<1> QED BY <1>5, <1>8 DEF before, after

-----------------------------------------------------------------------------
(* What the refinement mapping makes of the queue.                         *)
LEMMA QueueInitial == 
  ASSUME Init
  PROVE  Queue!Init
<1>1. Count(0, 0) = 0
  BY CountIs, Sizes
<1>2. [j \in 1 .. (nwrite - nread) % UINT |-> data[(nread + j - 1) % PIPESIZE]] = <<>>
  BY <1>1 DEF Init, Fresh, Count
<1> QED BY <1>2 DEF Queue!Init, Init, Fresh

(* A step that leaves the ends, the counters and the bytes alone leaves    *)
(* the queue alone.                                                        *)
LEMMA QueueStutters ==
  ASSUME UNCHANGED <<data, nread, nwrite, readopen, writeopen>>
  PROVE  UNCHANGED Queue!absVars
BY DEF Queue!absVars

(* Every step of the pipe is a step of the queue or leaves it alone.       *)
LEMMA QueueStep ==
  ASSUME PipeInv, PipeInv', [Next]_vars
  PROVE  [Queue!Next]_Queue!absVars
<1> DEFINE contents == [j \in 1 .. (nwrite - nread) % UINT |->
                          data[(nread + j - 1) % PIPESIZE]]
<1> USE ProcSets DEF Procs
<1>1. Typed /\ EndInv
  BY DEF PipeInv
<1>2. contents = QueueOf(data, nread, nwrite)
      /\ contents' = QueueOf(data', nread', nwrite')
  BY DEF QueueOf, Count
<1> HIDE DEF contents
<1>3. ASSUME NEW p \in Procs, pipewrite_body(p) PROVE [Queue!Next]_Queue!absVars
  <2>1. CASE UNCHANGED <<data, nwrite>>
    BY <1>3, <2>1, QueueStutters DEF pipewrite_body, endVars
  <2>2. ASSUME NEW ch \in Bytes, ~Full, nwrite' = Inc(nwrite),
               data' = [data EXCEPT ![nwrite % PIPESIZE] = ch]
        PROVE  Queue!Put(ch)
    <3>1. readopen /\ writeopen
      BY <1>3 DEF PipeInv, EndInv, CallInv, pipewrite_body, At, Writing
    <3>2. UNCHANGED <<nread, readopen, writeopen>>
      BY <1>3 DEF pipewrite_body, endVars
    <3>3. Len(contents) < PIPESIZE /\ contents' = Append(contents, ch)
      <4>1. /\ data \in [0 .. PIPESIZE - 1 -> Bytes]
            /\ nread \in 0 .. UINT - 1 /\ nwrite \in 0 .. UINT - 1
            /\ Count(nread, nwrite) <= PIPESIZE
            /\ nwrite # (nread + PIPESIZE) % UINT
        BY <1>1, <2>2 DEF Typed, EndInv, Full
      <4>2. /\ Len(QueueOf(data, nread, nwrite)) < PIPESIZE
            /\ QueueOf([data EXCEPT ![nwrite % PIPESIZE] = ch], nread, Inc(nwrite))
                 = Append(QueueOf(data, nread, nwrite), ch)
        BY ZenonT(60), <4>1, PutAppends
      <4> QED BY <1>2, <2>2, <3>2, <4>2, Zenon
    <3> QED BY <3>1, <3>2, <3>3, Zenon DEF Queue!Put, contents
  <2>3. \/ UNCHANGED <<data, nwrite>>
        \/ \E ch \in Bytes : /\ ~Full /\ nwrite' = Inc(nwrite)
                             /\ data' = [data EXCEPT ![nwrite % PIPESIZE] = ch]
    BY <1>3 DEF pipewrite_body
  <2> QED BY <2>1, <2>2, <2>3 DEF Queue!Next
<1>4. ASSUME NEW p \in Procs, piperead_copy(p) PROVE [Queue!Next]_Queue!absVars
  <2>1. CASE UNCHANGED nread
    BY <1>4, <2>1, QueueStutters DEF piperead_copy, endVars
  <2>2. CASE nread # nwrite /\ nread' = Inc(nread)
    <3>1. readopen
      BY <1>4 DEF PipeInv, EndInv, CallInv, piperead_copy, At, Reading
    <3>2. UNCHANGED <<data, nwrite, readopen, writeopen>>
      BY <1>4 DEF piperead_copy, endVars
    <3>3. contents # <<>> /\ contents' = Tail(contents)
      BY SMTT(60), <1>1, <1>2, <2>2, <3>2, GetTakesHead DEF Typed
    <3>4. Queue!Get
      BY <3>1, <3>2, <3>3, Zenon DEF Queue!Get, contents
    <3> QED BY <3>4 DEF Queue!Next
  <2>3. (nread # nwrite /\ nread' = Inc(nread)) \/ UNCHANGED nread
    BY <1>4 DEF piperead_copy, Empty
  <2> QED BY <2>1, <2>2, <2>3
<1>5. ASSUME NEW p \in Procs, pipeclose(p) PROVE [Queue!Next]_Queue!absVars
  <2>1. UNCHANGED <<data, nread, nwrite>>
    BY <1>5 DEF pipeclose
  <2>2. UNCHANGED contents
    BY <2>1 DEF contents
  <2>3. UNCHANGED readopen \/ UNCHANGED writeopen
    BY <1>1, <1>5 DEF Typed, EndInv, pipeclose
  <2>4. UNCHANGED readopen \/ (readopen /\ readopen' = FALSE)
    BY <1>1, <1>5, Zenon DEF Typed, pipeclose
  <2>5. UNCHANGED writeopen \/ (writeopen /\ writeopen' = FALSE)
    BY <1>1, <1>5, Zenon DEF Typed, pipeclose
  <2>6. UNCHANGED <<readopen, writeopen>> \/ Queue!CloseRead \/ Queue!CloseWrite
    BY <2>2, <2>3, <2>4, <2>5 DEF Queue!CloseRead, Queue!CloseWrite, contents
  <2> QED BY <2>1, <2>6, QueueStutters DEF Queue!Next
<1>6. CASE pipealloc
  <2>1. Count(0, 0) = 0
    BY CountIs, Sizes
  <2>2. contents' = <<>>
    BY <1>2, <1>6, <2>1 DEF pipealloc, QueueOf
  <2>3. Queue!Open
    BY <1>1, <1>6, <2>2 DEF Queue!Open, EndInv, pipealloc, contents
  <2> QED BY <2>3 DEF Queue!Next
<1>7. ASSUME NEW p \in Procs, Call(p) \/ kill(p), ~pipewrite_body(p), ~piperead_copy(p)
      PROVE  UNCHANGED <<data, nread, nwrite, readopen, writeopen>>
  BY <1>7 DEF Call, pipewrite_wake, pipewrite_loop, piperead_wake, piperead_loop,
              piperead_sleep, kill, endVars
<1>8. ASSUME NEW n \in 0 .. MAXN, NEW p \in Procs, pipewrite(p, n) \/ piperead(p, n)
      PROVE  UNCHANGED <<data, nread, nwrite, readopen, writeopen>>
  BY <1>8 DEF pipewrite, piperead, endVars
<1>9. CASE UNCHANGED vars
  BY <1>9, QueueStutters DEF vars
<1> QED BY <1>3, <1>4, <1>5, <1>6, <1>7, <1>8, <1>9, QueueStutters DEF Next

(* The pipe implements the bounded queue of ByteQueue: for every PIPESIZE, *)
(* every UINT that is a multiple of it and any number of processes at both *)
(* ends, bytes come out in the order in which they went in and none is     *)
(* lost, repeated or overwritten, also when nread and nwrite wrap around.  *)
THEOREM PipeIsByteQueue == Spec => IsByteQueue
<1>1. Init => Queue!Init
  BY QueueInitial
<1>2. PipeInv /\ PipeInv' /\ [Next]_vars => [Queue!Next]_Queue!absVars
  BY QueueStep
<1> QED BY <1>1, <1>2, PipeInvariance, PTL DEF Spec, IsByteQueue, Queue!Spec
=============================================================================
