--------------------------- MODULE SpinLockProofs ---------------------------
(***************************************************************************)
(* Mutual exclusion and the interrupt discipline of kernel/spinlock.c, for *)
(* any number of CPUs and locks.                                           *)
(***************************************************************************)
EXTENDS SpinLock, FiniteSetTheorems, TLAPS

SpinTypeOK ==
  /\ locked \in [Locks -> BOOLEAN] /\ owner \in [Locks -> Harts \cup {NoHart}]
  /\ intr \in [Harts -> BOOLEAN] /\ intena \in [Harts -> BOOLEAN] /\ noff \in [Harts -> Int]
  /\ at \in [Harts -> {"code", "spin", "record", "unlock", "pop"}]
  /\ want \in [Harts -> Locks] /\ holds \in [Harts -> SUBSET Locks]
  /\ trap \in [Harts -> BOOLEAN]

(* Whether CPU c is inside acquire() or release(), so that one more        *)
(* push_off() is outstanding than it holds locks.                          *)
Extra(c) == IF at[c] = "code" THEN 0 ELSE 1

(* What the locks say of CPU c, and what c says of the locks.              *)
LockInv(c) ==
  /\ \A l \in Locks : owner[l] = c <=> l \in holds[c]
  /\ \A l \in Own(c) : locked[l]
  /\ at[c] \in {"spin", "record", "unlock"} => want[c] \notin holds[c]

(* noff counts the locks, interrupts are off while it is not 0, and intena *)
(* remembers what they were.                                               *)
NestInv(c) ==
  /\ noff[c] = Cardinality(holds[c]) + Extra(c)
  /\ noff[c] = 0 => (intr[c] <=> ~trap[c])
  /\ noff[c] # 0 => ~intr[c] /\ (intena[c] <=> ~trap[c])

(* The inductive invariant. *)
SpinInv ==
  /\ SpinTypeOK
  /\ MutualExclusion
  /\ \A c \in Harts : LockInv(c) /\ NestInv(c)

-----------------------------------------------------------------------------
(* Counting the locks a CPU holds. *)
LEMMA Counting ==
  ASSUME NEW S \in SUBSET Locks, NEW l \in Locks
  PROVE  /\ Cardinality(S) \in Nat
         /\ Cardinality(S) = 0 <=> S = {}
         /\ l \notin S => Cardinality(S \cup {l}) = Cardinality(S) + 1
         /\ l \in S => Cardinality(S \ {l}) = Cardinality(S) - 1
<1>1. IsFiniteSet(S)
  BY SpinLockAssumption, FS_Subset, Zenon
<1>2. /\ Cardinality(S) \in Nat
      /\ Cardinality(S) = 0 <=> S = {}
  BY <1>1, FS_CardinalityType, FS_EmptySet
<1>3. l \notin S => Cardinality(S \cup {l}) = Cardinality(S) + 1
  BY <1>1, FS_AddElement
<1>4. l \in S => Cardinality(S \ {l}) = Cardinality(S) - 1
  BY <1>1, FS_RemoveElement
<1> QED
  BY <1>2, <1>3, <1>4

(* All locks are free and interrupts are on. *)
LEMMA SpinInitial == SpinInit => SpinInv
<1> SUFFICES ASSUME SpinInit PROVE SpinInv
  OBVIOUS
<1>1. SpinTypeOK
  BY SpinLockAssumption DEF SpinInit, SpinTypeOK
<1>2. MutualExclusion
  BY DEF SpinInit, MutualExclusion, Own
<1>3. ASSUME NEW c \in Harts PROVE LockInv(c) /\ NestInv(c)
  <2>1. LockInv(c)
    BY SpinLockAssumption DEF SpinInit, LockInv, Own
  <2>2. Cardinality({}) = 0
    BY FS_EmptySet
  <2> QED
    BY <2>1, <2>2 DEF SpinInit, NestInv, Extra
<1> QED
  BY <1>1, <1>2, <1>3 DEF SpinInv

(* push_off() in acquire(): one more is outstanding than locks are held. *)
LEMMA AcquireKeeps ==
  ASSUME NEW c \in Harts, NEW l \in Locks, SpinInv, acquire(c, l)
  PROVE  SpinInv'
<1> USE SpinLockAssumption DEF acquire, push_off, SavedIntena, lockVars, hartVars, Moves
<1>1. SpinTypeOK'
  BY DEF SpinInv, SpinTypeOK
<1>2. MutualExclusion'
  BY DEF SpinInv, MutualExclusion, LockInv, Own
<1>3. ASSUME NEW d \in Harts PROVE LockInv(d)'
  BY DEF SpinInv, SpinTypeOK, LockInv, Own
<1>4. ASSUME NEW d \in Harts PROVE NestInv(d)'
  <2>1. l \in Locks /\ holds[c] \in SUBSET Locks
    BY DEF SpinInv, SpinTypeOK
  <2>2. Cardinality(holds[c]) \in Nat
    BY <2>1, Counting, Zenon
  <2>3. CASE d = c
    BY <2>2 DEF SpinInv, SpinTypeOK, NestInv, Extra
  <2>4. CASE d # c
    BY <2>4 DEF SpinInv, NestInv, Extra
  <2> QED
    BY <2>3, <2>4
<1> QED
  BY <1>1, <1>2, <1>3, <1>4 DEF SpinInv

(* The swap takes a lock that was nobody's. *)
LEMMA SwapKeeps ==
  ASSUME NEW c \in Harts, SpinInv, swap(c)
  PROVE  SpinInv'
<1> USE SpinLockAssumption DEF swap, Taken, lockVars, hartVars, Moves
<1>1. SpinTypeOK'
  BY DEF SpinInv, SpinTypeOK
<1>2. MutualExclusion'
  <2> DEFINE w == want[c]
  <2>1. w \in Locks /\ ~locked[w] /\ \A e \in Harts : w \notin Own(e)
    BY Zenon DEF SpinInv, SpinTypeOK, MutualExclusion
  <2>2. Own(c)' = Own(c) \cup {w} /\ \A e \in Harts \ {c} : Own(e)' = Own(e)
    BY DEF SpinInv, SpinTypeOK, Own
  <2>3. \A e \in Harts : w \in Own(e)' <=> e = c
    BY <2>1, <2>2
  <2>4. \A l \in Locks \ {w} : /\ locked'[l] = locked[l]
                               /\ \A e \in Harts : l \in Own(e)' <=> l \in Own(e)
    BY <2>2 DEF SpinInv, SpinTypeOK
  <2>5. locked'[w]
    BY DEF SpinInv, SpinTypeOK
  <2>6. \A e \in Harts : Own(e)' \subseteq Locks
    BY DEF SpinInv, SpinTypeOK, Own
  <2> HIDE SpinLockAssumption DEF w, swap, Taken, lockVars, hartVars, Moves
  <2> QED
    BY <2>3, <2>4, <2>5, <2>6 DEF SpinInv, MutualExclusion
<1>3. ASSUME NEW d \in Harts PROVE LockInv(d)'
  BY DEF SpinInv, SpinTypeOK, LockInv, Own
<1>4. ASSUME NEW d \in Harts PROVE NestInv(d)'
  <2> QED
    BY DEF SpinInv, NestInv, Extra
<1> QED
  BY <1>1, <1>2, <1>3, <1>4 DEF SpinInv

(* acquire() returns: the CPU holds one lock more. *)
LEMMA RecordKeeps ==
  ASSUME NEW c \in Harts, SpinInv, record(c)
  PROVE  SpinInv'
<1> USE SpinLockAssumption DEF record, lockVars, hartVars, Moves
<1>1. SpinTypeOK'
  BY DEF SpinInv, SpinTypeOK
<1>2. MutualExclusion'
  BY DEF SpinInv, SpinTypeOK, MutualExclusion, LockInv, Own
<1>3. ASSUME NEW d \in Harts PROVE LockInv(d)'
  BY DEF SpinInv, SpinTypeOK, MutualExclusion, LockInv, Own
<1>4. ASSUME NEW d \in Harts PROVE NestInv(d)'
  <2>1. want[c] \in Locks /\ holds[c] \in SUBSET Locks
    BY DEF SpinInv, SpinTypeOK
  <2>2. holds'[c] = holds[c] \cup {want[c]} /\ want[c] \notin holds[c]
    BY DEF SpinInv, SpinTypeOK, LockInv
  <2>3. Cardinality(holds[c]) \in Nat /\ Cardinality(holds'[c]) = Cardinality(holds[c]) + 1
    <3>1. /\ Cardinality(holds[c]) \in Nat
          /\ Cardinality(holds[c] \cup {want[c]}) = Cardinality(holds[c]) + 1
      BY <2>1, <2>2, Counting, Zenon
    <3> QED BY <2>2, <3>1
  <2>4. CASE d = c
    BY <2>3 DEF SpinInv, SpinTypeOK, NestInv, Extra
  <2>5. CASE d # c
    BY <2>5 DEF SpinInv, NestInv, Extra
  <2> QED
    BY <2>4, <2>5
<1> QED
  BY <1>1, <1>2, <1>3, <1>4 DEF SpinInv

(* release() begins: the lock is no longer held, but still taken. *)
LEMMA ReleaseKeeps ==
  ASSUME NEW c \in Harts, NEW l \in Locks, SpinInv, release(c, l)
  PROVE  SpinInv'
<1> USE SpinLockAssumption DEF release, holding, lockVars, hartVars, Moves
<1>1. SpinTypeOK'
  BY DEF SpinInv, SpinTypeOK
<1>2. MutualExclusion'
  BY DEF SpinInv, SpinTypeOK, MutualExclusion, LockInv, Own
<1>3. ASSUME NEW d \in Harts PROVE LockInv(d)'
  BY DEF SpinInv, SpinTypeOK, LockInv, Own
<1>4. ASSUME NEW d \in Harts PROVE NestInv(d)'
  <2>1. l \in Locks /\ holds[c] \in SUBSET Locks
    BY DEF SpinInv, SpinTypeOK
  <2>2. holds'[c] = holds[c] \ {l} /\ l \in holds[c]
    BY DEF SpinInv, SpinTypeOK
  <2>3. Cardinality(holds[c]) \in Nat /\ Cardinality(holds'[c]) = Cardinality(holds[c]) - 1
    <3> HIDE SpinLockAssumption DEF release, holding, lockVars, hartVars, Moves
    <3> QED
      BY <2>1, <2>2, Counting, Zenon
  <2>4. CASE d = c
    BY <2>3, <2>4 DEF SpinInv, SpinTypeOK, NestInv, Extra
  <2>5. CASE d # c
    BY <2>5 DEF SpinInv, NestInv, Extra
  <2> QED
    BY <2>4, <2>5
<1> QED
  BY <1>1, <1>2, <1>3, <1>4 DEF SpinInv

(* The second swap: the lock is nobody's. *)
LEMMA UnlockKeeps ==
  ASSUME NEW c \in Harts, SpinInv, unlock(c)
  PROVE  SpinInv'
<1> USE SpinLockAssumption DEF unlock, lockVars, hartVars, Moves
<1>1. SpinTypeOK'
  BY DEF SpinInv, SpinTypeOK
<1>2. MutualExclusion'
  BY DEF SpinInv, SpinTypeOK, MutualExclusion, LockInv, Own
<1>3. ASSUME NEW d \in Harts PROVE LockInv(d)'
  BY DEF SpinInv, SpinTypeOK, MutualExclusion, LockInv, Own
<1>4. ASSUME NEW d \in Harts PROVE NestInv(d)'
  <2> QED
    BY DEF SpinInv, NestInv, Extra
<1> QED
  BY <1>1, <1>2, <1>3, <1>4 DEF SpinInv

(* pop_off() in release(): the last one restores interrupts. *)
LEMMA ReleasePopKeeps ==
  ASSUME NEW c \in Harts, SpinInv, release_pop(c)
  PROVE  SpinInv'
<1> USE SpinLockAssumption DEF release_pop, pop_off, IntrOn, lockVars, hartVars, Moves
<1>1. SpinTypeOK'
  BY DEF SpinInv, SpinTypeOK
<1>2. MutualExclusion'
  BY DEF SpinInv, MutualExclusion, LockInv, Own
<1>3. ASSUME NEW d \in Harts PROVE LockInv(d)'
  BY DEF SpinInv, LockInv, Own
<1>4. ASSUME NEW d \in Harts PROVE NestInv(d)'
  <2>1. want[c] \in Locks /\ holds[c] \in SUBSET Locks
    BY DEF SpinInv, SpinTypeOK
  <2>2. Cardinality(holds[c]) \in Nat
    BY <2>1, Counting, Zenon
  <2>3. CASE d = c
    BY <2>2, <2>3 DEF SpinInv, SpinTypeOK, NestInv, Extra
  <2>4. CASE d # c
    BY <2>4 DEF SpinInv, NestInv, Extra
  <2> QED
    BY <2>3, <2>4
<1> QED
  BY <1>1, <1>2, <1>3, <1>4 DEF SpinInv

(* A handler starts on a CPU that holds nothing. *)
LEMMA InterruptKeeps ==
  ASSUME NEW c \in Harts, SpinInv, interrupt(c)
  PROVE  SpinInv'
<1> USE SpinLockAssumption DEF interrupt, lockVars, hartVars
<1>1. SpinTypeOK'
  BY DEF SpinInv, SpinTypeOK
<1>2. MutualExclusion'
  BY DEF SpinInv, MutualExclusion, Own
<1>3. ASSUME NEW d \in Harts PROVE LockInv(d)'
  BY DEF SpinInv, LockInv, Own
<1>4. ASSUME NEW d \in Harts PROVE NestInv(d)'
  <2> QED
    BY DEF SpinInv, SpinTypeOK, NestInv, Extra
<1> QED
  BY <1>1, <1>2, <1>3, <1>4 DEF SpinInv

(* A handler that holds nothing returns. *)
LEMMA SretKeeps ==
  ASSUME NEW c \in Harts, SpinInv, sret(c)
  PROVE  SpinInv'
<1> USE SpinLockAssumption DEF sret, lockVars, hartVars
<1>1. SpinTypeOK'
  BY DEF SpinInv, SpinTypeOK
<1>2. MutualExclusion'
  BY DEF SpinInv, MutualExclusion, Own
<1>3. ASSUME NEW d \in Harts PROVE LockInv(d)'
  BY DEF SpinInv, LockInv, Own
<1>4. ASSUME NEW d \in Harts PROVE NestInv(d)'
  <2> QED
    BY DEF SpinInv, SpinTypeOK, NestInv, Extra
<1> QED
  BY <1>1, <1>2, <1>3, <1>4 DEF SpinInv

-----------------------------------------------------------------------------
(* What the CPUs know of locks, counts and interrupts, at every step of    *)
(* acquire(), release() and the handlers.                                  *)
THEOREM SpinInvariance == SpinSpec => []SpinInv
<1>1. SpinInv /\ [SpinNext]_spinVars => SpinInv'
  <2> SUFFICES ASSUME SpinInv, [SpinNext]_spinVars PROVE SpinInv'
    OBVIOUS
  <2>1. ASSUME NEW c \in Harts, HartStep(c) PROVE SpinInv'
    <3>1. ASSUME NEW l \in Locks, acquire(c, l) PROVE SpinInv'
      BY <3>1, AcquireKeeps
    <3>2. ASSUME NEW l \in Locks, release(c, l) PROVE SpinInv'
      BY <3>2, ReleaseKeeps
    <3>3. CASE swap(c)
      BY <3>3, SwapKeeps
    <3>4. CASE record(c)
      BY <3>4, RecordKeeps
    <3>5. CASE unlock(c)
      BY <3>5, UnlockKeeps
    <3>6. CASE release_pop(c)
      BY <3>6, ReleasePopKeeps
    <3>7. CASE interrupt(c)
      BY <3>7, InterruptKeeps
    <3>8. CASE sret(c)
      BY <3>8, SretKeeps
    <3> QED
      BY <2>1, <3>1, <3>2, <3>3, <3>4, <3>5, <3>6, <3>7, <3>8 DEF HartStep
  <2>2. CASE UNCHANGED spinVars
    BY <2>2 DEF SpinInv, SpinTypeOK, MutualExclusion, LockInv, NestInv, Own, Extra,
                spinVars, lockVars, hartVars
  <2> QED
    BY <2>1, <2>2 DEF SpinNext
<1> QED
  BY SpinInitial, <1>1, PTL DEF SpinSpec

(* A spin lock excludes: two CPUs are never between the swap in acquire()  *)
(* and the swap in release() of one lock.                                  *)
THEOREM Exclusion == SpinSpec => []MutualExclusion
<1>1. SpinInv => MutualExclusion
  BY DEF SpinInv
<1> QED
  BY SpinInvariance, <1>1, PTL

(* push_off() keeps interrupts away from every CPU that holds or awaits a  *)
(* lock.                                                                   *)
THEOREM Masked == SpinSpec => []InterruptsOff
<1>1. SpinInv => InterruptsOff
  <2> SUFFICES ASSUME SpinInv, NEW c \in Harts, Own(c) # {} \/ at[c] # "code" PROVE ~intr[c]
    BY DEF InterruptsOff
  <2>1. PICK l \in Locks : TRUE
    BY SpinLockAssumption, Zenon
  <2>2. holds[c] \in SUBSET Locks
    BY DEF SpinInv, SpinTypeOK
  <2>3. Cardinality(holds[c]) \in Nat /\ (Cardinality(holds[c]) = 0 <=> holds[c] = {})
    BY <2>2, Counting, Zenon
  <2>4. noff[c] # 0
    BY <2>3 DEF SpinInv, NestInv, Extra, Own
  <2> QED
    BY <2>4 DEF SpinInv, NestInv
<1> QED
  BY SpinInvariance, <1>1, PTL

(* acquire() never panics, and the outermost release() restores the        *)
(* interrupt state of the outermost acquire().                             *)
THEOREM Restored == SpinSpec => []InterruptsRestored
<1>1. SpinInv => InterruptsRestored
  <2> SUFFICES ASSUME SpinInv, NEW c \in Harts
               PROVE  /\ ~panics(c) /\ (at[c] = "spin" => want[c] \notin holds[c])
                      /\ at[c] = "code" /\ holds[c] = {} => (intr[c] <=> ~trap[c])
    BY DEF InterruptsRestored
  <2>1. at[c] = "spin" => want[c] \notin holds[c] /\ want[c] \in Locks
    BY DEF SpinInv, SpinTypeOK, LockInv
  <2>2. ~panics(c)
    BY <2>1 DEF SpinInv, LockInv, panics, holding
  <2>3. at[c] = "code" /\ holds[c] = {} => noff[c] = 0
    BY FS_EmptySet DEF SpinInv, NestInv, Extra
  <2> QED
    BY <2>1, <2>2, <2>3 DEF SpinInv, NestInv
<1> QED
  BY SpinInvariance, <1>1, PTL
=============================================================================
