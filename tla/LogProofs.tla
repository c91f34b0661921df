----------------------------- MODULE LogProofs ------------------------------
(***************************************************************************)
(* What follows from the invariant of LogSteps, for any number of          *)
(* processes, blocks and contents and any log size: the safety properties  *)
(* of log.c, that the log never overflows, and that it implements          *)
(* AtomicDisk.                                                             *)
(***************************************************************************)
EXTENDS LogSteps, FunctionTheorems

(* The state keeps the shape log.c declares: in particular a transaction   *)
(* never outgrows the on-disk log and no reference count goes negative.    *)
THEOREM TypeCorrect == Spec => []TypeOK
<1>1. IndInv => TypeOK
  BY DEF IndInv
<1> QED
  BY <1>1, Invariance, PTL

(* No process sleeps in begin_op() while it could enter.                   *)
THEOREM NoStuckSleeper == Spec => []SleepsOnlyWhenBlocked
<1>1. IndInv => SleepsOnlyWhenBlocked
  BY DEF IndInv
<1> QED
  BY <1>1, Invariance, PTL

(* After the last end_op() every finished operation is at its home         *)
(* location and the log is empty.                                          *)
THEOREM Durability == Spec => []QuiescentIsDurable
<1>1. IndInv => QuiescentIsDurable
  <2> SUFFICES ASSUME IndInv, sys = "up", outstanding = 0, ~committing
               PROVE  lh = <<>> /\ hdr = <<>> /\ \A b \in Blocks : Cached(b) = disk[b]
    BY DEF QuiescentIsDurable
  <2>1. Ops = {}
    BY Zenon, OpsFinite, FS_EmptySet DEF IndInv, InvCount
  <2>2. ~Installing
    BY DEF IndInv, InvCount, Installing, InCommit
  <2>3. lh = <<>> /\ hdr = <<>>
    BY <2>1, <2>2 DEF IndInv, InvCommit
  <2>4. \A p \in Procs : held[p] = NoBlock
    BY <2>1 DEF IndInv, InvHeld, Ops, InOp
  <2>5. \A b \in Blocks : buf[b] \in {NoVal, disk[b]}
    BY <2>3, <2>4, LogAssumption DEF IndInv, InvClean, NoBlock
  <2> QED
    BY <2>3, <2>5 DEF Cached
<1> QED
  BY <1>1, Invariance, PTL

(* The write-ahead rule.                                                   *)
THEOREM WriteAheadRule == Spec => WriteAhead
<1>1. IndInv /\ [Next]_vars => [HomeWriteIsLogged]_vars
  <2> SUFFICES ASSUME IndInv, Next PROVE HomeWriteIsLogged
    OBVIOUS
  <2>1. ASSUME NEW p \in Procs, install_trans(p) PROVE HomeWriteIsLogged
    <3>1. tail + 1 \in 1 .. Len(lh) /\ hdr = lh
      BY <2>1 DEF install_trans, IndInv, TypeOK, InvCommit
    <3> QED
      BY <2>1, <3>1 DEF install_trans, install_block, HomeWriteIsLogged
  <2>2. ASSUME recover_install PROVE HomeWriteIsLogged
    <3>1. tail + 1 \in 1 .. Len(hdr) /\ hdr = lh
      BY <2>2 DEF recover_install, IndInv, TypeOK, InvDown
    <3> QED
      BY <2>2, <3>1 DEF recover_install, install_block, HomeWriteIsLogged
  <2>3. CASE UNCHANGED disk
    BY <2>3 DEF HomeWriteIsLogged
  <2> QED
    BY ZenonT(60), <2>1, <2>2, <2>3
       DEF Next, begin_op, log_write, end_op, Commit, write_log, write_head,
           clear_head, end_op_done, modify, bread, bget_recycle, crash, Recover,
           read_head, recover_clear, diskVars
<1> QED
  BY <1>1, Invariance, PTL DEF Spec, WriteAhead

-----------------------------------------------------------------------------
(* The log never overflows.                                                *)

(* The blocks of the transaction, charged to the operations that wrote     *)
(* them.                                                                   *)
ChargedTo(ops, s, w) == {x \in ops \X Listed(s) : x[2] \in w[x[1]]}
Charged == ChargedTo(Ops, lh, wrote)

(* Each operation in progress may still add OpBlocks blocks, less those it *)
(* has been charged for, and two places of LOGSIZE remain.                 *)
RoomInv ==
  /\ \A p \in Procs :
       /\ IsFiniteSet(wrote[p]) /\ Cardinality(wrote[p]) <= OpBlocks
       /\ pc[p] = "modified" => held[p] \in wrote[p]
  /\ sys = "up" =>
       Len(lh) + outstanding * OpBlocks <= LOGSIZE - 2 + Cardinality(Charged)

(* The blocks of a transaction are finitely many, and so are the charges.  *)
LEMMA ChargedFinite ==
  ASSUME NEW ops, IsFiniteSet(ops), NEW s \in Seq(Blocks), NEW w
  PROVE  IsFiniteSet(ChargedTo(ops, s, w)) /\ Cardinality(ChargedTo(ops, s, w)) \in Nat
<1>1. IsFiniteSet(1 .. Len(s))
  BY FS_Interval
<1>2. s \in Surjection(1 .. Len(s), Listed(s))
  BY DEF Surjection, Listed
<1>3. IsFiniteSet(Listed(s))
  BY <1>1, <1>2, FS_Surjection
<1>4. IsFiniteSet(ops \X Listed(s))
  BY <1>3, FS_Product
<1>5. ChargedTo(ops, s, w) \in SUBSET (ops \X Listed(s))
  BY DEF ChargedTo
<1> QED BY <1>4, <1>5, FS_Subset, FS_CardinalityType

(* Nobody is charged for more than OpBlocks blocks.                        *)
LEMMA ChargeBound ==
  ASSUME NEW ops, IsFiniteSet(ops), NEW s \in Seq(Blocks), NEW w,
         \A p \in ops : IsFiniteSet(w[p]) /\ Cardinality(w[p]) <= OpBlocks
  PROVE  Cardinality(ChargedTo(ops, s, w)) <= Cardinality(ops) * OpBlocks
<1> DEFINE N(p) == Cardinality(w[p])
           g(p) == CHOOSE h : h \in Bijection(1 .. N(p), w[p])
           Tickets == {x \in ops \X (1 .. OpBlocks) : x[2] <= N(x[1])}
           Written == {y \in ops \X UNION {w[p] : p \in ops} : y[2] \in w[y[1]]}
           f == [x \in Tickets |-> <<x[1], g(x[1])[x[2]]>>]
<1>1. \A p \in ops : N(p) \in Nat /\ N(p) <= OpBlocks /\ g(p) \in Bijection(1 .. N(p), w[p])
  BY FS_CardinalityType DEF ExistsBijection
<1>2. \A p \in ops : g(p) \in Surjection(1 .. N(p), w[p])
  BY Zenon, <1>1 DEF Bijection
<1> HIDE DEF g, N
<1>3. f \in Surjection(Tickets, Written)
  <2>1. ASSUME NEW x \in Tickets PROVE f[x] \in Written
    BY <1>1, <1>2 DEF Surjection
  <2>2. ASSUME NEW y \in Written PROVE \E x \in Tickets : f[x] = y
    <3>1. PICK i \in 1 .. N(y[1]) : g(y[1])[i] = y[2]
      BY <1>2 DEF Surjection
    <3>2. <<y[1], i>> \in Tickets
      BY <1>1, LogAssumption
    <3> QED BY <3>1, <3>2
  <2> QED BY <2>1, <2>2, Zenon DEF Surjection
<1> HIDE DEF f
<1>4. IsFiniteSet(1 .. OpBlocks) /\ Cardinality(1 .. OpBlocks) = OpBlocks
  BY FS_Interval, LogAssumption
<1>5. /\ IsFiniteSet(ops \X (1 .. OpBlocks))
      /\ Cardinality(ops \X (1 .. OpBlocks)) = Cardinality(ops) * OpBlocks
  BY Zenon, <1>4, FS_Product
<1>6. IsFiniteSet(Tickets) /\ Cardinality(Tickets) <= Cardinality(ops) * OpBlocks
  BY <1>5, FS_Subset
<1>7. IsFiniteSet(Written) /\ Cardinality(Written) <= Cardinality(Tickets)
  BY <1>3, <1>6, FS_Surjection
<1>8. ChargedTo(ops, s, w) \subseteq Written
  BY DEF ChargedTo
<1>9. Cardinality(ChargedTo(ops, s, w)) <= Cardinality(Written)
  BY <1>7, <1>8, FS_Subset
<1>10. /\ Cardinality(ChargedTo(ops, s, w)) \in Nat /\ Cardinality(Written) \in Nat
       /\ Cardinality(Tickets) \in Nat /\ Cardinality(ops) * OpBlocks \in Nat
  BY <1>6, <1>7, ChargedFinite, FS_CardinalityType, LogAssumption
<1> QED BY <1>6, <1>7, <1>9, <1>10

(* A step that adds charges and nothing to the log.                        *)
LEMMA RoomKept ==
  ASSUME IndInv, IndInv', RoomInv, sys = "up",
         Charged \subseteq Charged', lh' = lh, outstanding' = outstanding,
         \A p \in Procs :
           /\ IsFiniteSet(wrote'[p]) /\ Cardinality(wrote'[p]) <= OpBlocks
           /\ pc'[p] = "modified" => held'[p] \in wrote'[p]
  PROVE  RoomInv'
<1>1. IsFiniteSet(Charged) /\ Cardinality(Charged) \in Nat
  BY OpsFinite, ChargedFinite DEF Charged, IndInv, TypeOK
<1>2. IsFiniteSet(Ops')
  BY LogAssumption, FS_Subset DEF Ops
<1>3. IsFiniteSet(Charged') /\ Cardinality(Charged') \in Nat
  BY <1>2, ChargedFinite DEF Charged, IndInv, TypeOK
<1>4. Cardinality(Charged) <= Cardinality(Charged')
  BY <1>3, FS_Subset
<1>5. Len(lh) \in Nat /\ outstanding \in Nat /\ outstanding * OpBlocks \in Nat
  BY LogAssumption DEF IndInv, TypeOK
<1>6. Len(lh') + outstanding' * OpBlocks <= LOGSIZE - 2 + Cardinality(Charged')
  BY <1>1, <1>3, <1>4, <1>5, LogAssumption DEF RoomInv
<1> QED BY <1>6 DEF RoomInv

(* begin_op(): a first operation finds the log empty; a further one finds  *)
(* MAXOPBLOCKS > OpBlocks places reserved for itself and for each of the   *)
(* others, which leaves the two that the disk and log_write()'s test need. *)
LEMMA Room_begin_op ==
  ASSUME IndInv, IndInv', RoomInv, OpBlocks < MAXOPBLOCKS,
         NEW p \in Procs, begin_op(p)
  PROVE  RoomInv'
<1>1. lh' = lh /\ held' = held /\ sys' = sys /\ sys = "up"
  BY DEF begin_op
<1>2. CASE committing \/ LogFull
  <2>1. outstanding' = outstanding /\ wrote' = wrote
    BY <1>2 DEF begin_op
  <2>2. \A q \in Procs : pc'[q] \in InOp <=> pc[q] \in InOp
    BY <1>2 DEF begin_op, InOp, IndInv, TypeOK
  <2>3. \A q \in Procs : pc'[q] = "modified" => pc[q] = "modified"
    BY Zenon DEF begin_op, IndInv, TypeOK
  <2>4. Charged' = Charged
    BY <1>1, <2>1, <2>2 DEF Charged, Ops
  <2> QED BY <1>1, <2>1, <2>3, <2>4 DEF RoomInv
<1>3. CASE ~committing /\ ~LogFull
  <2>1. outstanding' = outstanding + 1 /\ wrote' = [wrote EXCEPT ![p] = {}]
    BY <1>3 DEF begin_op
  <2>2. pc' = [pc EXCEPT ![p] = "op"] /\ pc[p] \notin InOp
    BY <1>3 DEF begin_op, InOp
  <2>3. Ops' = Ops \cup {p} /\ p \notin Ops
    BY <2>2 DEF Ops, InOp, IndInv, TypeOK
  <2>4. \A q \in Procs :
          /\ IsFiniteSet(wrote'[q]) /\ Cardinality(wrote'[q]) <= OpBlocks
          /\ pc'[q] = "modified" => held'[q] \in wrote'[q]
    BY <1>1, <2>1, <2>2, FS_EmptySet, LogAssumption
       DEF RoomInv, IndInv, TypeOK
  <2>5. IsFiniteSet(Ops') /\ lh' \in Seq(Blocks)
    BY Zenon, OpsFinite, FS_AddElement, <2>3 DEF IndInv, TypeOK
  <2>6. Cardinality(Charged') \in Nat
    BY <2>5, ChargedFinite DEF Charged
  <2>7. Len(lh) + (outstanding + 1) * OpBlocks <= LOGSIZE - 2
    <3>1. Len(lh) \in Nat /\ outstanding \in Nat
      BY DEF IndInv, TypeOK
    <3>2. CASE outstanding = 0
      <4>1. Ops = {}
        BY Zenon, <3>2, OpsFinite, FS_EmptySet DEF IndInv, InvCount
      <4>2. Len(lh) = 0
        BY <4>1, <1>1, <1>3 DEF IndInv, InvCommit
      <4> QED BY <3>2, <4>2, LogAssumption
    <3>3. CASE outstanding >= 1
      <4>1. Len(lh) + (outstanding + 1) * MAXOPBLOCKS <= LOGSIZE
        BY <1>3, <3>1, LogAssumption DEF LogFull
      <4>2. (outstanding + 1) * (OpBlocks + 1) <= (outstanding + 1) * MAXOPBLOCKS
        BY <3>1, LogAssumption
      <4>3. (outstanding + 1) * (OpBlocks + 1) = (outstanding + 1) * OpBlocks + (outstanding + 1)
        BY <3>1, LogAssumption
      <4> DEFINE A == (outstanding + 1) * OpBlocks
                 B == (outstanding + 1) * (OpBlocks + 1)
                 C == (outstanding + 1) * MAXOPBLOCKS
      <4>4. A \in Nat /\ B \in Nat /\ C \in Nat
        BY <3>1, LogAssumption
      <4>5. Len(lh) + C <= LOGSIZE /\ B <= C /\ B = A + (outstanding + 1)
        BY <4>1, <4>2, <4>3
      <4> HIDE DEF A, B, C
      <4>6. Len(lh) + A <= LOGSIZE - 2
        BY <3>1, <3>3, <4>4, <4>5, LogAssumption
      <4> QED BY <4>6 DEF A
    <3> QED BY <3>1, <3>2, <3>3
  <2>8. Len(lh') + outstanding' * OpBlocks <= LOGSIZE - 2 + Cardinality(Charged')
    <3>1. Len(lh) \in Nat /\ (outstanding + 1) * OpBlocks \in Nat /\ LOGSIZE \in Nat
      BY LogAssumption DEF IndInv, TypeOK
    <3>2. Len(lh') = Len(lh) /\ outstanding' * OpBlocks = (outstanding + 1) * OpBlocks
      BY <1>1, <2>1
    <3> QED BY <2>6, <2>7, <3>1, <3>2
  <2> QED BY <2>4, <2>8 DEF RoomInv
<1> QED BY <1>2, <1>3

(* end_op(): the operation takes its charges with it, at most OpBlocks.    *)
LEMMA Room_end_op ==
  ASSUME IndInv, IndInv', RoomInv, NEW p \in Procs, end_op(p)
  PROVE  RoomInv'
<1>1. lh' = lh /\ held' = held /\ wrote' = wrote /\ sys' = sys /\ sys = "up"
  BY DEF end_op, opVars
<1>2. outstanding' = outstanding - 1 /\ pc[p] = "op"
  BY DEF end_op
<1>3. pc'[p] \notin InOp /\ \A q \in Procs \ {p} :
        (pc'[q] \in InOp <=> pc[q] \in InOp) /\ (pc'[q] = "modified" => pc[q] = "modified")
  BY Zenon DEF end_op, Wakeup, InOp, IndInv, TypeOK
<1>4. Ops' = Ops \ {p} /\ p \in Ops
  BY <1>2, <1>3 DEF Ops, InOp
<1>5. \A q \in Procs :
        /\ IsFiniteSet(wrote'[q]) /\ Cardinality(wrote'[q]) <= OpBlocks
        /\ pc'[q] = "modified" => held'[q] \in wrote'[q]
  BY <1>1, <1>3 DEF RoomInv, InOp
<1> DEFINE Gone == {p} \X wrote[p]
<1>6. IsFiniteSet(Gone) /\ Cardinality(Gone) = Cardinality(wrote[p])
  <2>1. IsFiniteSet(wrote[p]) /\ Cardinality(wrote[p]) \in Nat
    BY FS_CardinalityType DEF RoomInv
  <2>2. IsFiniteSet({p}) /\ Cardinality({p}) = 1
    BY FS_Singleton, Zenon
  <2>3. IsFiniteSet(Gone) /\ Cardinality(Gone) = Cardinality({p}) * Cardinality(wrote[p])
    BY <2>1, <2>2, FS_Product
  <2> QED BY <2>1, <2>2, <2>3
<1>7. Charged \ Gone \subseteq Charged'
  BY <1>1, <1>4 DEF Charged, ChargedTo
<1> HIDE DEF Gone
<1>8. IsFiniteSet(Charged) /\ Cardinality(Charged) \in Nat
  BY OpsFinite, ChargedFinite DEF Charged, IndInv, TypeOK
<1>9. IsFiniteSet(Charged') /\ Cardinality(Charged') \in Nat
  <2>1. IsFiniteSet(Ops') /\ lh' \in Seq(Blocks)
    BY OpsFinite, FS_RemoveElement, <1>4 DEF IndInv, TypeOK
  <2> QED BY <2>1, ChargedFinite DEF Charged
<1>10. Cardinality(Charged) <= Cardinality(Charged') + OpBlocks
  <2>1. Cardinality(Charged \cap Gone) <= Cardinality(Gone)
    BY <1>6, FS_Subset
  <2>2. Cardinality(Charged \cap Gone) \in Nat /\ Cardinality(Gone) \in Nat
    BY <1>6, FS_Subset, FS_CardinalityType
  <2>3. Cardinality(Charged \ Gone) = Cardinality(Charged) - Cardinality(Charged \cap Gone)
    BY <1>8, FS_Difference, Zenon
  <2>4. Cardinality(Charged \ Gone) <= Cardinality(Charged')
    BY <1>7, <1>9, FS_Subset
  <2>5. Cardinality(Gone) <= OpBlocks /\ OpBlocks \in Nat
    BY <1>6, LogAssumption DEF RoomInv
  <2> QED BY <1>8, <1>9, <2>1, <2>2, <2>3, <2>4, <2>5
<1>11. Len(lh) + (outstanding - 1) * OpBlocks <= LOGSIZE - 2 + Cardinality(Charged')
  <2>1. Len(lh) \in Nat /\ outstanding \in Nat /\ OpBlocks \in Nat /\ LOGSIZE \in Nat
    BY LogAssumption DEF IndInv, TypeOK
  <2>2. (outstanding - 1) * OpBlocks = outstanding * OpBlocks - OpBlocks
    BY <2>1
  <2>4. Len(lh) + outstanding * OpBlocks <= LOGSIZE - 2 + Cardinality(Charged)
    BY <1>1 DEF RoomInv
  <2> DEFINE A == outstanding * OpBlocks
  <2> HIDE DEF A
  <2>5. Len(lh) + (A - OpBlocks) <= LOGSIZE - 2 + Cardinality(Charged')
    BY <1>8, <1>9, <1>10, <2>1, <2>4 DEF A
  <2> QED BY <2>2, <2>5 DEF A
<1> QED BY <1>1, <1>2, <1>5, <1>11 DEF RoomInv

(* modify: one more block is written, and the guard counts it.             *)
LEMMA Room_modify ==
  ASSUME IndInv, IndInv', RoomInv, NEW p \in Procs, NEW b \in Blocks, NEW v \in Vals,
         modify(p, b, v)
  PROVE  RoomInv'
<1>1. /\ lh' = lh /\ outstanding' = outstanding /\ sys = "up" /\ pc[p] = "op"
      /\ pc' = [pc EXCEPT ![p] = "modified"] /\ held' = [held EXCEPT ![p] = b]
      /\ wrote' = [wrote EXCEPT ![p] = wrote[p] \cup {b}]
      /\ Cardinality(wrote[p] \cup {b}) <= OpBlocks
  BY DEF modify
<1>2. Ops' = Ops
  BY <1>1 DEF Ops, InOp
<1>3. Charged \subseteq Charged'
  BY <1>1, <1>2 DEF Charged, ChargedTo, Ops
<1>4. IsFiniteSet(wrote[p] \cup {b})
  BY FS_AddElement, Zenon DEF RoomInv
<1>5. \A q \in Procs :
        /\ IsFiniteSet(wrote'[q]) /\ Cardinality(wrote'[q]) <= OpBlocks
        /\ pc'[q] = "modified" => held'[q] \in wrote'[q]
  BY Zenon, <1>1, <1>4 DEF RoomInv, IndInv, TypeOK
<1> QED BY <1>1, <1>3, <1>5, RoomKept, Zenon

(* log_write(): an absorbed block costs nothing, a new one is a new charge *)
(* of the operation that writes it.                                        *)
LEMMA Room_log_write ==
  ASSUME IndInv, IndInv', RoomInv, NEW p \in Procs, log_write(p)
  PROVE  RoomInv'
<1>1. /\ outstanding' = outstanding /\ wrote' = wrote /\ sys = "up" /\ sys' = sys
      /\ pc[p] = "modified" /\ pc' = [pc EXCEPT ![p] = "op"]
      /\ held' = [held EXCEPT ![p] = NoBlock]
  BY DEF log_write
<1>2. Ops' = Ops /\ p \in Ops
  BY <1>1 DEF Ops, InOp
<1>3. \A q \in Procs :
        /\ IsFiniteSet(wrote'[q]) /\ Cardinality(wrote'[q]) <= OpBlocks
        /\ pc'[q] = "modified" => held'[q] \in wrote'[q]
  BY Zenon, <1>1 DEF RoomInv, IndInv, TypeOK
<1>4. CASE lh' = lh
  <2>1. Charged' = Charged
    BY <1>1, <1>2, <1>4 DEF Charged
  <2> QED BY <1>1, <1>3, <1>4, <2>1, RoomKept
<1>5. CASE held[p] \notin Listed(lh) /\ lh' = Append(lh, held[p])
  <2>1. held[p] \in wrote[p] /\ held[p] \in Blocks /\ lh \in Seq(Blocks)
    BY <1>1 DEF RoomInv, IndInv, TypeOK
  <2>2. lh' \in Seq(Blocks) /\ Len(lh') = Len(lh) + 1 /\ Len(lh) \in Nat
    BY <1>5, <2>1
  <2>3. Listed(lh) \subseteq Listed(lh') /\ held[p] \in Listed(lh')
    BY <1>5 DEF Listed
  <2>4. Charged \cup {<<p, held[p]>>} \subseteq Charged'
    BY <1>1, <1>2, <2>1, <2>3 DEF Charged, ChargedTo
  <2>5. <<p, held[p]>> \notin Charged
    BY <1>5 DEF Charged, ChargedTo
  <2>6. IsFiniteSet(Charged) /\ Cardinality(Charged) \in Nat
    BY <2>1, OpsFinite, ChargedFinite DEF Charged
  <2>7. IsFiniteSet(Charged') /\ Cardinality(Charged') \in Nat
    BY <1>2, <2>2, OpsFinite, ChargedFinite DEF Charged
  <2>8. Cardinality(Charged \cup {<<p, held[p]>>}) = Cardinality(Charged) + 1
    BY Zenon, <2>5, <2>6, FS_AddElement
  <2>9. Cardinality(Charged) + 1 <= Cardinality(Charged')
    BY <2>4, <2>7, <2>8, FS_Subset
  <2>10. outstanding * OpBlocks \in Nat /\ LOGSIZE \in Nat
    BY LogAssumption DEF IndInv, TypeOK
  <2>11. Len(lh) + outstanding * OpBlocks <= LOGSIZE - 2 + Cardinality(Charged)
    BY <1>1 DEF RoomInv
  <2>12. Len(lh') + outstanding' * OpBlocks <= LOGSIZE - 2 + Cardinality(Charged')
    BY <1>1, <2>2, <2>6, <2>7, <2>9, <2>10, <2>11
  <2> QED BY <1>3, <2>12 DEF RoomInv
<1> QED BY <1>4, <1>5 DEF log_write

(* A step that leaves no operation and an empty log, or the system down.   *)
LEMMA RoomReset ==
  ASSUME IndInv', RoomInv, sys' # "up" \/ (lh' = <<>> /\ outstanding' = 0),
         \A p \in Procs : pc'[p] # "modified" /\ wrote'[p] \in {wrote[p], {}}
  PROVE  RoomInv'
<1>1. \A p \in Procs : IsFiniteSet(wrote'[p]) /\ Cardinality(wrote'[p]) <= OpBlocks
  <2>1. IsFiniteSet({}) /\ Cardinality({}) <= OpBlocks
    BY FS_EmptySet, LogAssumption
  <2> QED BY <2>1, Zenon DEF RoomInv
<1>2. CASE lh' = <<>> /\ outstanding' = 0
  <2>1. IsFiniteSet(Ops')
    BY LogAssumption, FS_Subset DEF Ops
  <2>2. Cardinality(Charged') \in Nat
    BY <2>1, ChargedFinite DEF Charged, IndInv, TypeOK
  <2> QED BY <1>1, <2>2, LogAssumption DEF RoomInv
<1> QED BY <1>1, <1>2 DEF RoomInv

(* The steps of commit() add nothing, and clear_head empties the log.      *)
LEMMA Room_commit ==
  ASSUME IndInv, IndInv', RoomInv, NEW p \in Procs, Commit(p)
  PROVE  RoomInv'
<1>1. /\ outstanding' = outstanding /\ wrote' = wrote /\ held' = held
      /\ sys = "up" /\ sys' = "up"
  BY DEF Commit, write_log, write_head, install_trans, clear_head, end_op_done, opVars
<1>2. pc[p] \in InCommit /\ pc'[p] \notin InOp
  <2>1. p \in DOMAIN pc /\ DOMAIN Wakeup(pc) = DOMAIN pc
    BY DEF IndInv, TypeOK, Wakeup
  <2>2. \/ pc[p] = "write_log" /\ pc'[p] \in {"write_log", "write_head"}
        \/ pc[p] = "write_head" /\ pc'[p] = "install"
        \/ pc[p] = "install" /\ pc'[p] \in {"install", "clear"}
        \/ pc[p] = "clear" /\ pc'[p] = "done"
        \/ pc[p] = "done" /\ pc'[p] = "idle"
    BY <2>1 DEF Commit, write_log, write_head, install_trans, clear_head, end_op_done
  <2> QED BY <2>2 DEF InCommit, InOp
<1>3. \A q \in Procs : pc'[q] \in InOp => pc[q] \in InOp /\ pc'[q] = pc[q]
  BY ZenonT(60)
     DEF Commit, write_log, write_head, install_trans, clear_head, end_op_done,
         InOp, Wakeup, IndInv, TypeOK
<1>4. Ops = {} /\ outstanding = 0 /\ \A q \in Procs : pc'[q] \notin InOp
  BY <1>2, <1>3, FS_EmptySet, Zenon DEF IndInv, InvCount, Ops
<1>5. CASE lh' = <<>>
  BY <1>1, <1>4, <1>5, RoomReset DEF InOp
<1>6. CASE lh' = lh
  <2>1. Charged = {}
    BY <1>4 DEF Charged, ChargedTo
  <2>2. \A q \in Procs : pc'[q] # "modified"
    BY <1>4 DEF InOp
  <2> QED BY <1>1, <1>6, <2>1, <2>2, RoomKept DEF RoomInv
<1> QED
  BY <1>5, <1>6, Zenon
     DEF Commit, write_log, write_head, install_trans, clear_head, end_op_done,
         erase

(* Every step keeps room in the log.                                       *)
LEMMA RoomStep ==
  ASSUME IndInv, IndInv', RoomInv, OpBlocks < MAXOPBLOCKS, [Next]_vars
  PROVE  RoomInv'
<1>1. ASSUME NEW p \in Procs, begin_op(p) \/ log_write(p) \/ end_op(p) PROVE RoomInv'
  BY <1>1, Room_begin_op, Room_log_write, Room_end_op
<1>2. ASSUME NEW p \in Procs, Commit(p) PROVE RoomInv'
  BY <1>2, Room_commit
<1>3. ASSUME NEW p \in Procs, NEW b \in Blocks, NEW v \in Vals, modify(p, b, v) PROVE RoomInv'
  BY <1>3, Room_modify
<1>4. CASE UNCHANGED <<lh, outstanding, sys, pc, held, wrote>>
  <2>1. Charged' = Charged
    BY <1>4 DEF Charged, Ops
  <2> QED BY <1>4, <2>1 DEF RoomInv
<1>5. CASE crash
  BY <1>5, RoomReset DEF crash
<1>6. CASE Recover
  <2>1. \A p \in Procs : pc'[p] # "modified" /\ wrote'[p] = wrote[p]
    BY Zenon, <1>6
       DEF Recover, read_head, recover_install, recover_clear, opVars, IndInv,
           InvDown
  <2>2. sys' # "up" \/ (lh' = <<>> /\ outstanding' = 0)
    <3>1. CASE recover_clear
      <4>1. Ops = {}
        BY <3>1 DEF recover_clear, IndInv, InvDown, Ops, InOp
      <4> QED
        BY <3>1, <4>1, FS_EmptySet
           DEF recover_clear, erase, IndInv, InvCount
    <3> QED BY <1>6, <3>1 DEF Recover, read_head, recover_install
  <2> QED BY <2>1, <2>2, RoomReset
<1>7. ASSUME NEW b \in Blocks, bread(b) \/ bget_recycle(b) PROVE RoomInv'
  BY Zenon, <1>4, <1>7 DEF bread, bget_recycle, opVars
<1> QED BY <1>1, <1>2, <1>3, <1>4, <1>5, <1>6, <1>7 DEF Next, vars

(* log_write() never panics with "too big a transaction", for any number   *)
(* of processes and any sizes, as long as an operation writes fewer than   *)
(* MAXOPBLOCKS blocks.                                                     *)
THEOREM RoomForAll == OpBlocks < MAXOPBLOCKS => (Spec => []LogHasRoom)
<1> SUFFICES ASSUME OpBlocks < MAXOPBLOCKS PROVE Spec => []LogHasRoom
  OBVIOUS
<1>1. Init => RoomInv
  <2> SUFFICES ASSUME Init PROVE RoomInv
    OBVIOUS
  <2> QED BY FS_EmptySet, LogAssumption DEF Init, RoomInv
<1>2. IndInv /\ IndInv' /\ RoomInv /\ [Next]_vars => RoomInv'
  BY RoomStep
<1>3. IndInv /\ RoomInv => LogHasRoom
  <2> SUFFICES ASSUME IndInv, RoomInv, NEW p \in Procs, pc[p] = "modified"
               PROVE  Len(lh) < LOGSIZE - 1 /\ outstanding >= 1
    BY DEF LogHasRoom
  <2>1. p \in Ops /\ IsFiniteSet(Ops) /\ outstanding = Cardinality(Ops)
    BY OpsFinite DEF Ops, InOp, IndInv, InvCount
  <2>2. outstanding \in Nat /\ outstanding >= 1 /\ Len(lh) \in Nat /\ lh \in Seq(Blocks)
    BY <2>1, FS_EmptySet DEF IndInv, TypeOK
  <2>3. Cardinality(Charged) <= outstanding * OpBlocks /\ Cardinality(Charged) \in Nat
    BY <2>1, <2>2, ChargeBound, ChargedFinite DEF Charged, RoomInv, Ops
  <2>4. sys = "up"
    BY DEF IndInv, InvDown
  <2>5. Len(lh) + outstanding * OpBlocks <= LOGSIZE - 2 + Cardinality(Charged)
    BY <2>4 DEF RoomInv
  <2>6. outstanding * OpBlocks \in Nat /\ LOGSIZE \in Nat
    BY <2>2, LogAssumption
  <2> QED BY <2>2, <2>3, <2>5, <2>6
<1> QED BY <1>1, <1>2, <1>3, Invariance, PTL DEF Spec

-----------------------------------------------------------------------------
(* Refinement.  What recovery makes of the disk, and what it leaves alone. *)

(* Recovering from an empty header leaves the home blocks as they are.     *)
LEMMA ReplayEmpty ==
  ASSUME NEW l, NEW d \in [Blocks -> Vals]
  PROVE  Replay(<<>>, l, d) = d
  BY DEF Replay, Listed

(* Recovery gives a listed block the contents of its log block.            *)
LEMMA ReplayListed ==
  ASSUME NEW h \in Seq(Blocks), NEW l, NEW d, Injective(h), NEW i \in 1 .. Len(h)
  PROVE  Replay(h, l, d)[h[i]] = l[i]
<1>1. h[i] \in Blocks /\ h[i] \in Listed(h)
  BY DEF Listed
<1>2. (CHOOSE j \in 1 .. Len(h) : h[j] = h[i]) = i
  OBVIOUS
<1> QED
  BY Zenon, <1>1, <1>2 DEF Replay

(* Recovery leaves a block the header does not list alone.                 *)
LEMMA ReplayOther ==
  ASSUME NEW h, NEW l, NEW d, NEW b \in Blocks, \A i \in 1 .. Len(h) : h[i] # b
  PROVE  Replay(h, l, d)[b] = d[b]
  BY DEF Replay, Listed

(* Recovery yields contents for every block.                               *)
LEMMA ReplayDomain ==
  ASSUME NEW h, NEW l, NEW d
  PROVE  Replay(h, l, d) = [b \in Blocks |-> Replay(h, l, d)[b]]
  BY DEF Replay

(* Recovery reads only the header, the log and home blocks the log does    *)
(* not name.                                                               *)
LEMMA ReplaySame ==
  ASSUME NEW h, NEW l, NEW d, NEW e,
         \A b \in Blocks : e[b] = d[b] \/ b \in Listed(h)
  PROVE  Replay(h, l, e) = Replay(h, l, d)
  BY DEF Replay

(* When every listed block is home already, recovery changes nothing.      *)
LEMMA ReplayInstalled ==
  ASSUME NEW h \in Seq(Blocks), NEW l, NEW d \in [Blocks -> Vals], Injective(h),
         \A i \in 1 .. Len(h) : d[h[i]] = l[i]
  PROVE  Replay(h, l, d) = d
<1>1. \A b \in Blocks : Replay(h, l, d)[b] = d[b]
  <2> TAKE b \in Blocks
  <2>1. CASE \E i \in 1 .. Len(h) : h[i] = b
    BY <2>1, ReplayListed
  <2>2. CASE \A i \in 1 .. Len(h) : h[i] # b
    BY <2>2, ReplayOther
  <2> QED
    BY <2>1, <2>2
<1> QED
  BY <1>1, ReplayDomain

(* A step that changes neither what is read nor what would be recovered,   *)
(* nor who is in an operation, is a stutter of AtomicDisk.                 *)
LEMMA StutterStep ==
  ASSUME Memory' = Memory, Recovered' = Recovered, Ops' = Ops
  PROVE  [Atomic!Next]_(Atomic!absVars)
  BY DEF Atomic!absVars, Ops

(* What a read returns depends on the cache and the home blocks alone.     *)
LEMMA MemorySame ==
  ASSUME sys = "up", sys' = "up", \A b \in Blocks : Cached(b)' = Cached(b)
  PROVE  Memory' = Memory
  BY DEF Memory

(* begin_op() is a Begin of AtomicDisk, or a stutter when it sleeps.       *)
LEMMA Ref_begin_op ==
  ASSUME IndInv, NEW p \in Procs, begin_op(p)
  PROVE  [Atomic!Next]_(Atomic!absVars)
<1> USE DEF begin_op, diskVars, bufVars
<1>1. Memory' = Memory /\ Recovered' = Recovered
  BY DEF Memory, Cached, Recovered
<1>2. CASE pc' = [pc EXCEPT ![p] = "sleep"]
  <2>1. Ops' = Ops
    BY <1>2 DEF Ops, InOp
  <2> QED
    BY Zenon, <1>1, <2>1, StutterStep
<1>3. CASE pc' = [pc EXCEPT ![p] = "op"]
  <2>1. Ops' = Ops \cup {p} /\ p \notin Ops
    BY <1>3 DEF IndInv, TypeOK, Ops, InOp
  <2> QED
    BY Zenon, <1>1, <2>1 DEF Atomic!Next, Atomic!Begin, Ops
<1> QED
  BY <1>2, <1>3

(* end_op() is an End of AtomicDisk.                                       *)
LEMMA Ref_end_op ==
  ASSUME IndInv, NEW p \in Procs, end_op(p)
  PROVE  [Atomic!Next]_(Atomic!absVars)
<1> USE DEF end_op, diskVars, bufVars
<1>1. Memory' = Memory /\ Recovered' = Recovered
  BY DEF Memory, Cached, Recovered
<1>2. Ops' = Ops \ {p} /\ p \in Ops
  BY Zenon DEF IndInv, TypeOK, Ops, InOp, Wakeup
<1> QED
  BY <1>1, <1>2 DEF Atomic!Next, Atomic!End, Ops

(* Changing a buffer is a Write of AtomicDisk.                             *)
LEMMA Ref_modify ==
  ASSUME IndInv, NEW p \in Procs, NEW b \in Blocks, NEW v \in Vals, modify(p, b, v)
  PROVE  [Atomic!Next]_(Atomic!absVars)
<1> USE DEF modify, diskVars
<1>1. Recovered' = Recovered
  BY DEF Recovered
<1>2. Memory' = [Memory EXCEPT ![b] = v]
  BY Zenon, LogAssumption DEF Memory, Cached, IndInv, TypeOK
<1>3. Ops' = Ops /\ p \in Ops
  BY DEF Ops, InOp
<1> QED
  BY Zenon, <1>1, <1>2, <1>3 DEF Atomic!Next, Atomic!Write, Ops

(* The steps that touch neither header nor home blocks are stutters.       *)
LEMMA Ref_quiet ==
  ASSUME IndInv, NEW p \in Procs, log_write(p) \/ end_op_done(p) \/ write_log(p)
  PROVE  [Atomic!Next]_(Atomic!absVars)
<1>1. Memory' = Memory
  BY DEF Memory, Cached, log_write, end_op_done, write_log, diskVars, bufVars
<1>2. Recovered' = Recovered
  <2>1. CASE UNCHANGED logblk
    <3>1. hdr' = hdr /\ disk' = disk
      BY DEF log_write, end_op_done, write_log, diskVars
    <3> QED
      BY <2>1, <3>1 DEF Recovered
  <2>2. CASE write_log(p)
    <3>1. hdr = <<>> /\ hdr' = <<>> /\ disk' = disk
      BY Zenon, <2>2
         DEF write_log, IndInv, InvCommit, InvCount, Installing, InCommit
    <3> QED
      BY <3>1, ReplayEmpty DEF Recovered, IndInv, TypeOK
  <2> QED
    BY <2>1, <2>2 DEF log_write, end_op_done, diskVars
<1>3. Ops' = Ops
  BY Zenon
     DEF IndInv, TypeOK, Ops, InOp, log_write, end_op_done, write_log, Wakeup
<1> QED
  BY Zenon, <1>1, <1>2, <1>3, StutterStep

(* The header write is the Commit of AtomicDisk: all of the transaction    *)
(* becomes durable in that one step.                                       *)
LEMMA Ref_write_head ==
  ASSUME IndInv, NEW p \in Procs, write_head(p)
  PROVE  [Atomic!Next]_(Atomic!absVars)
<1> USE DEF write_head, bufVars
<1>2. Memory' = Memory /\ Memory = [b \in Blocks |-> Cached(b)]
  BY DEF Memory, Cached
<1>3. Ops' = Ops /\ Ops = {}
  BY DEF IndInv, InvCount, Ops, InOp, InCommit
<1>4. \A i \in 1 .. Len(hdr') : logblk'[i] = Cached(hdr'[i])
  BY DEF IndInv, InvCommit
<1>5. \A b \in Blocks : Recovered'[b] = Cached(b)
  <2> TAKE b \in Blocks
  <2>1. CASE \E i \in 1 .. Len(hdr') : hdr'[i] = b
    <3>1. PICK i \in 1 .. Len(hdr') : hdr'[i] = b
      BY <2>1
    <3>2. hdr' \in Seq(Blocks) /\ Injective(hdr')
      BY DEF IndInv, TypeOK
    <3>3. Recovered'[hdr'[i]] = logblk'[i]
      <4> HIDE DEF write_head
      <4>1. Replay(hdr', logblk', disk')[hdr'[i]] = logblk'[i]
        BY <3>2, ReplayListed
      <4> QED
        BY <4>1 DEF Recovered
    <3> QED
      BY <1>4, <3>1, <3>3
  <2>2. CASE \A i \in 1 .. Len(hdr') : hdr'[i] # b
    <3>1. Recovered'[b] = disk'[b]
      <4> HIDE DEF write_head
      <4>1. Replay(hdr', logblk', disk')[b] = disk'[b]
        BY <2>2, ReplayOther
      <4> QED
        BY <4>1 DEF Recovered
    <3>2. \A q \in Procs : held[q] = NoBlock
      BY <1>3 DEF IndInv, InvHeld, Ops, InOp
    <3>3. buf[b] \in {NoVal, disk[b]}
      BY <2>2, <3>2, LogAssumption DEF IndInv, InvClean, NoBlock
    <3> QED
      BY <3>1, <3>3 DEF Cached
  <2> QED
    BY <2>1, <2>2
<1>6. Recovered' = Memory
  <2>1. Recovered' = [b \in Blocks |-> Recovered'[b]]
    BY ReplayDomain DEF Recovered
  <2> QED
    BY <1>2, <1>5, <2>1
<1> QED
  BY <1>2, <1>3, <1>6 DEF Atomic!Next, Atomic!Commit, Ops

(* Installing a block changes nothing a recovery would not have made the   *)
(* same.                                                                   *)
LEMMA Ref_install_trans ==
  ASSUME IndInv, NEW p \in Procs, install_trans(p)
  PROVE  [Atomic!Next]_(Atomic!absVars)
<1> USE DEF install_trans, install_block
<1>1. /\ tail + 1 \in 1 .. Len(lh) /\ hdr = lh /\ lh[tail + 1] \in Blocks
      /\ logblk[tail + 1] = Cached(lh[tail + 1]) /\ logblk[tail + 1] \in Vals
  <2>1. tail + 1 \in 1 .. Len(lh) /\ hdr = lh /\ logblk[tail + 1] = Cached(lh[tail + 1])
    BY DEF IndInv, TypeOK, InvCommit
  <2>2. lh \in Seq(Blocks) /\ Len(lh) < LOGSIZE /\ logblk \in [Slots -> Vals]
    BY DEF IndInv, TypeOK
  <2>3. tail + 1 \in Slots
    BY <2>1, <2>2, LogAssumption DEF Slots
  <2> QED
    BY <2>1, <2>2, <2>3
<1>2. Recovered' = Recovered
  <2>1. \A b \in Blocks : disk'[b] = disk[b] \/ b \in Listed(hdr)
    BY <1>1 DEF Listed
  <2>3. Replay(hdr, logblk, disk') = Replay(hdr, logblk, disk)
    BY ONLY <2>1, ReplaySame
  <2> QED
    BY <2>3 DEF Recovered
<1>3. \A b \in Blocks : Cached(b)' = Cached(b)
  BY <1>1 DEF Cached
<1>4. Ops' = Ops
  BY DEF Ops, InOp
<1> QED
  BY <1>2, <1>3, <1>4, MemorySame, StutterStep

(* Erasing the installed transaction changes nothing: every listed block   *)
(* is home.                                                                *)
LEMMA Ref_clear_head ==
  ASSUME IndInv, NEW p \in Procs, clear_head(p)
  PROVE  [Atomic!Next]_(Atomic!absVars)
<1> USE DEF clear_head, erase, bufVars
<1>1. TypeOK /\ Injective(hdr)
  BY DEF IndInv
<1>2. \A i \in 1 .. Len(hdr) : disk[hdr[i]] = logblk[i]
  <2>1. InvCommit /\ sys = "up" /\ pc[p] = "clear"
    BY DEF IndInv
  <2>2. tail = Len(lh) /\ hdr = lh
    BY <2>1 DEF InvCommit
  <2>3. \A i \in 1 .. Len(lh) : i <= tail => disk[lh[i]] = logblk[i]
    BY <2>1 DEF InvCommit
  <2> QED
    BY <2>2, <2>3
<1>3. Recovered' = Recovered
  BY ZenonT(60), <1>1, <1>2, ReplayInstalled, ReplayEmpty DEF Recovered, TypeOK
<1>4. Memory' = Memory
  BY DEF Memory, Cached
<1>5. Ops' = Ops
  BY DEF Ops, InOp
<1> QED
  BY <1>3, <1>4, <1>5, StutterStep

(* Reading and recycling buffers leave what is read and what is durable    *)
(* alone.                                                                  *)
LEMMA Ref_cache ==
  ASSUME IndInv, NEW b \in Blocks, bread(b) \/ bget_recycle(b)
  PROVE  [Atomic!Next]_(Atomic!absVars)
<1>1. Recovered' = Recovered /\ Ops' = Ops
  <2>1. hdr' = hdr /\ logblk' = logblk /\ disk' = disk /\ pc' = pc
    BY DEF bread, bget_recycle, diskVars
  <2> QED
    BY <2>1 DEF Recovered, Ops
<1>2. bget_recycle(b) => buf[b] = disk[b]
  <2> SUFFICES ASSUME bget_recycle(b) PROVE buf[b] = disk[b]
    OBVIOUS
  <2>1. \A i \in 1 .. Len(lh) : ~Installing \/ i > tail => lh[i] # b
    <3>1. InvPinned /\ sys = "up" /\ pin[b] = 0
      BY DEF bget_recycle, IndInv
    <3> QED
      BY <3>1 DEF InvPinned
  <2>2. CASE ~Installing
    <3>1. \A i \in 1 .. Len(lh) : lh[i] # b
      BY <2>1, <2>2
    <3> QED
      BY <3>1 DEF bget_recycle, IndInv, InvClean
  <2>3. CASE Installing
    <3>1. PICK p \in Procs : pc[p] \in {"install", "clear"}
      BY <2>3 DEF Installing
    <3>2. \A i \in 1 .. Len(lh) : i <= tail => disk[lh[i]] = Cached(lh[i])
      BY <3>1 DEF IndInv, InvCommit, bget_recycle
    <3>3. (\A i \in 1 .. Len(lh) : lh[i] # b) => buf[b] = disk[b]
      BY DEF bget_recycle, IndInv, InvClean
    <3>4. ASSUME NEW i \in 1 .. Len(lh), lh[i] = b PROVE buf[b] = disk[b]
      <4>1. i <= tail
        BY <2>1, <3>4 DEF IndInv, TypeOK
      <4> QED
        BY <3>2, <3>4, <4>1 DEF Cached, bget_recycle
    <3> QED
      BY <3>3, <3>4
  <2> QED
    BY <2>2, <2>3
<1>3. \A c \in Blocks : Cached(c)' = Cached(c)
  <2>1. /\ buf \in [Blocks -> Vals \cup {NoVal}] /\ disk \in [Blocks -> Vals]
        /\ disk' = disk /\ NoVal \notin Vals
    BY LogAssumption DEF IndInv, TypeOK, bread, bget_recycle, diskVars
  <2>2. \A c \in Blocks : c # b => buf'[c] = buf[c]
    BY Zenon, <2>1 DEF bread, bget_recycle
  <2>3. \/ buf[b] = NoVal /\ buf'[b] = disk[b]
        \/ buf[b] = disk[b] /\ buf'[b] = NoVal
    BY <1>2, <2>1 DEF bread, bget_recycle
  <2> QED BY <2>1, <2>2, <2>3 DEF Cached
<1>4. Memory' = Memory
  BY <1>3, MemorySame DEF bread, bget_recycle
<1> QED
  BY <1>1, <1>4, StutterStep

(* A crash is the Crash of AtomicDisk: what is read becomes what is        *)
(* durable.                                                                *)
LEMMA Ref_crash ==
  ASSUME IndInv, crash
  PROVE  [Atomic!Next]_(Atomic!absVars)
<1>1. Recovered' = Recovered
  BY DEF crash, diskVars, Recovered
<1>2. Memory' = Recovered
  BY <1>1 DEF crash, Memory
<1>3. Ops' = {}
  BY DEF crash, Ops, InOp
<1> QED
  BY <1>1, <1>2, <1>3 DEF Atomic!Next, Atomic!Crash, Ops

(* The steps of recovery are stutters: they make the home blocks what a    *)
(* recovery would make them.                                               *)
LEMMA Ref_recover ==
  ASSUME IndInv, Recover
  PROVE  [Atomic!Next]_(Atomic!absVars)
<1>1. sys # "up" /\ Ops' = Ops
  BY DEF Recover, read_head, recover_install, recover_clear, Ops
<1>2. CASE read_head
  BY <1>1, <1>2, StutterStep DEF read_head, diskVars, Memory, Recovered
<1>3. CASE recover_install
  <2>1. tail + 1 \in 1 .. Len(hdr) /\ hdr = lh
    BY <1>3 DEF recover_install, IndInv, TypeOK, InvDown
  <2>2. \A b \in Blocks : disk'[b] = disk[b] \/ b \in Listed(hdr)
    BY <1>3, <2>1 DEF recover_install, install_block, Listed
  <2>3. Recovered' = Recovered
    BY <1>3, <2>2, ReplaySame DEF recover_install, Recovered
  <2> QED
    BY <1>1, <1>3, <2>3, StutterStep DEF recover_install, Memory
<1>4. CASE recover_clear
  <2> USE <1>4 DEF recover_clear, erase, bufVars
  <2>1. TypeOK /\ Injective(hdr)
    BY DEF IndInv
  <2>2. \A i \in 1 .. Len(hdr) : disk[hdr[i]] = logblk[i]
    BY DEF IndInv, InvDown
  <2>3. Recovered' = Recovered
    BY ZenonT(60), <2>1, <2>2, ReplayInstalled, ReplayEmpty DEF Recovered, TypeOK
  <2>4. Recovered' = disk
    BY <2>1, ReplayEmpty DEF Recovered, TypeOK
  <2>5. \A b \in Blocks : Cached(b)' = disk[b]
    BY DEF IndInv, InvDown, Cached
  <2>6. Memory' = disk
    BY <2>1, <2>5 DEF Memory, TypeOK
  <2> QED
    BY <1>1, <2>3, <2>4, <2>6, StutterStep DEF Memory
<1> QED
  BY <1>2, <1>3, <1>4 DEF Recover

(* The log implements AtomicDisk: every file-system operation takes effect *)
(* on the disk entirely or not at all, whenever the machine stops.         *)
THEOREM Atomicity == Spec => CrashAtomic
<1>1. Init => Atomic!Init
  <2> SUFFICES ASSUME Init PROVE Atomic!Init
    OBVIOUS
  <2>1. TypeOK
    BY InitInv DEF IndInv
  <2>2. Recovered = disk /\ Memory = disk
    BY ReplayEmpty DEF Init, Memory, Recovered
  <2>3. Ops = {}
    BY DEF Init, Ops, InOp
  <2> QED
    BY <2>1, <2>2, <2>3 DEF Atomic!Init, TypeOK, Ops
<1>2. IndInv /\ [Next]_vars => [Atomic!Next]_(Atomic!absVars)
  <2> SUFFICES ASSUME IndInv, [Next]_vars PROVE [Atomic!Next]_(Atomic!absVars)
    OBVIOUS
  <2>1. CASE UNCHANGED vars
    BY <2>1, StutterStep DEF vars, Memory, Recovered, Cached, Ops
  <2>2. CASE Next
    BY <2>2, Ref_begin_op, Ref_end_op, Ref_modify, Ref_quiet,
       Ref_write_head, Ref_install_trans, Ref_clear_head, Ref_cache, Ref_crash,
       Ref_recover
       DEF Next, Commit
  <2> QED
    BY <2>1, <2>2
<1> QED
  BY <1>1, <1>2, Invariance, PTL DEF Spec, CrashAtomic, Atomic!Spec
=============================================================================
