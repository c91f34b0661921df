------------------------------ MODULE LogSteps ------------------------------
(***************************************************************************)
(* The inductive invariant of Log: every action preserves it, so it holds  *)
(* in every reachable state.                                               *)
(***************************************************************************)
EXTENDS Log, FiniteSetTheorems, TLAPS

Injective(s) == \A i, j \in 1 .. Len(s) : s[i] = s[j] => i = j

Ops == {p \in Procs : pc[p] \in InOp}

(* log.outstanding counts the operations, and there are none during a      *)
(* commit, which one process runs.                                         *)
InvCount ==
  /\ outstanding = Cardinality(Ops)
  /\ committing => Ops = {}
  /\ \A p \in Procs : pc[p] \in InCommit => committing
  /\ \A p, q \in Procs : pc[p] \in InCommit /\ pc[q] \in InCommit => p = q

(* A process holds a buffer exactly between modify and log_write.          *)
InvHeld ==
  /\ \A p \in Procs : pc[p] = "modified" <=> held[p] # NoBlock
  /\ \A p, q \in Procs : held[p] = held[q] /\ held[p] # NoBlock => p = q

(* While the system is down no process runs and the cache is clean.        *)
InvDown ==
  sys # "up" =>
    /\ \A p \in Procs : pc[p] = "idle"
    /\ \A b \in Blocks : buf[b] \in {NoVal, disk[b]}
    /\ sys = "read_head" => tail = 0
    /\ sys # "read_head" => lh = hdr
    /\ sys = "install" => tail < Len(hdr)
    /\ sys = "clear" => tail = Len(hdr)
    /\ \A i \in 1 .. Len(hdr) : i <= tail => disk[hdr[i]] = logblk[i]

Installing == \E p \in Procs : pc[p] \in {"install", "clear"}

(* A block of the transaction stays pinned in the cache until installed,   *)
(* and so does a buffer a process holds.                                   *)
InvPinned ==
  sys = "up" =>
    /\ \A i \in 1 .. Len(lh) :
         ~Installing \/ i > tail => buf[lh[i]] # NoVal /\ pin[lh[i]] >= 1
    /\ \A p \in Procs : held[p] # NoBlock => buf[held[p]] # NoVal

(* A cached block that is neither logged nor held is as on the disk.       *)
InvClean ==
  sys = "up" =>
    \A b \in Blocks :
      (\A i \in 1 .. Len(lh) : lh[i] # b) /\ (\A p \in Procs : held[p] # b)
        => buf[b] \in {NoVal, disk[b]}

(* How far the commit has come.                                            *)
InvCommit ==
  sys = "up" =>
    /\ ~Installing => hdr = <<>>
    /\ ~committing /\ Ops = {} => lh = <<>>
    /\ \A p \in Procs :
         /\ pc[p] \in {"write_log", "install"} => tail < Len(lh)
         /\ pc[p] \in {"write_head", "clear"} => tail = Len(lh) /\ tail > 0
         /\ pc[p] \in {"write_log", "write_head"} =>
              \A i \in 1 .. Len(lh) : i <= tail => logblk[i] = Cached(lh[i])
         /\ pc[p] \in {"install", "clear"} =>
              /\ hdr = lh
              /\ \A i \in 1 .. Len(lh) : logblk[i] = Cached(lh[i])
              /\ \A i \in 1 .. Len(lh) : i <= tail => disk[lh[i]] = logblk[i]
         /\ pc[p] = "done" => lh = <<>>

IndInv ==
  /\ TypeOK
  /\ Injective(lh) /\ Injective(hdr)
  /\ InvCount
  /\ InvHeld
  /\ InvDown
  /\ InvPinned
  /\ InvClean
  /\ InvCommit
  /\ SleepsOnlyWhenBlocked

(* The operations between begin_op() and end_op() can be counted.          *)
LEMMA OpsFinite == IsFiniteSet(Ops) /\ Cardinality(Ops) \in Nat
  BY LogAssumption, FS_Subset, FS_CardinalityType DEF Ops

(* The entries of the header, in memory and on the disk, are blocks, and   *)
(* each has a slot of the log.                                             *)
LEMMA Entries ==
  ASSUME TypeOK
  PROVE  /\ Len(lh) \in Nat /\ Len(hdr) \in Nat /\ tail \in Nat
         /\ \A i \in 1 .. Len(lh) : i \in Nat /\ lh[i] \in Blocks /\ logblk[i] \in Vals
         /\ \A i \in 1 .. Len(hdr) : i \in Nat /\ hdr[i] \in Blocks /\ logblk[i] \in Vals
<1>1. /\ lh \in Seq(Blocks) /\ hdr \in Seq(Blocks) /\ Len(lh) \in Nat /\ Len(hdr) \in Nat
      /\ tail \in Nat /\ logblk \in [Slots -> Vals] /\ Len(lh) < LOGSIZE /\ Len(hdr) < LOGSIZE
  BY DEF TypeOK
<1>2. (\A i \in 1 .. Len(lh) : i \in Slots) /\ (\A i \in 1 .. Len(hdr) : i \in Slots)
  BY <1>1, LogAssumption DEF Slots
<1>3. (\A i \in 1 .. Len(lh) : lh[i] \in Blocks) /\ (\A i \in 1 .. Len(hdr) : hdr[i] \in Blocks)
  BY <1>1
<1> QED BY <1>1, <1>2, <1>3

(* The commit stays where it is while the log, the disk and what the cache *)
(* holds of each block stay the same.                                      *)
LEMMA CommitFrame ==
  ASSUME TypeOK, InvCommit,
         UNCHANGED <<sys, pc, lh, tail, hdr, logblk, disk, committing>>,
         \A b \in Blocks : Cached(b)' = Cached(b)
  PROVE  InvCommit'
<1>1. \A i \in 1 .. Len(lh) : Cached(lh[i])' = Cached(lh[i])
  BY Entries
<1>2. Installing' = Installing /\ Ops' = Ops
  BY DEF Installing, Ops
<1>3. ASSUME sys = "up", NEW p \in Procs
      PROVE  /\ pc[p] \in {"write_log", "install"} => tail < Len(lh)
             /\ pc[p] \in {"write_head", "clear"} => tail = Len(lh) /\ tail > 0
             /\ pc[p] \in {"write_log", "write_head"} =>
                  \A i \in 1 .. Len(lh) : i <= tail => logblk[i] = Cached(lh[i])'
             /\ pc[p] \in {"install", "clear"} =>
                  /\ hdr = lh
                  /\ \A i \in 1 .. Len(lh) : logblk[i] = Cached(lh[i])'
                  /\ \A i \in 1 .. Len(lh) : i <= tail => disk[lh[i]] = logblk[i]
             /\ pc[p] = "done" => lh = <<>>
  BY Zenon, <1>1, <1>3 DEF InvCommit
<1> QED BY <1>2, <1>3 DEF InvCommit

(* The booted system, with an empty log and a cold buffer cache, satisfies *)
(* the invariant.                                                          *)
LEMMA InitInv == Init => IndInv
<1> SUFFICES ASSUME Init PROVE IndInv
  OBVIOUS
<1> USE LogAssumption DEF Init
<1>1. TypeOK
  <2>4. pc \in [Procs -> PCs] /\ sys \in Stages /\ pin \in [Blocks -> Nat]
    BY DEF PCs, Stages
  <2>5. committing \in BOOLEAN /\ outstanding \in Nat /\ tail \in Nat
    OBVIOUS
  <2> QED
    BY <2>4, <2>5 DEF TypeOK
<1>2. Ops = {} /\ ~Installing
  BY DEF Ops, InOp, Installing
<1>3. InvCount
  BY <1>2, FS_EmptySet DEF InvCount, InCommit
<1>4. InvHeld /\ InvDown /\ InvPinned /\ InvClean /\ InvCommit
  BY DEF InvHeld, InvDown, InvPinned, InvClean, InvCommit
<1>5. Injective(lh) /\ Injective(hdr) /\ SleepsOnlyWhenBlocked
  BY DEF Injective, SleepsOnlyWhenBlocked
<1> QED
  BY <1>1, <1>3, <1>4, <1>5 DEF IndInv

(* begin_op() entering, or going to sleep, preserves the invariant.        *)
LEMMA Inv_begin_op ==
  ASSUME IndInv, NEW p \in Procs, begin_op(p)
  PROVE  IndInv'
<1> USE LogAssumption DEF IndInv, begin_op, diskVars, bufVars, opVars
<1>1. TypeOK'
  <2>1. pc' \in [Procs -> PCs]
    BY Zenon DEF TypeOK, PCs, InOp
  <2>3. outstanding' \in Nat
    BY DEF TypeOK
  <2> QED
    BY <2>1, <2>3 DEF TypeOK
<1>4. InvCount'
  <2>1. CASE pc' = [pc EXCEPT ![p] = "sleep"] /\ UNCHANGED outstanding
    <3>1. Ops' = Ops
      BY <2>1 DEF Ops, InOp
    <3> QED
      BY <2>1, <3>1 DEF InvCount, InCommit
  <2>2. CASE pc' = [pc EXCEPT ![p] = "op"] /\ outstanding' = outstanding + 1 /\ ~committing
    <3>1. Ops' = Ops \cup {p} /\ p \notin Ops
      BY <2>2 DEF TypeOK, Ops, InOp
    <3>2. Cardinality(Ops') = Cardinality(Ops) + 1
      BY Zenon, <3>1, OpsFinite, FS_AddElement
    <3> QED
      BY <2>2, <3>2 DEF InvCount, InCommit
  <2> QED
    BY <2>1, <2>2
<1>5. InvHeld'
  BY DEF TypeOK, InvHeld
<1>6. InvDown'
  BY DEF InvDown
<1>7. InvPinned'
  BY DEF TypeOK, InvPinned, InvCommit, Installing, Injective, NoBlock
<1>8. InvClean'
  BY DEF InvClean
<1>9. InvCommit'
  BY DEF TypeOK, InvCommit, InvDown, Installing, Cached, InOp, Ops
<1>10. SleepsOnlyWhenBlocked'
  BY DEF TypeOK, SleepsOnlyWhenBlocked, LogFull
<1> QED
  BY <1>1, <1>4, <1>5, <1>6, <1>7, <1>8, <1>9, <1>10

(* end_op(), with or without a commit to follow, preserves the invariant.  *)
LEMMA Inv_end_op ==
  ASSUME IndInv, NEW p \in Procs, end_op(p)
  PROVE  IndInv'
<1> USE LogAssumption DEF IndInv, end_op, Wakeup, diskVars, bufVars, opVars
<1>1. TypeOK'
  <2>1. pc' \in [Procs -> PCs]
    BY Zenon DEF TypeOK, PCs, InCommit
  <2>3. committing' \in BOOLEAN
    BY Zenon DEF TypeOK
  <2> QED
    BY <2>1, <2>3 DEF TypeOK
<1>4. InvCount'
  <2>1. Ops' = Ops \ {p} /\ p \in Ops
    BY Zenon DEF TypeOK, Ops, InOp
  <2>2. Cardinality(Ops') = Cardinality(Ops) - 1 /\ IsFiniteSet(Ops')
    BY <2>1, OpsFinite, FS_RemoveElement
  <2>3. outstanding' = Cardinality(Ops')
    BY <2>2 DEF InvCount
  <2>4. committing' => Ops' = {}
    <3>1. CASE UNCHANGED committing
      BY <2>1, <3>1 DEF InvCount
    <3>2. CASE outstanding = 1
      BY <2>2, <2>3, <3>2, FS_EmptySet
    <3> QED
      BY Zenon, <3>1, <3>2
  <2>5. \A q \in Procs : pc'[q] \in InCommit => committing' /\ q = p
    BY Zenon, <2>1 DEF TypeOK, InvCount, InCommit
  <2> QED
    BY <2>3, <2>4, <2>5 DEF InvCount
<1>5. InvHeld'
  BY Zenon DEF TypeOK, InvHeld
<1>6. InvDown'
  BY DEF InvDown
<1>7. InvPinned'
  BY DEF InvPinned, InvCount, Installing, InOp, InCommit, Ops
<1>8. InvClean'
  BY DEF InvClean
<1>9. InvCommit'
  <2>1. ~Installing /\ ~Installing' /\ sys' = "up"
    BY Zenon DEF TypeOK, InvCount, Ops, InOp, InCommit, Installing
  <2>2. ~committing' /\ Ops' = {} => FALSE
    BY <1>4, FS_EmptySet DEF InvCount
  <2>3. \A q \in Procs : pc'[q] \in InCommit => q = p /\ pc'[p] \in {"done", "write_log"}
                                            /\ tail' = 0 /\ (pc'[p] = "done" => lh' = <<>>)
                                            /\ (pc'[p] = "write_log" => lh' # <<>>)
    BY ZenonT(60) DEF TypeOK, InvCount, Ops, InOp, InCommit
  <2>4. \A q \in Procs : pc'[q] \in {"write_log", "write_head", "install", "clear", "done"}
                     => pc'[q] \in InCommit
    BY DEF InCommit
  <2> QED
    BY <2>1, <2>2, <2>3, <2>4 DEF InvCommit
<1>10. SleepsOnlyWhenBlocked'
  BY Zenon DEF SleepsOnlyWhenBlocked
<1> QED
  BY <1>1, <1>4, <1>5, <1>6, <1>7, <1>8, <1>9, <1>10

(* The last part of end_op(), which clears log.committing and wakes the    *)
(* sleepers, preserves the invariant.                                      *)
LEMMA Inv_end_op_done ==
  ASSUME IndInv, NEW p \in Procs, end_op_done(p)
  PROVE  IndInv'
<1> USE LogAssumption DEF IndInv, end_op_done, Wakeup, diskVars, bufVars, opVars
<1>1. TypeOK'
  BY Zenon DEF TypeOK, PCs
<1>4. InvCount'
  BY Zenon DEF InvCount, Ops, InOp, InCommit
<1>5. InvHeld'
  BY DEF InvHeld
<1>6. InvDown'
  BY DEF InvDown
<1>7. InvPinned'
  BY DEF InvPinned, Installing
<1>8. InvClean'
  BY DEF InvClean
<1>9. InvCommit'
  BY DEF InvCommit, Installing
<1>10. SleepsOnlyWhenBlocked'
  <2>1. \A q \in Procs : pc'[q] # "sleep"
    OBVIOUS
  <2> QED BY DEF SleepsOnlyWhenBlocked
<1> QED
  BY <1>1, <1>4, <1>5, <1>6, <1>7, <1>8, <1>9, <1>10

(* Changing a locked buffer inside an operation preserves the invariant.   *)
LEMMA Inv_modify ==
  ASSUME IndInv, NEW p \in Procs, NEW b \in Blocks, NEW v \in Vals, modify(p, b, v)
  PROVE  IndInv'
<1> USE LogAssumption DEF IndInv, modify, diskVars, bufVars, opVars
<1>1. TypeOK'
  BY DEF TypeOK, PCs, InOp
<1>4. InvCount'
  BY Zenon DEF TypeOK, InvCount, Ops, InOp, InCommit
<1>5. InvHeld'
  BY DEF TypeOK, InvHeld
<1>6. InvDown'
  BY DEF InvDown
<1>7. InvPinned'
  <2>1. v # NoVal /\ Installing' = Installing
    BY DEF Installing
  <2>4. buf'[b] # NoVal
    BY DEF TypeOK
  <2> QED
    BY <2>1, <2>4 DEF InvPinned
<1>8. InvClean'
  BY ZenonT(60) DEF TypeOK, InvClean, InvHeld, NoBlock
<1>9. InvCommit'
  BY DEF InvCommit, InvCount, Installing, InOp, InCommit, Ops
<1>10. SleepsOnlyWhenBlocked'
  BY DEF SleepsOnlyWhenBlocked, LogFull
<1> QED
  BY Zenon, <1>1, <1>4, <1>5, <1>6, <1>7, <1>8, <1>9, <1>10

(* log_write(), absorbing or appending and pinning, preserves the          *)
(* invariant.                                                              *)
LEMMA Inv_log_write ==
  ASSUME IndInv, NEW p \in Procs, log_write(p)
  PROVE  IndInv'
<1> USE LogAssumption DEF IndInv, log_write, bpin, diskVars, bufVars, opVars
<1>1. TypeOK'
  <2>1. held[p] \in Blocks
    BY DEF TypeOK, InvHeld
  <2>2. lh' \in Seq(Blocks) /\ Len(lh') < LOGSIZE
    <3>1. CASE UNCHANGED lh
      BY <3>1 DEF TypeOK
    <3>2. CASE lh' = Append(lh, held[p])
      BY <2>1, <3>2 DEF TypeOK
    <3> QED
      BY <3>1, <3>2
  <2>3. pin' \in [Blocks -> Nat]
    <3>1. CASE UNCHANGED pin
      BY DEF TypeOK
    <3>2. CASE pin' = [pin EXCEPT ![held[p]] = @ + 1]
      BY <2>1, <3>2 DEF TypeOK
    <3> QED
      BY <3>1, <3>2
  <2>4. pc' \in [Procs -> PCs] /\ held' \in [Procs -> Blocks \cup {NoBlock}]
    BY DEF TypeOK, PCs, InOp
  <2> QED
    BY <2>2, <2>3, <2>4 DEF TypeOK
<1>2. Injective(lh)'
  <2>2. CASE UNCHANGED lh
    BY <2>2
  <2>3. CASE held[p] \notin Listed(lh) /\ lh' = Append(lh, held[p])
    BY <2>3 DEF Injective, Listed
  <2> QED
    BY <2>3
<1>4. InvCount'
  BY ZenonT(60) DEF TypeOK, InvCount, Ops, InOp, InCommit
<1>5. InvHeld'
  BY DEF TypeOK, InvHeld
<1>6. InvDown'
  BY DEF InvDown
<1>7. InvPinned'
  <2>1. held[p] \in Blocks /\ buf[held[p]] # NoVal
    BY DEF TypeOK, InvHeld, InvPinned
  <2>2. ~Installing /\ ~Installing'
    BY DEF InvCount, Ops, InOp, InCommit, Installing
  <2>4. CASE UNCHANGED <<lh, pin>>
    BY <2>2, <2>4 DEF InvPinned
  <2>5. CASE /\ lh' = Append(lh, held[p])
             /\ pin' = [pin EXCEPT ![held[p]] = @ + 1]
             /\ held[p] \notin Listed(lh)
    <3>2. pin'[held[p]] >= 1 /\ \A b \in Blocks : pin'[b] >= pin[b]
      BY <2>1, <2>5 DEF TypeOK
    <3>3. \A b \in Blocks : pin[b] \in Nat /\ pin'[b] \in Nat
      BY <1>1 DEF TypeOK
    <3>4. \A i \in 1 .. Len(lh) : lh[i] \in Blocks
      BY DEF TypeOK
    <3>5. \A i \in 1 .. Len(lh) : buf[lh[i]] # NoVal /\ pin[lh[i]] >= 1
      BY <2>2 DEF InvPinned
    <3>6. \A i \in 1 .. Len(lh) : buf[lh[i]] # NoVal /\ pin'[lh[i]] >= 1
      <4> SUFFICES ASSUME NEW i \in 1 .. Len(lh)
                   PROVE  buf[lh[i]] # NoVal /\ pin'[lh[i]] >= 1
        OBVIOUS
      <4>1. lh[i] \in Blocks /\ buf[lh[i]] # NoVal /\ pin[lh[i]] >= 1
        BY <3>4, <3>5
      <4>2. pin[lh[i]] \in Nat /\ pin'[lh[i]] \in Nat /\ pin'[lh[i]] >= pin[lh[i]]
        BY <3>2, <3>3, <4>1
      <4> HIDE DEF IndInv, log_write
      <4> QED BY <4>1, <4>2
    <3>7. \A i \in 1 .. Len(lh') : buf[lh'[i]] # NoVal /\ pin'[lh'[i]] >= 1
      BY <2>1, <3>2, <3>6
    <3> QED
      BY <3>7 DEF InvPinned
  <2> QED
    BY <2>4, <2>5
<1>8. InvClean'
  <2>2. \E i \in 1 .. Len(lh') : lh'[i] = held[p]
    BY DEF Listed
  <2>3. \A i \in 1 .. Len(lh) : i \in 1 .. Len(lh') /\ lh'[i] = lh[i]
    OBVIOUS
  <2> QED
    BY <2>2, <2>3 DEF InvClean
<1>9. InvCommit'
  BY DEF InvCommit, InvCount, Installing, InOp, InCommit, Ops
<1>10. SleepsOnlyWhenBlocked'
  <2> QED
    BY DEF TypeOK, SleepsOnlyWhenBlocked, LogFull
<1> QED
  BY Zenon, <1>1, <1>2, <1>4, <1>5, <1>6, <1>7, <1>8, <1>9, <1>10

-----------------------------------------------------------------------------
(* The steps of commit().                                                  *)

(* Copying one cached block to the log (write_log) preserves the           *)
(* invariant.                                                              *)
LEMMA Inv_write_log ==
  ASSUME IndInv, NEW p \in Procs, write_log(p)
  PROVE  IndInv'
<1> USE LogAssumption DEF IndInv, write_log, diskVars, bufVars, opVars
<1>1. TypeOK'
  <2>1. tail \in Nat /\ tail + 1 \in 1 .. Len(lh) /\ lh[tail + 1] \in Blocks
    BY DEF TypeOK, InvCommit
  <2>2. Cached(lh[tail + 1]) \in Vals
    BY <2>1 DEF TypeOK, Cached
  <2>3. logblk' \in [Slots -> Vals]
    BY Zenon, <2>2 DEF TypeOK
  <2>4. pc' \in [Procs -> PCs]
    BY DEF TypeOK, PCs, InCommit
  <2> QED
    BY <2>3, <2>4 DEF TypeOK
<1>4. InvCount'
  BY ZenonT(60) DEF TypeOK, InvCount, Ops, InOp, InCommit
<1>5. InvHeld'
  BY DEF InvHeld
<1>6. InvDown'
  BY DEF InvDown
<1>7. InvPinned'
  BY DEF InvPinned, InvCount, Installing, InCommit
<1>8. InvClean'
  BY DEF InvClean
<1>9. InvCommit'
  <2>1. tail \in Nat /\ tail < Len(lh) /\ Len(lh) \in Nat
    BY DEF TypeOK, InvCommit
  <2>2. \A q \in Procs : q # p => pc'[q] \notin InCommit
    BY DEF InvCount, InCommit
  <2>3. pc'[p] \in {"write_log", "write_head"} /\ ~Installing /\ ~Installing'
    BY <2>2 DEF InCommit, Installing
  <2>4. pc'[p] = "write_log" => tail' < Len(lh')
    BY <2>1 DEF TypeOK
  <2>5. pc'[p] = "write_head" => tail' = Len(lh') /\ tail' > 0
    BY <2>1
  <2>6. \A i \in 1 .. Len(lh) : i <= tail + 1 => logblk'[i] = Cached(lh[i])
    BY DEF TypeOK, Slots, InvCommit
  <2>7. \A b : Cached(b)' = Cached(b)
    BY DEF Cached
  <2>8. ~committing' /\ Ops' = {} => FALSE
    BY DEF InvCount, InCommit
  <2> QED
    BY <2>2, <2>3, <2>4, <2>5, <2>6, <2>7, <2>8 DEF InvCommit, InCommit
<1>10. SleepsOnlyWhenBlocked'
  BY DEF SleepsOnlyWhenBlocked, InvCount, InCommit
<1> QED
  BY <1>1, <1>4, <1>5, <1>6, <1>7, <1>8, <1>9, <1>10

(* Writing the header, the commit point, preserves the invariant.          *)
LEMMA Inv_write_head ==
  ASSUME IndInv, NEW p \in Procs, write_head(p)
  PROVE  IndInv'
<1> USE LogAssumption DEF IndInv, write_head, diskVars, bufVars, opVars
<1>1. TypeOK'
  BY DEF TypeOK, PCs, InCommit, NoBlock
<1>4. InvCount'
  BY ZenonT(60) DEF TypeOK, InvCount, Ops, InOp, InCommit
<1>5. InvHeld'
  BY DEF InvHeld
<1>6. InvDown'
  BY DEF InvDown
<1>7. InvPinned'
  BY DEF InvPinned, InvCount, Installing, InCommit
<1>8. InvClean'
  BY DEF InvClean
<1>9. InvCommit'
  <2>2. \A q \in Procs : q # p => pc'[q] \notin InCommit
    BY DEF InvCount, InCommit
  <2>3. pc'[p] = "install" /\ Installing'
    BY DEF TypeOK, Installing
  <2>5. \A b : Cached(b)' = Cached(b)
    BY DEF Cached
  <2>6. committing'
    BY DEF InvCount, InCommit
  <2>7. tail = Len(lh) /\ tail > 0 /\ (\A i \in 1 .. Len(lh) : i <= tail => logblk[i] = Cached(lh[i]))
    BY DEF InvCommit
  <2>8. tail' = 0 /\ lh' = lh /\ hdr' = lh /\ logblk' = logblk /\ Len(lh) \in Nat
    BY Entries
  <2> HIDE DEF IndInv, write_head
  <2>9. tail' < Len(lh) /\ (\A i \in 1 .. Len(lh) : logblk[i] = Cached(lh[i]))
    BY <2>7, <2>8
  <2>10. \A i \in 1 .. Len(lh) : ~(i <= tail')
    BY <2>8
  <2> QED
    BY <2>2, <2>3, <2>5, <2>6, <2>8, <2>9, <2>10 DEF InvCommit, InCommit
<1>10. SleepsOnlyWhenBlocked'
  BY DEF SleepsOnlyWhenBlocked, InvCount, InCommit
<1> QED
  BY <1>1, <1>4, <1>5, <1>6, <1>7, <1>8, <1>9, <1>10

(* Copying one logged block home and unpinning it preserves the invariant. *)
LEMMA Inv_install_trans ==
  ASSUME IndInv, NEW p \in Procs, install_trans(p)
  PROVE  IndInv'
<1> USE LogAssumption DEF IndInv, install_trans, install_block, bunpin, diskVars, bufVars, opVars
<1>0. /\ tail \in Nat /\ Len(lh) \in Nat /\ tail < Len(lh)
      /\ tail + 1 \in 1 .. Len(lh) /\ lh[tail + 1] \in Blocks /\ logblk[tail + 1] \in Vals
  <2>1. tail \in Nat /\ Len(lh) \in Nat /\ tail < Len(lh)
    BY Entries DEF InvCommit
  <2> QED BY <2>1, Entries
<1>a. Installing /\ pin[lh[tail + 1]] >= 1
  <2>1. Installing
    BY DEF Installing
  <2> QED BY <1>0, <2>1 DEF InvPinned
<1>b. /\ \A b \in Blocks : disk'[b] = IF b = lh[tail + 1] THEN logblk[tail + 1] ELSE disk[b]
      /\ \A b \in Blocks : buf'[b] = IF b = lh[tail + 1] THEN logblk[tail + 1] ELSE buf[b]
      /\ \A b \in Blocks : b # lh[tail + 1] => pin'[b] = pin[b]
  BY Zenon, <1>0 DEF TypeOK
<1>c. \A i \in 1 .. Len(lh) :
        i \in Nat /\ lh[i] \in Blocks /\ (i # tail + 1 => lh[i] # lh[tail + 1])
  BY <1>0, Entries DEF Injective
<1>d. tail' = tail + 1 /\ UNCHANGED <<sys, hdr, logblk, lh, outstanding, committing, held, wrote>>
  OBVIOUS
<1>1. TypeOK'
  <2>3. buf' \in [Blocks -> Vals \cup {NoVal}] /\ disk' \in [Blocks -> Vals]
    BY Zenon, <1>0 DEF TypeOK
  <2>5. pin' \in [Blocks -> Nat]
    BY <1>0, <1>a DEF TypeOK
  <2>6. pc' \in [Procs -> PCs]
    BY DEF TypeOK, PCs, InCommit
  <2>7. tail' \in Nat
    BY <1>0, <1>d
  <2> HIDE DEF install_trans, install_block, bunpin
  <2> QED
    BY Zenon, <2>3, <2>5, <2>6, <2>7, <1>d DEF TypeOK
<1>4. InvCount'
  BY ZenonT(60) DEF TypeOK, InvCount, Ops, InOp, InCommit
<1>5. InvHeld'
  BY DEF InvHeld
<1>6. InvDown'
  BY DEF InvDown
<1>e. Ops = {} /\ committing /\ \A q \in Procs : held[q] = NoBlock
  BY DEF InvCount, InvHeld, InCommit, Ops, InOp
<1>f. pc'[p] \in {"install", "clear"} /\ Installing'
  BY DEF TypeOK, Installing
<1>g. /\ hdr = lh
      /\ \A i \in 1 .. Len(lh) : logblk[i] = Cached(lh[i])
      /\ \A i \in 1 .. Len(lh) : i <= tail => disk[lh[i]] = logblk[i]
  BY DEF InvCommit
<1>7. InvPinned'
  <2>1. ASSUME NEW i \in 1 .. Len(lh), i > tail + 1
        PROVE  buf'[lh[i]] # NoVal /\ pin'[lh[i]] >= 1
    <3>1. i \in Nat /\ i # tail + 1 /\ i > tail
      BY <1>0, <1>c, <2>1
    <3>2. buf[lh[i]] # NoVal /\ pin[lh[i]] >= 1
      BY <3>1 DEF InvPinned
    <3> QED BY <1>b, <1>c, <3>1, <3>2
  <2> HIDE DEF IndInv, install_trans
  <2> QED BY <1>d, <1>e, <1>f, <2>1 DEF InvPinned
<1>8. InvClean'
  <2>1. ASSUME sys = "up", NEW b \in Blocks, \A i \in 1 .. Len(lh) : lh[i] # b
        PROVE  buf'[b] \in {NoVal, disk'[b]}
    <3>1. b # lh[tail + 1] /\ \A q \in Procs : held[q] # b
      BY <1>0, <1>e, <2>1 DEF NoBlock
    <3>2. buf[b] \in {NoVal, disk[b]}
      BY <2>1, <3>1 DEF InvClean
    <3> QED BY <1>b, <3>1, <3>2
  <2> HIDE DEF IndInv, install_trans
  <2> QED BY <1>d, <2>1 DEF InvClean
<1>9. InvCommit'
  <2>2. \A q \in Procs : q # p => pc'[q] \notin InCommit
    BY DEF InvCount, InCommit
  <2>4. pc'[p] = "install" => tail' < Len(lh')
    BY <1>0 DEF TypeOK
  <2>5. pc'[p] = "clear" => tail' = Len(lh') /\ tail' > 0
    BY <1>0
  <2> HIDE DEF IndInv, install_trans
  <2>7. \A i \in 1 .. Len(lh) : logblk[i] = Cached(lh[i])'
    <3>3. ASSUME NEW i \in 1 .. Len(lh) PROVE logblk[i] = Cached(lh[i])'
      <4> DEFINE b == lh[i]
      <4>0. lh'[i] = lh[i] /\ b \in Blocks
        BY <1>c, <1>d
      <4>1. CASE i = tail + 1
        BY <1>0, <1>b, <1>d, <4>0, <4>1 DEF Cached
      <4>2. CASE i # tail + 1
        BY <1>b, <1>c, <1>d, <1>g, <4>0, <4>2 DEF Cached
      <4> QED BY <4>1, <4>2
    <3> QED BY <1>d, <3>3
  <2>8. ASSUME NEW i \in 1 .. Len(lh), i <= tail + 1 PROVE disk'[lh[i]] = logblk[i]
    <3>1. CASE i = tail + 1
      BY <1>0, <1>b, <3>1
    <3>2. CASE i # tail + 1
      <4>1. i <= tail /\ lh[i] \in Blocks /\ lh[i] # lh[tail + 1]
        BY <1>0, <1>c, <2>8, <3>2
      <4> QED BY <1>b, <1>g, <4>1
    <3> QED BY <3>1, <3>2
  <2> QED
    BY <1>d, <1>e, <1>f, <1>g, <2>2, <2>4, <2>5, <2>7, <2>8 DEF InvCommit, InCommit
<1>10. SleepsOnlyWhenBlocked'
  BY DEF SleepsOnlyWhenBlocked, InvCount, InCommit
<1> QED
  BY <1>1, <1>4, <1>5, <1>6, <1>7, <1>8, <1>9, <1>10

(* Erasing the transaction from the header after the install preserves the *)
(* invariant.                                                              *)
LEMMA Inv_clear_head ==
  ASSUME IndInv, NEW p \in Procs, clear_head(p)
  PROVE  IndInv'
<1> USE LogAssumption DEF IndInv, clear_head, erase, diskVars, bufVars, opVars
<1>1. TypeOK'
  BY DEF TypeOK, PCs, InCommit
<1>3. Injective(hdr)'
  BY DEF Injective
<1>4. InvCount'
  BY Zenon DEF TypeOK, InvCount, Ops, InOp, InCommit
<1>5. InvHeld'
  BY DEF InvHeld
<1>6. InvDown'
  BY DEF InvDown
<1>7. InvPinned'
  BY DEF InvPinned
<1>8. InvClean'
  <2>1. /\ tail = Len(lh)
        /\ \A i \in 1 .. Len(lh) : logblk[i] = Cached(lh[i])
        /\ \A i \in 1 .. Len(lh) : i <= tail => disk[lh[i]] = logblk[i]
    BY DEF InvCommit
  <2>2. \A i \in 1 .. Len(lh) : i <= Len(lh)
    <3>1. Len(lh) \in Nat
      BY Entries
    <3> HIDE DEF IndInv, clear_head
    <3> QED BY <3>1
  <2>3. \A i \in 1 .. Len(lh) : disk[lh[i]] = Cached(lh[i])
    BY <2>1, <2>2
  <2>4. \A i \in 1 .. Len(lh) : buf[lh[i]] \in {NoVal, disk[lh[i]]}
    BY <2>3 DEF Cached
  <2> QED
    BY <2>4 DEF InvClean
<1>9. InvCommit'
  BY DEF TypeOK, InvCommit, InvCount, InCommit
<1>10. SleepsOnlyWhenBlocked'
  BY DEF SleepsOnlyWhenBlocked, InvCount, InCommit
<1> QED
  BY <1>1, <1>3, <1>4, <1>5, <1>6, <1>7, <1>8, <1>9, <1>10

-----------------------------------------------------------------------------
(* The buffer cache, crashes and recovery.                                 *)

(* Reading a block into the cache preserves the invariant.                 *)
LEMMA Inv_bread ==
  ASSUME IndInv, NEW b \in Blocks, bread(b)
  PROVE  IndInv'
<1> USE LogAssumption DEF IndInv, bread, diskVars, bufVars, opVars
<1>1. TypeOK'
  BY DEF TypeOK
<1>4. InvCount'
  BY DEF InvCount, Ops
<1>5. InvHeld'
  BY DEF InvHeld
<1>6. InvDown'
  BY DEF InvDown
<1>7. InvPinned'
  BY DEF InvPinned, Installing
<1>8. InvClean'
  BY DEF TypeOK, InvClean
<1>9. InvCommit'
  <2>1. \A c \in Blocks : Cached(c)' = Cached(c)
    <3>1. \A c \in Blocks : buf'[c] = IF c = b THEN disk[b] ELSE buf[c]
      BY DEF TypeOK
    <3>2. disk \in [Blocks -> Vals] /\ NoVal \notin Vals /\ disk' = disk
      BY DEF TypeOK
    <3> QED BY <3>1, <3>2 DEF Cached
  <2> QED BY <2>1, CommitFrame
<1>10. SleepsOnlyWhenBlocked'
  BY DEF SleepsOnlyWhenBlocked, LogFull
<1> QED
  BY <1>1, <1>4, <1>5, <1>6, <1>7, <1>8, <1>9, <1>10

(* Recycling an unreferenced buffer (bget) preserves the invariant: it is  *)
(* clean.                                                                  *)
LEMMA Inv_bget_recycle ==
  ASSUME IndInv, NEW b \in Blocks, bget_recycle(b)
  PROVE  IndInv'
<1> USE LogAssumption DEF IndInv, bget_recycle, diskVars, bufVars, opVars
<1>1. TypeOK'
  BY DEF TypeOK
<1>4. InvCount'
  BY DEF InvCount, Ops
<1>5. InvHeld'
  BY DEF InvHeld
<1>6. InvDown'
  BY DEF InvDown
<1>7. InvPinned'
  BY DEF InvPinned, Installing, Cached
<1>8. InvClean'
  <2>1. \A c \in Blocks : buf'[c] \in {NoVal, buf[c]}
    BY DEF TypeOK
  <2> QED BY <2>1 DEF InvClean
<1>9. InvCommit'
  <2>1. \A c \in Blocks : buf'[c] = IF c = b THEN NoVal ELSE buf[c]
    BY DEF TypeOK
  <2>2. buf[b] = disk[b] \/ \E i \in 1 .. Len(lh) : lh[i] = b
    BY DEF InvClean
  <2>3. ASSUME NEW i \in 1 .. Len(lh), lh[i] = b PROVE Cached(b)' = Cached(b)
    <3>1. Installing /\ i <= tail
      BY <2>3, Entries DEF InvPinned
    <3>2. PICK p \in Procs : pc[p] \in {"install", "clear"}
      BY <3>1 DEF Installing
    <3>3. disk[lh[i]] = logblk[i] /\ logblk[i] = Cached(lh[i])
      BY <2>3, <3>1, <3>2 DEF InvCommit
    <3> QED BY <2>1, <2>3, <3>3 DEF Cached
  <2>4. buf[b] = disk[b] => Cached(b)' = Cached(b)
    BY <2>1 DEF Cached
  <2>5. \A c \in Blocks : c # b => Cached(c)' = Cached(c)
    BY <2>1 DEF Cached
  <2>6. \A c \in Blocks : Cached(c)' = Cached(c)
    BY <2>2, <2>3, <2>4, <2>5
  <2> QED BY <2>6, CommitFrame
<1>10. SleepsOnlyWhenBlocked'
  BY DEF SleepsOnlyWhenBlocked, LogFull
<1> QED
  BY <1>1, <1>4, <1>5, <1>6, <1>7, <1>8, <1>9, <1>10

(* A crash at any step, which loses the memory and keeps the disk,         *)
(* preserves the invariant.                                                *)
LEMMA Inv_crash ==
  ASSUME IndInv, crash
  PROVE  IndInv'
<1> USE LogAssumption DEF IndInv, crash, diskVars, bufVars, opVars
<1>1. TypeOK'
  <2>3. pc' \in [Procs -> PCs] /\ sys' \in Stages /\ pin' \in [Blocks -> Nat]
    BY DEF PCs, Stages
  <2>5. committing' \in BOOLEAN
    OBVIOUS
  <2> QED
    BY <2>3, <2>5 DEF TypeOK
<1>2. Injective(lh)'
  BY DEF Injective
<1>4. InvCount'
  <2>1. Ops' = {}
    BY DEF Ops, InOp
  <2> QED
    BY <2>1, FS_EmptySet DEF InvCount, InCommit
<1>5. InvHeld'
  BY DEF InvHeld
<1>6. InvDown'
  BY DEF InvDown
<1>7. InvPinned'
  BY DEF InvPinned
<1>8. InvClean'
  BY DEF InvClean, InOp
<1>9. InvCommit'
  BY DEF InvCommit
<1>10. SleepsOnlyWhenBlocked'
  BY DEF SleepsOnlyWhenBlocked
<1> QED
  BY <1>1, <1>2, <1>4, <1>5, <1>6, <1>7, <1>8, <1>9, <1>10

(* The first step of recovery, read_head(), preserves the invariant.       *)
LEMMA Inv_read_head ==
  ASSUME IndInv, read_head
  PROVE  IndInv'
<1> USE LogAssumption DEF IndInv, read_head, diskVars, bufVars, opVars
<1>1. TypeOK'
  BY DEF TypeOK, Stages
<1>4. InvCount'
  BY DEF InvCount, Ops
<1>5. InvHeld'
  BY DEF InvHeld
<1>6. InvDown'
  BY DEF InvDown
<1>7. InvPinned'
  BY DEF InvPinned
<1>8. InvClean'
  BY DEF InvClean
<1>9. InvCommit'
  BY DEF InvCommit
<1>10. SleepsOnlyWhenBlocked'
  BY DEF SleepsOnlyWhenBlocked, InvDown
<1> QED
  BY <1>1, <1>4, <1>5, <1>6, <1>7, <1>8, <1>9, <1>10

(* Installing one block during recovery preserves the invariant.           *)
LEMMA Inv_recover_install ==
  ASSUME IndInv, recover_install
  PROVE  IndInv'
<1> USE LogAssumption DEF IndInv, recover_install, install_block, diskVars, bufVars, opVars
<1>1. TypeOK'
  <2>1. tail \in Nat /\ tail < Len(lh) /\ Len(lh) \in Nat
    BY Entries DEF InvDown
  <2>2. tail + 1 \in 1 .. Len(lh) /\ lh[tail + 1] \in Blocks /\ logblk[tail + 1] \in Vals
    BY <2>1, Entries
  <2>3. buf' \in [Blocks -> Vals \cup {NoVal}] /\ disk' \in [Blocks -> Vals]
    BY Zenon, <2>1, <2>2 DEF TypeOK
  <2>4. sys' \in Stages /\ tail' \in Nat
    BY <2>1 DEF Stages
  <2>5. UNCHANGED <<hdr, logblk, pin, lh, outstanding, committing, pc, held, wrote>>
    OBVIOUS
  <2> HIDE DEF recover_install, install_block
  <2> QED
    BY Zenon, <2>3, <2>4, <2>5 DEF TypeOK
<1>4. InvCount'
  BY DEF InvCount, Ops
<1>5. InvHeld'
  BY DEF InvHeld
<1>6. InvDown'
  <2>1. lh = hdr /\ tail < Len(hdr) /\ tail \in Nat /\ Len(hdr) \in Nat
    BY Entries DEF InvDown
  <2>2. tail + 1 \in 1 .. Len(hdr) /\ hdr[tail + 1] \in Blocks
    BY <2>1, Entries
  <2>3. /\ \A b \in Blocks : disk'[b] = IF b = hdr[tail + 1] THEN logblk[tail + 1] ELSE disk[b]
        /\ \A b \in Blocks : buf'[b] = IF b = hdr[tail + 1] THEN logblk[tail + 1] ELSE buf[b]
    BY Zenon, <2>1, <2>2 DEF TypeOK
  <2>4. /\ \A b \in Blocks : buf[b] \in {NoVal, disk[b]}
        /\ \A i \in 1 .. Len(hdr) : i <= tail => disk[hdr[i]] = logblk[i]
        /\ \A p \in Procs : pc[p] = "idle"
    BY DEF InvDown
  <2>5. /\ tail' = tail + 1 /\ sys' = IF tail + 1 = Len(hdr) THEN "clear" ELSE "install"
        /\ UNCHANGED <<hdr, logblk, lh, pc>>
    BY <2>1
  <2> HIDE DEF recover_install, install_block
  <2>6. \A b \in Blocks : buf'[b] \in {NoVal, disk'[b]}
    BY <2>3, <2>4
  <2>7. ASSUME NEW i \in 1 .. Len(hdr), i <= tail + 1 PROVE disk'[hdr[i]] = logblk[i]
    <3>1. hdr[i] \in Blocks /\ i \in Nat
      BY Entries
    <3>2. CASE i = tail + 1
      BY <2>2, <2>3, <3>2
    <3>3. CASE i <= tail
      <4>1. hdr[i] # hdr[tail + 1]
        BY <2>1, <2>2, <3>1, <3>3 DEF Injective
      <4> QED BY <2>3, <2>4, <3>1, <3>3, <4>1
    <3> QED BY <2>1, <2>7, <3>1, <3>2, <3>3
  <2>8. tail' < Len(hdr) \/ tail' = Len(hdr)
    BY <2>1, <2>5
  <2> QED BY <2>1, <2>4, <2>5, <2>6, <2>7, <2>8 DEF InvDown
<1>7. InvPinned'
  BY DEF InvPinned
<1>8. InvClean'
  BY DEF InvClean
<1>9. InvCommit'
  BY DEF InvCommit
<1>10. SleepsOnlyWhenBlocked'
  BY DEF SleepsOnlyWhenBlocked, InvDown
<1> QED
  BY <1>1, <1>4, <1>5, <1>6, <1>7, <1>8, <1>9, <1>10

(* Erasing the log at the end of recovery preserves the invariant.         *)
LEMMA Inv_recover_clear ==
  ASSUME IndInv, recover_clear
  PROVE  IndInv'
<1> USE LogAssumption DEF IndInv, recover_clear, erase, diskVars, bufVars, opVars
<1>1. TypeOK'
  BY DEF TypeOK, Stages
<1>3. Injective(hdr)'
  BY DEF Injective
<1>4. InvCount'
  BY DEF InvCount, Ops
<1>5. InvHeld'
  BY DEF InvHeld
<1>6. InvDown'
  BY DEF InvDown
<1>7. InvPinned'
  <2>1. \A p \in Procs : held'[p] = NoBlock
    BY DEF InvHeld, InvDown
  <2>2. Len(lh') = 0
    OBVIOUS
  <2> HIDE DEF IndInv, recover_clear
  <2> QED BY <2>1, <2>2 DEF InvPinned
<1>8. InvClean'
  BY DEF InvClean, InvDown
<1>9. InvCommit'
  BY DEF InvCommit, InvDown
<1>10. SleepsOnlyWhenBlocked'
  BY DEF SleepsOnlyWhenBlocked, InvDown
<1> QED
  BY <1>1, <1>3, <1>4, <1>5, <1>6, <1>7, <1>8, <1>9, <1>10

-----------------------------------------------------------------------------
(* Every step of the log preserves the inductive invariant.                *)
LEMMA StepInv == IndInv /\ [Next]_vars => IndInv'
<1> SUFFICES ASSUME IndInv, [Next]_vars PROVE IndInv'
  OBVIOUS
<1>1. CASE UNCHANGED vars
  <2> USE <1>1 DEF vars
  <2>1. TypeOK' /\ Injective(lh)' /\ Injective(hdr)'
    BY DEF IndInv, TypeOK
  <2>2. InvCount' /\ InvHeld'
    BY DEF IndInv, InvCount, InvHeld, Ops
  <2>3. InvDown' /\ InvPinned' /\ InvClean'
    BY DEF IndInv, InvDown, InvPinned, InvClean, Installing
  <2>4. InvCommit'
    BY DEF IndInv, InvCommit, Installing, Ops, Cached
  <2>5. SleepsOnlyWhenBlocked'
    BY DEF IndInv, SleepsOnlyWhenBlocked, LogFull
  <2> QED
    BY <2>1, <2>2, <2>3, <2>4, <2>5 DEF IndInv
<1>2. ASSUME NEW p \in Procs, begin_op(p) \/ log_write(p) \/ end_op(p) PROVE IndInv'
  BY <1>2, Inv_begin_op, Inv_log_write, Inv_end_op
<1>3. ASSUME NEW p \in Procs, Commit(p) PROVE IndInv'
  BY <1>3, Inv_write_log, Inv_write_head, Inv_install_trans, Inv_clear_head,
     Inv_end_op_done DEF Commit
<1>4. ASSUME NEW p \in Procs, NEW b \in Blocks, NEW v \in Vals, modify(p, b, v) PROVE IndInv'
  BY <1>4, Inv_modify
<1>5. ASSUME NEW b \in Blocks, bread(b) \/ bget_recycle(b) PROVE IndInv'
  BY <1>5, Inv_bread, Inv_bget_recycle
<1>6. ASSUME crash \/ Recover PROVE IndInv'
  BY <1>6, Inv_crash, Inv_read_head, Inv_recover_install, Inv_recover_clear DEF Recover
<1> QED
  BY <1>1, <1>2, <1>3, <1>4, <1>5, <1>6 DEF Next

(* The inductive invariant holds in every reachable state of the log,      *)
(* crashes and recoveries included.                                        *)
THEOREM Invariance == Spec => []IndInv
<1>1. Init => IndInv
  BY InitInv
<1>2. IndInv /\ [Next]_vars => IndInv'
  BY StepInv
<1> QED
  BY <1>1, <1>2, PTL DEF Spec
=============================================================================
