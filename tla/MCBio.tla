------------------------------- MODULE MCBio --------------------------------
EXTENDS Bio, TLC

(* Processes are interchangeable. *)
Symmetry == Permutations(BioProcs)

(* Ring slots that have been read are not looked at again. *)
Pending(r, i) == [n \in 0 .. (((r.idx - i) % IDX) - 1) |-> r.ring[(i + n) % NUM]]

(* So are blocks: one that is cached is known by its first buffer, and of  *)
(* the others only their number matters.                                   *)
Known(n) == IF n = None \/ Hits(n) = {} THEN n ELSE CHOOSE k \in Hits(n) : \A j \in Hits(n) : k <= j
BufView(k) ==
  LET n == buf[k].blockno
  IN  IF n = None THEN buf[k] ELSE <<[buf[k] EXCEPT !.blockno = Known(n)], content[n], platter[n]>>
ReqView(h) == IF req[h] = None THEN None ELSE [req[h] EXCEPT !.sector = Known(@)]
Uncached ==
  [v, w \in Vals |-> Cardinality({n \in Blocks : Hits(n) = {} /\ content[n] = v /\ platter[n] = w})]

View == <<[k \in Bufs |-> BufView(k)], [h \in Descs |-> ReqView(h)], Uncached, lru, diskfree,
          avail.idx, Pending(avail, taken), used.idx, Pending(used, used_idx), used_idx,
          diskintr, diskirq, taken, serving, procVars, dirty, ios>>
=============================================================================
