----------------------------- MODULE SpinLock -------------------------------
(***************************************************************************)
(* Spin locks and the nesting of push_off() and pop_off()                  *)
(* (kernel/spinlock.c), on CPUs that take device interrupts whose handlers *)
(* acquire the same locks.  acquire() and release() are split where other  *)
(* CPUs can see the difference.  Callers take locks in a fixed order and   *)
(* release what they hold in any order.                                    *)
(***************************************************************************)
EXTENDS Integers, FiniteSets

CONSTANTS Harts,   \* the CPUs
          Locks,   \* the locks, as numbers in the order they are taken
          NoHart   \* lk->cpu is 0

ASSUME SpinLockAssumption ==
  IsFiniteSet(Locks) /\ Locks \subseteq Nat /\ Locks # {} /\ NoHart \notin Harts

VARIABLES
  locked, owner,  \* lk->locked and lk->cpu
  intr,           \* intr_get(): the CPU takes interrupts
  noff, intena,   \* struct cpu
  at,             \* where the CPU is in acquire() or release()
  want,           \* lk, there
  holds,          \* the locks its callers hold
  trap            \* an interrupt handler runs

lockVars == <<locked, owner>>
hartVars == <<intr, noff, intena>>
spinVars == <<lockVars, hartVars, at, want, holds, trap>>

SpinInit ==
  /\ locked = [l \in Locks |-> FALSE] /\ owner = [l \in Locks |-> NoHart]
  /\ intr = [c \in Harts |-> TRUE] /\ noff = [c \in Harts |-> 0] /\ intena = [c \in Harts |-> FALSE]
  /\ at = [c \in Harts |-> "code"] /\ want = [c \in Harts |-> CHOOSE l \in Locks : TRUE]
  /\ holds = [c \in Harts |-> {}] /\ trap = [c \in Harts |-> FALSE]

Moves(c, from, to) == at[c] = from /\ at' = [at EXCEPT ![c] = to]

SavedIntena(c) == IF noff[c] = 0 THEN intr[c] ELSE intena[c]

push_off(c) ==
  /\ intr' = [intr EXCEPT ![c] = FALSE]
  /\ intena' = [intena EXCEPT ![c] = SavedIntena(c)]
  /\ noff' = [noff EXCEPT ![c] = @ + 1]

IntrOn(c) == noff[c] = 1 /\ intena[c]

pop_off(c) ==
  /\ noff' = [noff EXCEPT ![c] = @ - 1]
  /\ intr' = [intr EXCEPT ![c] = IntrOn(c)]
  /\ UNCHANGED intena

holding(c, l) == locked[l] /\ owner[l] = c

acquire(c, l) ==
  /\ Moves(c, "code", "spin")
  /\ \A m \in holds[c] : m < l
  /\ want' = [want EXCEPT ![c] = l]
  /\ push_off(c)
  /\ UNCHANGED <<lockVars, holds, trap>>

(* acquire() panics if the CPU holds the lock already. *)
panics(c) == at[c] = "spin" /\ holding(c, want[c])

(* Variant of Taken that asks for the owner. *)
Taken_Owner(l) == owner[l] # NoHart

Taken(l) == locked[l]

swap(c) ==
  /\ Moves(c, "spin", "record") /\ ~Taken(want[c])
  /\ locked' = [locked EXCEPT ![want[c]] = TRUE]
  /\ UNCHANGED <<owner, hartVars, want, holds, trap>>

record(c) ==
  /\ Moves(c, "record", "code")
  /\ owner' = [owner EXCEPT ![want[c]] = c]
  /\ holds' = [holds EXCEPT ![c] = @ \cup {want[c]}]
  /\ UNCHANGED <<locked, hartVars, want, trap>>

release(c, l) ==
  /\ Moves(c, "code", "unlock") /\ l \in holds[c]
  /\ holding(c, l)
  /\ want' = [want EXCEPT ![c] = l]
  /\ owner' = [owner EXCEPT ![l] = NoHart]
  /\ holds' = [holds EXCEPT ![c] = @ \ {l}]
  /\ UNCHANGED <<locked, hartVars, trap>>

unlock(c) ==
  /\ Moves(c, "unlock", "pop")
  /\ locked' = [locked EXCEPT ![want[c]] = FALSE]
  /\ UNCHANGED <<owner, hartVars, want, holds, trap>>

release_pop(c) ==
  /\ Moves(c, "pop", "code")
  /\ pop_off(c)
  /\ UNCHANGED <<lockVars, want, holds, trap>>

(* The trap turns interrupts off; sret turns them on again. *)
interrupt(c) ==
  /\ at[c] = "code" /\ intr[c] /\ ~trap[c]
  /\ trap' = [trap EXCEPT ![c] = TRUE]
  /\ intr' = [intr EXCEPT ![c] = FALSE]
  /\ UNCHANGED <<lockVars, noff, intena, at, want, holds>>

sret(c) ==
  /\ at[c] = "code" /\ trap[c] /\ noff[c] = 0
  /\ trap' = [trap EXCEPT ![c] = FALSE]
  /\ intr' = [intr EXCEPT ![c] = TRUE]
  /\ UNCHANGED <<lockVars, noff, intena, at, want, holds>>

HartStep(c) ==
  \/ \E l \in Locks : acquire(c, l) \/ release(c, l)
  \/ swap(c) \/ record(c) \/ unlock(c) \/ release_pop(c)
  \/ interrupt(c) \/ sret(c)

SpinNext == \E c \in Harts : HartStep(c)
SpinSpec == SpinInit /\ [][SpinNext]_spinVars
-----------------------------------------------------------------------------
(* The locks that are a CPU's: it holds them, or is about to record that   *)
(* it does, or has yet to clear the flag.                                  *)
Own(c) == holds[c] \cup (IF at[c] \in {"record", "unlock"} THEN {want[c]} ELSE {})

(* A lock that is taken is one CPU's, and lk->locked says that it is       *)
(* taken from the swap in acquire() to the swap in release().              *)
MutualExclusion ==
  /\ \A c, d \in Harts : c # d => Own(c) \cap Own(d) = {}
  /\ \A l \in Locks : locked[l] <=> \E c \in Harts : l \in Own(c)

(* No CPU takes an interrupt while it holds a lock or waits for one: a     *)
(* handler that acquires the same lock would spin for ever.                *)
InterruptsOff ==
  \A c \in Harts : Own(c) # {} \/ at[c] # "code" => ~intr[c]

(* acquire() never panics and no CPU waits for its own lock, whatever the  *)
(* interrupts do; after the outermost release() interrupts are what they   *)
(* were before the outermost acquire(): on in a process, off in a handler. *)
InterruptsRestored ==
  \A c \in Harts :
    /\ ~panics(c) /\ (at[c] = "spin" => want[c] \notin holds[c])
    /\ at[c] = "code" /\ holds[c] = {} => (intr[c] <=> ~trap[c])
=============================================================================
