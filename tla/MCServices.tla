----------------------------- MODULE MCServices -----------------------------
(***************************************************************************)
(* The report files, the console and the quota scheduler.  They share no   *)
(* state, so each behaviour moves one of them.                             *)
(***************************************************************************)
EXTENDS Reports, Console, MinCU, TLC

VARIABLE unit

ServicesInit ==
  /\ unit \in {"reports", "console", "mincu"}
  /\ Init /\ ConsoleInit /\ MinCUInit
  /\ unit # "console" => cons.r = 0

servicesVars == <<unit, vars, consoleVars, minCUVars>>

ServicesNext ==
  \/ unit = "reports" /\ Next /\ UNCHANGED <<unit, consoleVars, minCUVars>>
  \/ unit = "console" /\ ConsoleNext /\ UNCHANGED <<unit, vars, minCUVars>>
  \/ unit = "mincu" /\ MinCUNext /\ UNCHANGED <<unit, vars, consoleVars>>

ServicesSpec == ServicesInit /\ [][ServicesNext]_servicesVars

Symmetry == Permutations(Procs) \cup Permutations(Readers) \cup Permutations(Cpus)

(* The parts that a behaviour does not move stay as they started. *)
View ==
  <<unit, CASE unit = "reports" -> vars [] unit = "console" -> consoleVars
            [] unit = "mincu" -> minCUVars>>
=============================================================================
