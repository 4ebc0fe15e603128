----------------------------- MODULE MCLogTail -----------------------------
(* Instances for TLC of the rings in memory and what fills and reads them:  *)
(* LogTail on LogRing, LogAssembly and DischargeRate.  They share no state, *)
(* so TLC explores them side by side and not in each other's every state.   *)
EXTENDS LogTail, LogAssembly, DischargeRate, TLC
CONSTANTS main, thread, ui
MCTasks == {main, thread}
MCWriters == {main, thread, ui}
Symmetry == Permutations(MCTasks)

VARIABLE part   \* which of the three a behaviour is about

RingsInit == part \in {"ring", "lines", "rate"} /\ TailInit /\ AssemblyInit /\ RateInit

RingsNext ==
  \/ part = "ring" /\ TailNext /\ UNCHANGED <<assemblyVars, rateVars, part>>
  \/ part = "lines" /\ AssemblyNext /\ UNCHANGED <<allVars, rateVars, part>>
  \/ part = "rate" /\ RateNext /\ UNCHANGED <<allVars, assemblyVars, part>>

RingsSpec == RingsInit /\ [][RingsNext]_<<allVars, assemblyVars, rateVars, part>>
==============================================================================
