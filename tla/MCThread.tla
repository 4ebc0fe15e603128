------------------------------ MODULE MCThread ------------------------------
(* Instances of the modules of thread.c for TLC: ThreadDataset with Topology, *)
(* and BorderRouter.  They share nothing but s_ready, so TLC explores them    *)
(* side by side and not in each other's every state.                          *)
EXTENDS Topology, BorderRouter, TLC
CONSTANTS home, office, r1, r2
MCNetworks == {home, office}
MCRouters == {r1, r2}
MCNoRouters == {}
MCRenamers == {"console", "screen"}
Symmetry == Permutations(MCNetworks) \cup Permutations(MCRouters)

VARIABLE part   \* which of the two a behaviour is about

BothInit == part \in {"datasets", "router"} /\ ScanInit /\ RouterInit

BothNext ==
  \/ part = "datasets" /\ ScanNext /\ UNCHANGED <<routerVars, part>>
  \/ part = "router" /\ RouterNext /\ UNCHANGED <<allVars, part>>

BothSpec == BothInit /\ [][BothNext]_<<allVars, routerVars, part>>
=============================================================================
