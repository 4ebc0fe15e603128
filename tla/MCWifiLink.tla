------------------------------ MODULE MCWifiLink ------------------------------
(* Small instances of WifiLink for TLC. *)
EXTENDS WifiLink, TLC

CONSTANTS home, guest, ui, console

MCNets == {home, guest}
MCOneNet == {home}
MCCallers == {ui, console}
MCOneCaller == {ui}
MCSilent == {"connecting"}

Symmetry == Permutations({ui, console})
==============================================================================
