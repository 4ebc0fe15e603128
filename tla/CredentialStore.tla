--------------------------- MODULE CredentialStore ---------------------------
(***************************************************************************)
(* What the firmware promises about the Wi-Fi credentials in flash: a new  *)
(* network is tried without touching them, replaces them only after the    *)
(* trial passed, and a power cut in the middle of a trial loses nothing.   *)
(* WifiLink implements this specification (property StoreSpec there).      *)
(***************************************************************************)
CONSTANTS
  Nets,      \* networks (an SSID with its password)
  NoNet,     \* no network: an empty station configuration
  BuildNet   \* network compiled into the image, or NoNet

VARIABLES
  stored,    \* the network in flash
  trial,     \* the network on trial, or NoNet
  passed     \* the trial got its verdict: connected

vars == <<stored, trial, passed>>

Init ==
  /\ stored \in Nets \cup {NoNet}
  /\ trial = NoNet
  /\ passed = FALSE

Begin(n) ==
  /\ trial = NoNet
  /\ trial' = n
  /\ UNCHANGED <<stored, passed>>

Pass ==
  /\ trial # NoNet
  /\ passed' = TRUE
  /\ UNCHANGED <<stored, trial>>

\* The only way a network on trial reaches flash.
Commit ==
  /\ passed
  /\ stored' = trial
  /\ trial' = NoNet
  /\ passed' = FALSE

\* The trial failed, could not be saved, or the power was cut during it.
Abandon ==
  /\ trial' = NoNet
  /\ passed' = FALSE
  /\ UNCHANGED stored

\* A deliberate leave.
Erase ==
  /\ trial = NoNet
  /\ stored' = NoNet
  /\ UNCHANGED <<trial, passed>>

\* Boot of a device that has nothing stored.
Provision ==
  /\ stored = NoNet
  /\ trial = NoNet
  /\ stored' = BuildNet
  /\ UNCHANGED <<trial, passed>>

Next ==
  \/ \E n \in Nets : Begin(n)
  \/ Pass
  \/ Commit
  \/ Abandon
  \/ Erase
  \/ Provision

Spec == Init /\ [][Next]_vars
==============================================================================
