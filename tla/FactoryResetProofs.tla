------------------------ MODULE FactoryResetProofs ------------------------
(***************************************************************************)
(* For any number of writes by the other tasks: the factory reset is typed *)
(* and fails closed.  ResetIsComplete speaks of the last moment only; the  *)
(* invariant behind it follows the erases one by one.                      *)
(***************************************************************************)
EXTENDS FactoryReset, TLAPS

\* The stores the attempt has erased when it is at this step.
Behind(s) ==
  CASE s = "wifi" -> {"thread"}
    [] s = "network" -> {"thread", "wifi"}
    [] s \in {"settings", "matter", "partition", "restart"} -> Stores \ {"matter"}
    [] OTHER -> {}

StoresBehind == full \cap Behind(step) \subseteq late

SettingsBehind ==
  step \in {"matter", "partition", "restart"} /\ prefs # {} => "settings" \in late

\* An attempt that had CHIP's reset queued has everything behind it, and so has
\* whoever tries again before the event loop gets there.
QueuedIsBehind ==
  scheduled => full \ {"matter"} \subseteq late /\ (prefs # {} => "settings" \in late)

\* Nobody can write the fabrics back: CHIP does not run, or has lost the partition.
FabricsGone == step = "restart" => "matter" \notin full /\ ~held

ResetInv == ResetTypeOK /\ StoresBehind /\ SettingsBehind /\ QueuedIsBehind /\ FabricsGone

-----------------------------------------------------------------------------

\* The stores and the worker: sets and small enumerations.
TypeOfStores ==
  /\ full \subseteq Stores /\ cfg \subseteq Ages /\ prefs \subseteq Ages
  /\ shown \in {"none", "other", "current"} /\ sync \in {"idle", "save", "erase"}
  /\ step \in Steps /\ boot \in Boots
  /\ late \subseteq Stores \cup {"settings"}

\* The flags of main.c, matter.cpp and CHIP.
TypeOfFlags ==
  /\ chip \in BOOLEAN /\ started \in BOOLEAN
  /\ pending \in BOOLEAN /\ scheduled \in BOOLEAN /\ held \in BOOLEAN
  /\ wanted \in BOOLEAN

\* Steps keep the types of the stores.
LEMMA StoresTyped ==
  ASSUME ResetTypeOK, [ResetNext]_resetVars PROVE TypeOfStores'
<1>. USE DEF ResetTypeOK, TypeOfStores, Stores, Ages, Steps, Boots, storeVars, matterVars
<1>1. CASE BootSteps
  <2>1. CASE WifiInit \/ MatterFails \/ ChipStarts
    BY <2>1 DEF WifiInit, MatterFails, ChipStarts, BootStep
  <2>2. CASE MatterStarts \/ ThreadInit
    BY <2>2 DEF MatterStarts, ThreadInit, BootStep
  <2>. QED
    BY <1>1, <2>1, <2>2 DEF BootSteps
<1>2. CASE AskReset
  BY <1>2 DEF AskReset, At
<1>3. CASE EraseThread
  BY <1>3 DEF EraseThread, Erase, At
<1>4. CASE EraseWifi
  BY <1>4 DEF EraseWifi, Erase, At
<1>5. CASE EraseNetwork
  BY <1>5 DEF EraseNetwork, Erase, At
<1>6. CASE EraseSettings
  BY <1>6 DEF EraseSettings, At
<1>7. CASE AskMatter \/ ErasePartition
  BY <1>7 DEF AskMatter, ErasePartition, At
<1>8. ASSUME NEW left, Reboots(left), left \subseteq Stores PROVE TypeOfStores'
  BY <1>8 DEF Reboots
<1>9. CASE Restart \/ ChipResets \/ OtherReboot
  BY <1>8, <1>9 DEF Restart, ChipResets, OtherReboot
<1>10. CASE ChangeSetting \/ Rename
  BY <1>10, ZenonT(40) DEF ChangeSetting, Rename
<1>11. CASE JoinWifi \/ GainThread \/ FormNetwork \/ ChipWrites
  BY <1>11, ZenonT(40) DEF JoinWifi, GainThread, FormNetwork, ChipWrites, Write
<1>12. CASE SyncLooks
  BY <1>12 DEF SyncLooks
<1>13. CASE SyncWrites
  BY <1>13 DEF SyncWrites
<1>14. CASE UNCHANGED resetVars
  BY <1>14 DEF resetVars
<1>. QED
  BY <1>1, <1>2, <1>3, <1>4, <1>5, <1>6, <1>7, <1>9, <1>10, <1>11, <1>12, <1>13, <1>14
  DEF ResetNext, ResetSteps, Others

\* Steps keep the flags flags.
LEMMA FlagsTyped ==
  ASSUME ResetTypeOK, [ResetNext]_resetVars PROVE TypeOfFlags'
<1>0. TypeOfFlags
  BY DEF ResetTypeOK, TypeOfFlags
<1>. USE <1>0 DEF TypeOfFlags, storeVars, matterVars
<1>1. CASE WifiInit \/ MatterFails \/ ThreadInit
  BY <1>1, Zenon DEF WifiInit, MatterFails, ThreadInit
<1>2. CASE ChipStarts
  <2>1. held' \in BOOLEAN
    BY <1>2, SMT DEF ChipStarts
  <2>. QED
    BY <1>2, <2>1, Zenon DEF ChipStarts
<1>3. CASE MatterStarts
  BY <1>3, Zenon DEF MatterStarts
<1>4. CASE AskReset
  BY <1>4, Zenon DEF AskReset
<1>5. CASE EraseThread \/ EraseWifi \/ EraseNetwork \/ EraseSettings
  BY <1>5, Zenon DEF EraseThread, EraseWifi, EraseNetwork, EraseSettings
<1>6. CASE AskMatter
  <2>1. CASE started /\ ~pending
    BY <1>6, <2>1, Zenon DEF AskMatter
  <2>2. CASE ~(started /\ ~pending)
    BY <1>6, <2>2, Zenon DEF AskMatter
  <2>. QED
    BY <2>1, <2>2, Zenon
<1>7. CASE ErasePartition
  BY <1>7, Zenon DEF ErasePartition
<1>8. CASE Restart \/ ChipResets \/ OtherReboot
  BY <1>8, Zenon DEF Restart, ChipResets, OtherReboot, Reboots
<1>9. CASE Others
  BY <1>9, Zenon DEF Others, ChangeSetting, Rename, JoinWifi, GainThread, FormNetwork,
     ChipWrites, SyncLooks, SyncWrites
<1>10. CASE UNCHANGED resetVars
  BY <1>10, Zenon DEF resetVars
<1>. QED
  BY <1>1, <1>2, <1>3, <1>4, <1>5, <1>6, <1>7, <1>8, <1>9, <1>10, Zenon
  DEF ResetNext, BootSteps, ResetSteps

\* Steps keep the count of writes within its bound.
LEMMA WritesTyped ==
  ASSUME ResetTypeOK, [ResetNext]_resetVars PROVE writes' \in 0..MaxWrites
<1>0. MaxWrites \in Nat /\ writes \in 0..MaxWrites
  BY ResetAssumption DEF ResetTypeOK
<1>1. CASE UNCHANGED writes
  BY <1>0, <1>1
<1>2. CASE writes' = 0
  BY <1>0, <1>2
<1>3. CASE writes < MaxWrites /\ writes' = writes + 1
  BY <1>0, <1>3
<1>. QED
  BY <1>1, <1>2, <1>3, Zenon
  DEF ResetNext, BootSteps, WifiInit, MatterFails, ChipStarts, MatterStarts, ThreadInit,
      AskReset, ResetSteps, EraseThread, EraseWifi, EraseNetwork, EraseSettings, AskMatter,
      ErasePartition, Restart, ChipResets, OtherReboot, Reboots, Others, ChangeSetting, Rename,
      JoinWifi, GainThread, FormNetwork, ChipWrites, Write, SyncLooks, SyncWrites, resetVars

\* Steps keep the state well typed.
LEMMA TypeStep == ResetTypeOK /\ [ResetNext]_resetVars => ResetTypeOK'
<1>. SUFFICES ASSUME ResetTypeOK, [ResetNext]_resetVars PROVE ResetTypeOK'
  OBVIOUS
<1>1. TypeOfStores' /\ TypeOfFlags' /\ writes' \in 0..MaxWrites
  BY StoresTyped, FlagsTyped, WritesTyped
<1>. QED
  BY <1>1, Zenon DEF ResetTypeOK, TypeOfStores, TypeOfFlags

\* A restart, whoever asks for it, leaves nothing to keep.
LEMMA RebootKeeps ==
  ASSUME NEW left, Reboots(left)
  PROVE StoresBehind' /\ SettingsBehind' /\ QueuedIsBehind' /\ FabricsGone'
BY DEF Reboots, StoresBehind, Behind, SettingsBehind, QueuedIsBehind, FabricsGone

\* The worker's own steps.
LEMMA ResetStepKeeps ==
  ASSUME ResetInv, AskReset \/ ResetSteps
  PROVE StoresBehind' /\ SettingsBehind' /\ QueuedIsBehind' /\ FabricsGone'
<1>. USE DEF ResetInv, ResetTypeOK, StoresBehind, SettingsBehind, QueuedIsBehind, FabricsGone,
             Behind, Stores, Steps, At
<1>1. CASE AskReset
  BY <1>1 DEF AskReset, storeVars, matterVars
<1>2. CASE EraseThread
  BY <1>2 DEF EraseThread, Erase, matterVars
<1>3. CASE EraseWifi
  BY <1>3 DEF EraseWifi, Erase, matterVars
<1>4. CASE EraseNetwork
  BY <1>4 DEF EraseNetwork, Erase, matterVars
<1>5. CASE EraseSettings
  BY <1>5 DEF EraseSettings, matterVars
<1>6. CASE AskMatter
  BY <1>6 DEF AskMatter, storeVars
<1>7. CASE ErasePartition
  BY <1>7 DEF ErasePartition
<1>8. CASE Restart
  BY <1>8, RebootKeeps DEF Restart
<1>. QED
  BY <1>1, <1>2, <1>3, <1>4, <1>5, <1>6, <1>7, <1>8 DEF ResetSteps

\* Whoever else writes a store leaves it marked as written since.
LEMMA OthersKeep ==
  ASSUME ResetInv, Others
  PROVE StoresBehind' /\ SettingsBehind' /\ QueuedIsBehind' /\ FabricsGone'
<1>. USE DEF ResetInv, ResetTypeOK, StoresBehind, SettingsBehind, QueuedIsBehind, FabricsGone,
             Behind, Stores, Steps, matterVars
<1>1. CASE ChangeSetting \/ Rename
  BY <1>1 DEF ChangeSetting, Rename
<1>2. CASE JoinWifi
  BY <1>2 DEF JoinWifi, Write
<1>3. CASE GainThread
  BY <1>3 DEF GainThread, Write
<1>4. CASE FormNetwork
  BY <1>4 DEF FormNetwork
<1>5. CASE ChipWrites
  BY <1>5 DEF ChipWrites, Write
<1>6. CASE SyncLooks
  BY <1>6 DEF SyncLooks
<1>7. CASE SyncWrites
  BY <1>7 DEF SyncWrites
<1>. QED
  BY <1>1, <1>2, <1>3, <1>4, <1>5, <1>6, <1>7 DEF Others

\* The boot runs beside the reset and starts CHIP on what flash then holds.
LEMMA BootKeeps ==
  ASSUME ResetInv, BootSteps
  PROVE StoresBehind' /\ SettingsBehind' /\ QueuedIsBehind' /\ FabricsGone'
BY DEF ResetInv, ResetTypeOK, StoresBehind, SettingsBehind, QueuedIsBehind, FabricsGone,
       Behind, Stores, Steps, BootSteps, BootStep, WifiInit, MatterFails, ChipStarts,
       MatterStarts, ThreadInit, storeVars, matterVars

\* Every step keeps the invariant.
LEMMA ResetInvStep == ResetInv /\ [ResetNext]_resetVars => ResetInv'
<1>. SUFFICES ASSUME ResetInv, [ResetNext]_resetVars PROVE ResetInv'
  OBVIOUS
<1>1. ResetTypeOK'
  BY TypeStep DEF ResetInv
<1>2. StoresBehind' /\ SettingsBehind' /\ QueuedIsBehind' /\ FabricsGone'
  <2>1. CASE BootSteps
    BY <2>1, BootKeeps
  <2>2. CASE AskReset \/ ResetSteps
    BY <2>2, ResetStepKeeps
  <2>3. CASE ChipResets \/ OtherReboot
    BY <2>3, RebootKeeps DEF ChipResets, OtherReboot
  <2>4. CASE Others
    BY <2>4, OthersKeep
  <2>5. CASE UNCHANGED resetVars
    BY <2>5 DEF ResetInv, StoresBehind, SettingsBehind, QueuedIsBehind, FabricsGone, Behind,
                resetVars, storeVars, matterVars
  <2>. QED
    BY <2>1, <2>2, <2>3, <2>4, <2>5 DEF ResetNext
<1>. QED
  BY <1>1, <1>2 DEF ResetInv

\* The invariant holds from power-on.
LEMMA ResetInvAlways == ResetSpec => []ResetInv
<1>1. ASSUME ResetInit PROVE ResetInv
  <2>1. TypeOfStores
    BY <1>1 DEF ResetInit, TypeOfStores, Stores, Ages, Steps, Boots
  <2>2. TypeOfFlags
    BY <1>1, Zenon DEF ResetInit, TypeOfFlags
  <2>3. writes \in 0..MaxWrites
    BY <1>1, ResetAssumption DEF ResetInit
  <2>4. StoresBehind /\ SettingsBehind /\ QueuedIsBehind /\ FabricsGone
    BY <1>1 DEF ResetInit, StoresBehind, Behind, SettingsBehind, QueuedIsBehind, FabricsGone
  <2>. QED
    BY <2>1, <2>2, <2>3, <2>4, Zenon DEF ResetInv, ResetTypeOK, TypeOfStores, TypeOfFlags
<1>. QED
  BY <1>1, ResetInvStep, PTL DEF ResetSpec

\* Every reachable state of the reset, the boot and the stores is well typed.
THEOREM ResetTyped == ResetSpec => []ResetTypeOK
<1>1. ResetInv => ResetTypeOK
  BY DEF ResetInv
<1>. QED
  BY <1>1, ResetInvAlways, PTL

\* app_factory_reset restarts the device only with every store erased by this
\* attempt, or filled again by somebody else since: "never reboot and claim a reset".
THEOREM ResetFailsClosed == ResetSpec => []ResetIsComplete
<1>1. ResetInv => ResetIsComplete
  BY DEF ResetInv, ResetTypeOK, StoresBehind, SettingsBehind, QueuedIsBehind, FabricsGone,
         Behind, Stores, ResetIsComplete, Committed
<1>. QED
  BY <1>1, ResetInvAlways, PTL
=============================================================================
