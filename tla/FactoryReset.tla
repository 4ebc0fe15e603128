---------------------------- MODULE FactoryReset ----------------------------
(***************************************************************************)
(* The factory reset (app_factory_reset in main.c, matter_factory_reset in *)
(* matter.cpp) against everything that may write what it erases: the       *)
(* settings (settings.c), the cached network summary the screen keeps in   *)
(* step with the Thread stack (ui.c), joins on other tasks, CHIP's event   *)
(* loop -- and against the boot, since the screen that offers the reset is *)
(* up before Wi-Fi, Matter and Thread are.                                 *)
(*                                                                         *)
(* The reset runs on the UI worker, one call after the other; each may     *)
(* fail and ends the attempt.  A store counts as full when it holds        *)
(* anything of the owner's.                                                *)
(***************************************************************************)
EXTENDS Naturals, FiniteSets

CONSTANTS
  MaxWrites   \* bound: writes to the stores by other tasks, per boot

ASSUME ResetAssumption == MaxWrites \in Nat

VARIABLES
  full,       \* external: the stores in flash that hold something
  cfg,        \* s_cfg: values from before the settings were last erased, after it
  prefs,      \* external: the same of the namespace "cfg" in flash
  shown,      \* s_have_net and its fields: nothing, another network, the stack's
  sync,       \* what sync_network_from_stack has decided and not yet done
  step,       \* where the worker is in app_factory_reset
  boot,       \* how far app_main is
  chip,       \* external: esp_matter::start has succeeded
  started,    \* s_started
  pending,    \* s_factory_reset_pending
  scheduled,  \* external: CHIP's reset is queued on its event loop
  held,       \* external: CHIP runs with the owner's fabrics, its partition open
  wanted,     \* the user wants the reset
  late,       \* history: stores written since this attempt erased them
  writes      \* bound

storeVars == <<full, cfg, prefs, shown, sync>>
matterVars == <<chip, started, pending, scheduled, held>>
resetVars == <<storeVars, step, boot, matterVars, wanted, late, writes>>

Stores == {"thread", "wifi", "network", "matter"}
Ages == {"old", "new"}
Steps == {"idle", "thread", "wifi", "network", "settings", "matter", "partition", "restart"}
Boots == {"screen", "wifi", "chip", "thread", "done"}

ResetTypeOK ==
  /\ full \subseteq Stores
  /\ cfg \subseteq Ages /\ prefs \subseteq Ages
  /\ shown \in {"none", "other", "current"} /\ sync \in {"idle", "save", "erase"}
  /\ step \in Steps /\ boot \in Boots
  /\ chip \in BOOLEAN /\ started \in BOOLEAN
  /\ pending \in BOOLEAN /\ scheduled \in BOOLEAN /\ held \in BOOLEAN
  /\ wanted \in BOOLEAN
  /\ late \subseteq Stores \cup {"settings"}
  /\ writes \in 0..MaxWrites

ResetInit ==
  /\ full = Stores /\ cfg = {"old"} /\ prefs = {"old"}
  /\ shown = "other" /\ sync = "idle"
  /\ step = "idle" /\ boot = "screen"
  /\ chip = FALSE /\ started = FALSE
  /\ pending = FALSE /\ scheduled = FALSE /\ held = FALSE
  /\ wanted = FALSE /\ late = {} /\ writes = 0

\* thread_available: thread_init has adopted the stack.
Ready == boot = "done" /\ chip

-----------------------------------------------------------------------------
(* The boot: app_main from ui_init on, and matter_init. *)

BootStep(from, to) == boot = from /\ boot' = to

\* s_wifi_op_lock and the driver.
WifiInit ==
  /\ BootStep("screen", "wifi")
  /\ UNCHANGED <<storeVars, step, matterVars, wanted, late, writes>>

\* matter_init fails before it has CHIP running: storage, node or radio.
MatterFails ==
  /\ BootStep("wifi", "thread")
  /\ UNCHANGED <<storeVars, step, matterVars, wanted, late, writes>>

\* esp_matter::start.
ChipStarts ==
  /\ BootStep("wifi", "chip")
  /\ chip' = TRUE /\ held' = ("matter" \in full)
  /\ UNCHANGED <<storeVars, step, started, pending, scheduled, wanted, late, writes>>

\* It took over the station, or could not: then s_started stays clear.
MatterStarts ==
  /\ BootStep("chip", "thread")
  /\ started' \in BOOLEAN
  /\ UNCHANGED <<storeVars, step, chip, pending, scheduled, held, wanted, late, writes>>

ThreadInit ==
  /\ BootStep("thread", "done")
  /\ UNCHANGED <<storeVars, step, matterVars, wanted, late, writes>>

\* esp_restart, or a reset by power: what is in memory starts again from flash.
Reboots(left) ==
  /\ full' = left
  /\ cfg' = prefs /\ shown' = IF "network" \in left THEN "other" ELSE "none"
  /\ sync' = "idle" /\ step' = "idle" /\ boot' = "screen"
  /\ chip' = FALSE /\ started' = FALSE
  /\ pending' = FALSE /\ scheduled' = FALSE /\ held' = FALSE
  /\ wanted' = FALSE /\ late' = {}
  /\ writes' = 0 /\ UNCHANGED prefs

\* on_reboot, the console's reboot, a crash, the power.
OtherReboot == Reboots(full)

-----------------------------------------------------------------------------
(* app_factory_reset, a job of the UI worker. *)

At(here) == step = here

\* on_factory_reset: one UI job at a time, and again as soon as that returned.
AskReset ==
  /\ At("idle") /\ step' = "thread"
  /\ wanted' = TRUE
  /\ late' = IF scheduled THEN late ELSE {}
  /\ UNCHANGED <<storeVars, boot, matterVars, writes>>

\* One store erased; or the erase or its commit failed, and the attempt is over.
Erase(s, next) ==
  \/ /\ step' = next
     /\ full' = full \ {s} /\ late' = late \ {s}
  \/ /\ step' = "idle"
     /\ full' \in {full, full \ {s}} /\ UNCHANGED late

\* thread_forget.
EraseThread ==
  /\ At("thread") /\ Erase("thread", "wifi")
  /\ UNCHANGED <<cfg, prefs, shown, sync, boot, matterVars, wanted, writes>>

\* Fault: what app_wifi_leave returns is not looked at.
EraseWifiRegardless ==
  /\ At("wifi") /\ step' = "network"
  /\ \/ boot # "screen" /\ full' = full \ {"wifi"} /\ late' = late \ {"wifi"}
     \/ UNCHANGED <<full, late>>
  /\ UNCHANGED <<cfg, prefs, shown, sync, boot, matterVars, wanted, writes>>

\* app_wifi_leave, which fails before there is a lock.
EraseWifi ==
  /\ At("wifi")
  /\ \/ boot # "screen" /\ Erase("wifi", "network")
     \/ boot = "screen" /\ step' = "idle" /\ UNCHANGED <<full, late>>
  /\ UNCHANGED <<cfg, prefs, shown, sync, boot, matterVars, wanted, writes>>

\* The namespace "epskc", behind the back of the screen.
EraseNetwork ==
  /\ At("network") /\ Erase("network", "settings")
  /\ UNCHANGED <<cfg, prefs, shown, sync, boot, matterVars, wanted, writes>>

\* settings_erase, which leaves s_cfg alone.
EraseSettings ==
  /\ At("settings")
  /\ \/ step' = "matter" /\ prefs' = {} /\ late' = late \ {"settings"}
     \/ step' = "idle" /\ prefs' \in {prefs, {}} /\ UNCHANGED late
  /\ cfg' = IF prefs' = {} /\ cfg # {} THEN {"old"} ELSE cfg
  /\ UNCHANGED <<full, shown, sync, boot, matterVars, wanted, writes>>

\* Fault: without Matter there is nothing to erase and no way to go on.
AskMatterOnly ==
  /\ At("matter") /\ step' = "idle"
  /\ pending' = (pending \/ started) /\ scheduled' = (scheduled \/ (started /\ ~pending))
  /\ UNCHANGED <<storeVars, boot, chip, started, held, wanted, late, writes>>

\* matter_factory_reset: not started, or already asked, is ESP_ERR_INVALID_STATE.
AskMatter ==
  /\ At("matter")
  /\ IF started /\ ~pending
     THEN step' = "idle" /\ pending' = TRUE /\ scheduled' = TRUE
     ELSE step' = "partition" /\ UNCHANGED <<pending, scheduled>>
  /\ UNCHANGED <<storeVars, boot, chip, started, held, wanted, late, writes>>

\* nvs_flash_erase_partition, which also closes the partition to its users.
ErasePartition ==
  /\ At("partition")
  /\ \/ step' = "restart" /\ full' = full \ {"matter"}
     \/ step' = "idle" /\ UNCHANGED full
  /\ held' = FALSE
  /\ UNCHANGED <<cfg, prefs, shown, sync, boot, chip, started, pending, scheduled, wanted,
                 late, writes>>

\* app_reboot, 200 ms later.
Restart == At("restart") /\ Reboots(full)

\* External: the work esp_matter::factory_reset has queued, which ends in a restart.
ChipResets == scheduled /\ Reboots(full \ {"matter"})

-----------------------------------------------------------------------------
(* Everybody else. *)

Write(s) ==
  /\ writes < MaxWrites /\ writes' = writes + 1
  /\ full' = full \cup {s} /\ late' = late \cup {s}

\* on_brightness and its like, cmd_rest: one value changes, settings_save writes all.
ChangeSetting ==
  /\ writes < MaxWrites /\ writes' = writes + 1
  /\ cfg' = cfg \cup {"new"} /\ prefs' = cfg'
  /\ late' = late \cup {"settings"}
  /\ UNCHANGED <<full, shown, sync, step, boot, matterVars, wanted>>

\* settings_set_device_name writes that value alone.
Rename ==
  /\ writes < MaxWrites /\ writes' = writes + 1
  /\ prefs' = prefs \cup {"new"} /\ late' = late \cup {"settings"}
  /\ UNCHANGED <<full, cfg, shown, sync, step, boot, matterVars, wanted>>

\* cmd_wifi, on the console's task; the join waits for the lock.
JoinWifi ==
  /\ boot # "screen" /\ step # "wifi"
  /\ Write("wifi")
  /\ UNCHANGED <<cfg, prefs, shown, sync, step, boot, matterVars, wanted>>

\* A dataset comes in: over REST or the console when the worker has no other job,
\* from a Matter controller (external) at any time.
GainThread ==
  /\ (step = "idle" /\ Ready) \/ held
  /\ Write("thread")
  /\ shown' = IF shown = "current" THEN "other" ELSE shown
  /\ UNCHANGED <<cfg, prefs, sync, step, boot, matterVars, wanted>>

\* JOB_FORM and JOB_JOIN keep their network's summary themselves.
FormNetwork ==
  /\ step = "idle" /\ Ready
  /\ writes < MaxWrites /\ writes' = writes + 1
  /\ full' = full \cup {"thread", "network"} /\ late' = late \cup {"thread", "network"}
  /\ shown' = "current"
  /\ UNCHANGED <<cfg, prefs, sync, step, boot, matterVars, wanted>>

\* External: CHIP updates what it keeps in matter_nvs.
ChipWrites ==
  /\ held /\ Write("matter")
  /\ UNCHANGED <<cfg, prefs, shown, sync, step, boot, matterVars, wanted>>

\* Fault: only what the stack has is looked at, never that it has nothing.
SyncLooksForNew ==
  /\ sync = "idle" /\ Ready
  /\ sync' = IF "thread" \in full /\ shown # "current" THEN "save" ELSE "idle"
  /\ UNCHANGED <<full, cfg, prefs, shown, step, boot, matterVars, wanted, late, writes>>

\* sync_network_from_stack on the screen's timer: look at the stack ...
SyncLooks ==
  /\ sync = "idle" /\ Ready
  /\ sync' = IF "thread" \in full
             THEN IF shown = "current" THEN "idle" ELSE "save"
             ELSE IF shown = "none" THEN "idle" ELSE "erase"
  /\ UNCHANGED <<full, cfg, prefs, shown, step, boot, matterVars, wanted, late, writes>>

\* ... and write what it saw.
SyncWrites ==
  /\ sync # "idle" /\ sync' = "idle"
  /\ IF sync = "save"
     THEN /\ shown' = "current"
          /\ full' = full \cup {"network"} /\ late' = late \cup {"network"}
     ELSE /\ shown' = "none"
          /\ full' = full \ {"network"} /\ UNCHANGED late
  /\ UNCHANGED <<cfg, prefs, step, boot, matterVars, wanted, writes>>

-----------------------------------------------------------------------------
(* The specification. *)

BootSteps == WifiInit \/ MatterFails \/ ChipStarts \/ MatterStarts \/ ThreadInit

ResetSteps ==
  \/ EraseThread \/ EraseWifi \/ EraseNetwork \/ EraseSettings
  \/ AskMatter \/ ErasePartition \/ Restart

Others ==
  \/ ChangeSetting \/ Rename \/ JoinWifi \/ GainThread \/ FormNetwork \/ ChipWrites
  \/ SyncLooks \/ SyncWrites

ResetNext == BootSteps \/ AskReset \/ ResetSteps \/ ChipResets \/ OtherReboot \/ Others

ResetSpec == ResetInit /\ [][ResetNext]_resetVars

\* The boot goes on, and so does the worker; the screen's timer runs.  A call that
\* is made again and again does not fail each time, a user who wants the reset
\* asks again, and CHIP carries out what it has queued.
ResetFairSpec ==
  /\ ResetSpec
  /\ WF_resetVars(BootSteps)
  /\ WF_resetVars(wanted /\ AskReset) /\ WF_resetVars(ResetSteps)
  /\ SF_resetVars(EraseThread /\ step' # "idle") /\ SF_resetVars(EraseWifi /\ step' # "idle")
  /\ SF_resetVars(EraseNetwork /\ step' # "idle")
  /\ SF_resetVars(EraseSettings /\ step' # "idle")
  /\ SF_resetVars(ErasePartition /\ step' # "idle")
  /\ WF_resetVars(ChipResets)
  /\ WF_resetVars(SyncLooks) /\ WF_resetVars(SyncWrites)

-----------------------------------------------------------------------------
(* Properties. *)

Committed == scheduled \/ step = "restart"

\* Fail closed: once the device is bound to restart on behalf of a reset, whatever
\* a store still holds was written by somebody else after this attempt, retries
\* included, had erased it; and nobody writes the fabrics back.
ResetIsComplete ==
  Committed =>
    /\ full \ {"matter"} \subseteq late
    /\ prefs # {} => "settings" \in late
    /\ step = "restart" => "matter" \notin full

\* Whatever fails or is not up yet, a user who keeps asking gets the restart.
ResetHappens == wanted ~> ~wanted

\* Nothing the owner had set before the reset is in the settings it leaves.
NoOldSettings == Committed => "old" \notin prefs

\* The network card is not left telling of a network the device has lost.
CardIsHonest ==
  (Ready /\ "thread" \notin full /\ shown # "none")
    ~> (~Ready \/ "thread" \in full \/ shown = "none")
=============================================================================
