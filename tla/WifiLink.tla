------------------------------- MODULE WifiLink -------------------------------
(***************************************************************************)
(* The Wi-Fi link of the border router (main.c): the reconnect supervisor  *)
(* (event handler, one-shot reconnect timer, periodic watchdog), the       *)
(* transactional join and leave that share s_wifi_op_lock, and the         *)
(* ESP-IDF station driver as the code uses it (marked external in the      *)
(* project map).  Four tasks interleave: the callers of join and leave (UI *)
(* worker, console), the event-loop task that runs on_wifi, the esp_timer  *)
(* task that runs both timer callbacks, and the driver.                    *)
(*                                                                         *)
(* Simplifications: a network stands for SSID and password together; the   *)
(* back-off delays are not modelled (a timer fires at some later moment);  *)
(* what is only displayed (addresses, counters, s_have_credentials) is     *)
(* left out; so are the events that only feed the border-router start.     *)
(***************************************************************************)
EXTENDS Naturals, Sequences

CONSTANTS
  Nets,            \* networks a caller may ask for
  NoNet,           \* the empty station configuration
  BuildNet,        \* CONFIG_EPSKC_WIFI_SSID, or NoNet
  Callers,         \* tasks that call app_wifi_join, app_wifi_leave, app_wifi_scan
  Free,            \* value of the lock when nobody holds it
  MaxRetries,      \* the bounded attempts of a join in flight (5 in the code)
  MaxEvents,       \* bound: events the driver may have outstanding
  ReconnectTimer,  \* esp_timer_create of the reconnect timer succeeded at boot
  Watchdog,        \* esp_timer_create of the watchdog succeeded at boot
  Prompt,          \* event handlers and timer callbacks finish before a caller,
                   \* whose task has a lower priority, takes its next step
  SilentStates     \* station states the driver may leave without an event

ASSUME WifiAssumption ==
  /\ NoNet \notin Nets
  /\ BuildNet \in Nets \cup {NoNet}
  /\ Free \notin Callers
  /\ MaxRetries \in Nat
  /\ MaxEvents \in Nat \ {0}
  /\ ReconnectTimer \in BOOLEAN /\ Watchdog \in BOOLEAN /\ Prompt \in BOOLEAN
  /\ SilentStates \subseteq {"connecting", "up"}

VARIABLES
  \* the driver
  flash,       \* station configuration persisted in NVS
  drv,         \* station configuration the driver runs with
  storage,     \* where esp_wifi_set_config writes: "flash" or "ram"
  sta,         \* station state and the network it was told to join
  evq,         \* events posted to the default event loop, not yet handled
  \* shared state of main.c
  bits,        \* s_wifi_events
  hold,        \* s_wifi_hold
  retries,     \* s_retries
  joinActive,  \* s_join_active
  supervisor,  \* s_supervisor_on
  timer,       \* s_reconnect_timer: "idle" or "armed"
  lock,        \* s_wifi_op_lock: its owner or Free
  \* program points
  evt,         \* where on_wifi is in its disconnect branch
  cb,          \* where reconnect_timer_cb is
  at,          \* where each caller is
  booted,      \* app_main has applied the compile-time credentials
  \* locals of the operation that owns the lock
  cand,        \* the network to join; NoNet in a leave
  prev,        \* snapshot of the configuration before the trial
  back,        \* where wifi_disconnect_for_config_switch returns to
  err,         \* the join is going to return an error
  proved       \* history: the candidate came up since it was staged

driverVars == <<flash, drv, storage>>
localVars == <<cand, prev, back, err, proved>>
flagVars == <<hold, joinActive, supervisor>>
vars == <<flash, drv, storage, sta, evq, bits, hold, retries, joinActive,
          supervisor, timer, lock, evt, cb, at, booted, cand, prev, back, err,
          proved>>

Configs == Nets \cup {NoNet}
Down == [st |-> "down", ap |-> NoNet]
Bits == {"connected", "fail", "disconnected"}
JoinPoints == {"snapshot", "stage", "try", "verdict", "commit", "restore", "finish"}
SwitchPoints == {"hold", "disconnect", "ack"}
Waiting == {"idle", "join_lock", "leave_lock", "scan_lock"}   \* outside the lock
Points == Waiting \cup {"erase", "scan"} \cup JoinPoints \cup SwitchPoints

TypeOK ==
  /\ flash \in Configs /\ drv \in Configs
  /\ storage \in {"flash", "ram"}
  /\ sta \in [st : {"down", "connecting", "up"}, ap : Configs]
  /\ evq \in Seq({"start", "disc", "ip"}) /\ Len(evq) <= MaxEvents
  /\ bits \subseteq Bits
  /\ hold \in BOOLEAN /\ joinActive \in BOOLEAN /\ supervisor \in BOOLEAN
  /\ retries \in 0..MaxRetries
  /\ timer \in {"idle", "armed"}
  /\ lock \in Callers \cup {Free}
  /\ evt \in {"idle", "hold", "retry", "schedule", "ack"}
  /\ cb \in {"idle", "connect"}
  /\ at \in [Callers -> Points]
  /\ booted \in BOOLEAN
  /\ cand \in Configs /\ prev \in Configs
  /\ back \in {"stage", "restore", "erase"}
  /\ err \in BOOLEAN /\ proved \in BOOLEAN

-----------------------------------------------------------------------------
(* The driver's calls. *)

\* esp_wifi_connect accepted; without effect when the station is not down.
ConnectOk(n) ==
  /\ n # NoNet
  /\ sta' = IF sta.st = "down" THEN [st |-> "connecting", ap |-> n] ELSE sta

\* esp_wifi_connect rejected: no event will follow.
ConnectRejected == UNCHANGED sta

\* esp_wifi_set_config accepted: rejected while the station is connecting, and
\* written through to NVS when the storage is flash.
SetConfig(n, mode) ==
  /\ sta.st # "connecting"
  /\ drv' = n
  /\ flash' = IF mode = "flash" THEN n ELSE flash

\* The station goes down and the driver says so.
Disconnect ==
  /\ sta.st # "down"
  /\ Len(evq) < MaxEvents
  /\ sta' = Down
  /\ evq' = Append(evq, "disc")

-----------------------------------------------------------------------------
(* Helpers of the supervisor. *)

\* cancel_reconnect.
CancelReconnect == timer' = "idle"

\* schedule_reconnect: arming the timer may fail, and is then only logged;
\* without a timer at all the attempts are bounded.
ScheduleReconnect ==
  \/ /\ ReconnectTimer
     /\ timer' \in {"armed", "idle"}
     /\ UNCHANGED <<retries, sta>>
  \/ /\ ~ReconnectTimer
     /\ retries < MaxRetries
     /\ retries' = retries + 1
     /\ ConnectOk(drv) \/ ConnectRejected
     /\ UNCHANGED timer
  \/ /\ ~ReconnectTimer
     /\ retries >= MaxRetries
     /\ UNCHANGED <<retries, sta, timer>>

\* The radio belongs to a deliberate leave or to a join in flight.
SupervisorStandsBack == ~supervisor \/ hold \/ joinActive

-----------------------------------------------------------------------------
(* Boot. *)

\* RAM starts over, the driver loads what flash holds and announces its start.
Init ==
  /\ flash \in Configs
  /\ drv = flash /\ storage = "flash"
  /\ sta = Down /\ evq = <<"start">> /\ bits = {}
  /\ hold = FALSE /\ joinActive = FALSE /\ supervisor = TRUE
  /\ retries = 0 /\ timer = "idle" /\ lock = Free
  /\ evt = "idle" /\ cb = "idle" /\ booted = FALSE
  /\ at = [c \in Callers |-> "idle"]
  /\ cand = NoNet /\ prev = NoNet /\ back = "erase"
  /\ err = FALSE /\ proved = FALSE

\* A reset, a crash or a power cut, at any moment.
Reset ==
  /\ flash' = flash
  /\ drv' = flash /\ storage' = "flash"
  /\ sta' = Down /\ evq' = <<"start">> /\ bits' = {}
  /\ hold' = FALSE /\ joinActive' = FALSE /\ supervisor' = TRUE
  /\ retries' = 0 /\ timer' = "idle" /\ lock' = Free
  /\ evt' = "idle" /\ cb' = "idle" /\ booted' = FALSE
  /\ at' = [c \in Callers |-> "idle"]
  /\ cand' = NoNet /\ prev' = NoNet /\ back' = "erase"
  /\ err' = FALSE /\ proved' = FALSE

\* app_main: compile-time credentials, only when nothing is stored.  A rejected
\* esp_wifi_set_config aborts the boot, which is a Reset.
Provision ==
  /\ ~booted
  /\ booted' = TRUE
  /\ \/ /\ BuildNet # NoNet /\ drv = NoNet
        /\ SetConfig(BuildNet, storage)
        /\ ConnectOk(BuildNet) \/ ConnectRejected
     \/ /\ BuildNet = NoNet \/ drv # NoNet
        /\ UNCHANGED <<flash, drv, sta>>
  /\ UNCHANGED <<storage, evq, bits, flagVars, retries, timer, lock, evt, cb, at,
                 localVars>>

-----------------------------------------------------------------------------
(* The driver on its own. *)

\* Association and DHCP succeed.
LinkUp ==
  /\ sta.st = "connecting"
  /\ Len(evq) < MaxEvents
  /\ sta' = [sta EXCEPT !.st = "up"]
  /\ evq' = Append(evq, "ip")
  /\ proved' = (proved \/ (cand # NoNet /\ sta.ap = cand))
  /\ UNCHANGED <<driverVars, bits, flagVars, retries, timer, lock, evt, cb, at,
                 booted, cand, prev, back, err>>

\* An attempt fails, the access point goes away, or a console `link drop`.
LinkLost ==
  /\ Disconnect
  /\ UNCHANGED <<driverVars, bits, flagVars, retries, timer, lock, evt, cb, at,
                 booted, localVars>>

\* The same, and the event is lost.
LinkSilentlyLost ==
  /\ sta.st \in SilentStates
  /\ sta' = Down
  /\ UNCHANGED <<driverVars, evq, bits, flagVars, retries, timer, lock, evt, cb,
                 at, booted, localVars>>

-----------------------------------------------------------------------------
(* The event-loop task: on_wifi. *)

\* The handler takes the next event.
TakeEvent(e) ==
  /\ evt = "idle"
  /\ Prompt => cb = "idle"
  /\ evq # <<>>
  /\ Head(evq) = e
  /\ evq' = Tail(evq)

\* WIFI_EVENT_STA_START.
HandleStart ==
  /\ TakeEvent("start")
  /\ ConnectOk(drv) \/ ConnectRejected
  /\ UNCHANGED <<driverVars, bits, flagVars, retries, timer, lock, evt, cb, at,
                 booted, localVars>>

\* WIFI_EVENT_STA_DISCONNECTED: clear the connected bit, look at the flags and
\* choose who owns the next attempt ...
HandleDisconnected ==
  /\ TakeEvent("disc")
  /\ bits' = bits \ {"connected"}
  /\ evt' = IF hold THEN "hold"
            ELSE IF joinActive \/ ~supervisor THEN "retry" ELSE "schedule"
  /\ UNCHANGED <<driverVars, sta, flagVars, retries, timer, lock, cb, at, booted,
                 localVars>>

\* ... a deliberate leave: stay down ...
HandleHold ==
  /\ evt = "hold"
  /\ CancelReconnect
  /\ evt' = "ack"
  /\ UNCHANGED <<driverVars, sta, evq, bits, flagVars, retries, lock, cb, at,
                 booted, localVars>>

\* ... a join in flight, or no supervisor: a bounded number of attempts ...
HandleRetry ==
  /\ evt = "retry"
  /\ \/ /\ retries < MaxRetries
        /\ retries' = retries + 1
        /\ ConnectOk(drv) \/ ConnectRejected
        /\ UNCHANGED bits
     \/ /\ retries >= MaxRetries
        /\ bits' = bits \cup {"fail"}
        /\ UNCHANGED <<retries, sta>>
  /\ evt' = "ack"
  /\ UNCHANGED <<driverVars, evq, flagVars, timer, lock, cb, at, booted, localVars>>

\* ... or the supervisor.
HandleSchedule ==
  /\ evt = "schedule"
  /\ ScheduleReconnect
  /\ evt' = "ack"
  /\ UNCHANGED <<driverVars, evq, bits, flagVars, lock, cb, at, booted, localVars>>

\* The acknowledgement wifi_disconnect_for_config_switch waits for comes last.
Acknowledge ==
  /\ evt = "ack"
  /\ bits' = bits \cup {"disconnected"}
  /\ evt' = "idle"
  /\ UNCHANGED <<driverVars, sta, evq, flagVars, retries, timer, lock, cb, at,
                 booted, localVars>>

\* IP_EVENT_STA_GOT_IP.
HandleGotIp ==
  /\ TakeEvent("ip")
  /\ retries' = 0
  /\ CancelReconnect
  /\ bits' = (bits \ {"fail"}) \cup {"connected"}
  /\ UNCHANGED <<driverVars, sta, flagVars, lock, evt, cb, at, booted, localVars>>

-----------------------------------------------------------------------------
(* The esp_timer task. *)

\* reconnect_timer_cb: the checks ...
TimerFires ==
  /\ cb = "idle"
  /\ timer = "armed"
  /\ timer' = "idle"
  /\ cb' = IF SupervisorStandsBack \/ "connected" \in bits THEN "idle" ELSE "connect"
  /\ UNCHANGED <<driverVars, sta, evq, bits, flagVars, retries, lock, evt, at,
                 booted, localVars>>

\* ... and the attempt they led to; a rejected call is scheduled again.
TimerConnects ==
  /\ cb = "connect"
  /\ cb' = "idle"
  /\ \/ ConnectOk(drv) /\ UNCHANGED <<timer, retries>>
     \/ ScheduleReconnect
  /\ UNCHANGED <<driverVars, evq, bits, flagVars, lock, evt, at, booted, localVars>>

\* Fault: the test for a pending attempt is inverted.
WatchdogFiresIfPending ==
  /\ Watchdog /\ cb = "idle" /\ ~SupervisorStandsBack
  /\ "connected" \notin bits /\ drv # NoNet
  /\ timer = "armed"
  /\ ScheduleReconnect
  /\ UNCHANGED <<driverVars, evq, bits, flagVars, lock, evt, cb, at, booted,
                 localVars>>

\* wifi_watchdog_cb.
WatchdogFires ==
  /\ Watchdog
  /\ cb = "idle"
  /\ ~SupervisorStandsBack
  /\ "connected" \notin bits
  /\ drv # NoNet
  /\ timer = "idle"
  /\ ScheduleReconnect
  /\ UNCHANGED <<driverVars, evq, bits, flagVars, lock, evt, cb, at, booted,
                 localVars>>

-----------------------------------------------------------------------------
(* The console's link diagnostics, which take no lock. *)

\* A caller's task runs only when the system tasks let it.
AppTurn == Prompt => evq = <<>> /\ evt = "idle" /\ cb = "idle"

\* `link supervisor on|off`: turning it on arms nothing.
LinkSupervisor ==
  /\ booted /\ AppTurn
  /\ supervisor' = ~supervisor
  /\ IF supervisor THEN CancelReconnect ELSE UNCHANGED timer
  /\ UNCHANGED <<driverVars, sta, evq, bits, hold, joinActive, retries, lock, evt,
                 cb, at, booted, localVars>>

\* `link retry`: arms the timer whatever the flags say.
LinkRetry ==
  /\ booted /\ AppTurn
  /\ ScheduleReconnect
  /\ UNCHANGED <<driverVars, evq, bits, flagVars, lock, evt, cb, at, booted,
                 localVars>>

-----------------------------------------------------------------------------
(* app_wifi_join, app_wifi_leave and app_wifi_scan. *)

Step(c, from, to) ==
  /\ AppTurn
  /\ at[c] = from
  /\ at' = [at EXCEPT ![c] = to]

\* app_main is past its Wi-Fi part and the start event was handled: the rest of
\* the boot takes seconds, and only then does a console or a user appear.
Ready == booted /\ \A i \in DOMAIN evq : evq[i] # "start"

\* The call, before it has the lock.
CallJoin(c) ==
  /\ Ready
  /\ Step(c, "idle", "join_lock")
  /\ UNCHANGED <<driverVars, sta, evq, bits, flagVars, retries, timer, lock, evt,
                 cb, booted, localVars>>

CallLeave(c) ==
  /\ Ready
  /\ Step(c, "idle", "leave_lock")
  /\ UNCHANGED <<driverVars, sta, evq, bits, flagVars, retries, timer, lock, evt,
                 cb, booted, localVars>>

CallScan(c) ==
  /\ Ready
  /\ Step(c, "idle", "scan_lock")
  /\ UNCHANGED <<driverVars, sta, evq, bits, flagVars, retries, timer, lock, evt,
                 cb, booted, localVars>>

\* A join gives up on the lock after timeout_ms; the others never do.
JoinLockTimeout(c) ==
  /\ lock # Free
  /\ Step(c, "join_lock", "idle")
  /\ UNCHANGED <<driverVars, sta, evq, bits, flagVars, retries, timer, lock, evt,
                 cb, booted, localVars>>

JoinLock(c, n) ==
  /\ Step(c, "join_lock", "snapshot")
  /\ lock = Free
  /\ lock' = c
  /\ joinActive' = TRUE
  /\ CancelReconnect
  /\ cand' = n
  /\ UNCHANGED <<driverVars, sta, evq, bits, hold, supervisor, retries, evt, cb,
                 booted, prev, back, err, proved>>

LeaveLock(c) ==
  /\ Step(c, "leave_lock", "hold")
  /\ lock = Free
  /\ lock' = c
  /\ back' = "erase"
  /\ UNCHANGED <<driverVars, sta, evq, bits, flagVars, retries, timer, evt, cb,
                 booted, cand, prev, err, proved>>

\* Storage goes to RAM and the running configuration is remembered.
Snapshot(c) ==
  /\ \/ /\ Step(c, "snapshot", "hold")
        /\ storage' = "ram"
        /\ prev' = drv
        /\ back' = "stage"
        /\ UNCHANGED err
     \/ /\ Step(c, "snapshot", "finish")    \* either call failed
        /\ storage' \in {storage, "ram"}
        /\ err' = TRUE
        /\ UNCHANGED <<prev, back>>
  /\ UNCHANGED <<flash, drv, sta, evq, bits, flagVars, retries, timer, lock, evt,
                 cb, booted, cand, proved>>

\* Fault: the station is disconnected without a hold.
SwitchWithoutHold(c) ==
  /\ Step(c, "hold", "disconnect")
  /\ bits' = bits \ {"disconnected"}
  /\ UNCHANGED <<driverVars, sta, evq, flagVars, retries, timer, lock, evt, cb,
                 booted, localVars>>

\* wifi_disconnect_for_config_switch: hold, forget older acknowledgements ...
SwitchHold(c) ==
  /\ Step(c, "hold", "disconnect")
  /\ hold' = TRUE
  /\ bits' = bits \ {"disconnected"}
  /\ UNCHANGED <<driverVars, sta, evq, joinActive, supervisor, retries, timer,
                 lock, evt, cb, booted, localVars>>

\* ... disconnect; an error means the station was down already ...
SwitchDisconnect(c) ==
  /\ \/ Step(c, "disconnect", "ack") /\ Disconnect
     \/ /\ Step(c, "disconnect", back)
        /\ sta.st = "down"
        /\ UNCHANGED <<sta, evq>>
  /\ UNCHANGED <<driverVars, bits, flagVars, retries, timer, lock, evt, cb, booted,
                 localVars>>

\* ... and wait for the handler, for 1.5 s at most.
SwitchAck(c) ==
  /\ Step(c, "ack", back)
  /\ bits' = bits \ {"disconnected"}
  /\ UNCHANGED <<driverVars, sta, evq, flagVars, retries, timer, lock, evt, cb,
                 booted, localVars>>

\* goto rollback, with an error to return.
Rollback(c, from) ==
  /\ Step(c, from, "hold")
  /\ back' = "restore"
  /\ err' = TRUE

\* The candidate becomes the driver's configuration, in RAM.
Stage(c) ==
  /\ bits' = {}
  /\ proved' = FALSE
  /\ \/ /\ Step(c, "stage", "try")
        /\ SetConfig(cand, storage)
        /\ UNCHANGED <<back, err>>
     \/ /\ Rollback(c, "stage")
        /\ UNCHANGED <<flash, drv>>
  /\ UNCHANGED <<storage, sta, evq, flagVars, retries, timer, lock, evt, cb,
                 booted, cand, prev>>

\* The hold is released and the first attempt made.
Try(c) ==
  /\ retries' = 0
  /\ hold' = FALSE
  /\ \/ /\ Step(c, "try", "verdict")
        /\ ConnectOk(drv)
        /\ UNCHANGED <<back, err>>
     \/ Rollback(c, "try") /\ ConnectRejected
  /\ UNCHANGED <<driverVars, evq, bits, joinActive, supervisor, timer, lock, evt,
                 cb, booted, cand, prev, proved>>

\* Fault: the absence of a failure is taken for a success.
VerdictNotFailed(c) ==
  /\ \/ /\ "fail" \notin bits
        /\ Step(c, "verdict", "commit")
        /\ UNCHANGED <<back, err>>
     \/ /\ "fail" \in bits
        /\ Rollback(c, "verdict")
  /\ UNCHANGED <<driverVars, sta, evq, bits, flagVars, retries, timer, lock, evt,
                 cb, booted, cand, prev, proved>>

\* xEventGroupWaitBits: connected wins over fail; the wait may time out.
Verdict(c) ==
  /\ \/ /\ "connected" \in bits
        /\ Step(c, "verdict", "commit")
        /\ UNCHANGED <<back, err>>
     \/ /\ "connected" \notin bits
        /\ Rollback(c, "verdict")
  /\ UNCHANGED <<driverVars, sta, evq, bits, flagVars, retries, timer, lock, evt,
                 cb, booted, cand, prev, proved>>

\* Fault: a failed save is logged and forgotten.
CommitIgnoringErrors(c) ==
  /\ Step(c, "commit", "finish")
  /\ \/ SetConfig(cand, "flash") /\ storage' = "flash"
     \/ storage' \in {storage, "flash"} /\ UNCHANGED <<flash, drv>>
  /\ UNCHANGED <<sta, evq, bits, flagVars, retries, timer, lock, evt, cb, booted,
                 cand, prev, back, err, proved>>

\* Proved itself: storage back to flash and the configuration set once more.
Commit(c) ==
  /\ Step(c, "commit", "finish")
  /\ \/ SetConfig(cand, "flash") /\ storage' = "flash" /\ UNCHANGED err
     \/ storage' \in {storage, "flash"} /\ err' = TRUE /\ UNCHANGED <<flash, drv>>
  /\ UNCHANGED <<sta, evq, bits, flagVars, retries, timer, lock, evt, cb, booted,
                 cand, prev, back, proved>>

\* Fault: the rollback writes through to flash.
RestoreToFlash(c) ==
  /\ Step(c, "restore", "finish")
  /\ SetConfig(prev, "flash")
  /\ retries' = 0
  /\ bits' = bits \ {"connected", "fail"}
  /\ hold' = (prev = NoNet)
  /\ ConnectOk(prev) \/ ConnectRejected
  /\ UNCHANGED <<storage, evq, joinActive, supervisor, timer, lock, evt, cb,
                 booted, localVars>>

\* Rollback: the previous configuration, or none, goes back into the driver.
Restore(c) ==
  /\ Step(c, "restore", "finish")
  /\ \/ /\ SetConfig(prev, storage)
        /\ retries' = 0
        /\ bits' = bits \ {"connected", "fail"}
        /\ hold' = (prev = NoNet)
        /\ ConnectOk(prev) \/ ConnectRejected
     \/ /\ hold' = TRUE                     \* the candidate is still in the driver
        /\ UNCHANGED <<flash, drv, retries, bits, sta>>
  /\ UNCHANGED <<storage, evq, joinActive, supervisor, timer, lock, evt, cb,
                 booted, localVars>>

Release ==
  /\ lock' = Free
  /\ cand' = NoNet /\ prev' = NoNet /\ back' = "erase"
  /\ err' = FALSE /\ proved' = FALSE

\* Fault: an exit that forgets to give the lock back.
FinishLocked(c) ==
  /\ Step(c, "finish", "idle")
  /\ storage' \in {"flash", storage}
  /\ joinActive' = FALSE
  /\ cand' = NoNet /\ prev' = NoNet /\ back' = "erase"
  /\ err' = FALSE /\ proved' = FALSE
  /\ UNCHANGED <<flash, drv, sta, evq, bits, hold, supervisor, retries, timer, lock,
                 evt, cb, booted>>

\* Every exit of a join restores flash storage and gives the radio back.
Finish(c) ==
  /\ Step(c, "finish", "idle")
  /\ storage' \in {"flash", storage}
  /\ joinActive' = FALSE
  /\ Release
  /\ UNCHANGED <<flash, drv, sta, evq, bits, hold, supervisor, retries, timer, evt,
                 cb, booted>>

\* app_wifi_leave: erase what flash holds; a failure leaves it there.
Erase(c) ==
  /\ Step(c, "erase", "idle")
  /\ \/ SetConfig(NoNet, "flash") /\ storage' = "flash"
     \/ storage' \in {storage, "flash"} /\ UNCHANGED <<flash, drv>>
  /\ CancelReconnect
  /\ Release
  /\ UNCHANGED <<sta, evq, bits, flagVars, retries, evt, cb, booted>>

\* app_wifi_scan holds the lock while the driver scans, and every exit of it
\* gives the lock back; the driver's result list is not modelled.
ScanLock(c) ==
  /\ Step(c, "scan_lock", "scan")
  /\ lock = Free
  /\ lock' = c
  /\ UNCHANGED <<driverVars, sta, evq, bits, flagVars, retries, timer, evt, cb,
                 booted, localVars>>

Scan(c) ==
  /\ Step(c, "scan", "idle")
  /\ Release
  /\ UNCHANGED <<driverVars, sta, evq, bits, flagVars, retries, timer, evt, cb, booted>>

-----------------------------------------------------------------------------
(* The specification. *)

Driver == LinkUp \/ LinkLost \/ LinkSilentlyLost

EventTask ==
  \/ HandleStart \/ HandleDisconnected \/ HandleGotIp
  \/ HandleHold \/ HandleRetry \/ HandleSchedule \/ Acknowledge

TimerTask == TimerFires \/ TimerConnects \/ WatchdogFires

Console == LinkSupervisor \/ LinkRetry

Calls(c) == CallJoin(c) \/ CallLeave(c) \/ CallScan(c)

\* One step of an operation under way.
Operation(c) ==
  \/ JoinLockTimeout(c) \/ (\E n \in Nets : JoinLock(c, n)) \/ LeaveLock(c)
  \/ Snapshot(c) \/ SwitchHold(c) \/ SwitchDisconnect(c) \/ SwitchAck(c)
  \/ Stage(c) \/ Try(c) \/ Verdict(c) \/ Commit(c) \/ Restore(c)
  \/ Finish(c) \/ Erase(c) \/ ScanLock(c) \/ Scan(c)

Next ==
  \/ Reset \/ Provision
  \/ Driver \/ EventTask \/ TimerTask \/ Console
  \/ \E c \in Callers : Calls(c) \/ Operation(c)

Spec == Init /\ [][Next]_vars

(***************************************************************************)
(* Fairness: FreeRTOS runs every ready task, so handlers and callbacks go  *)
(* on, and so do operations under way, even when a flapping link keeps     *)
(* preempting them; an armed timer fires, and re-arming it from            *)
(* the console cannot put that off for ever; the watchdog is periodic and  *)
(* does not fail to arm the timer every time.  The other strong conditions *)
(* are about the world: the driver does not reject every attempt, and an   *)
(* access point that is tried for ever answers some day.  Resets, calls    *)
(* and console commands are never forced.                                  *)
(***************************************************************************)
TimerAccepted == TimerConnects /\ sta'.st # "down"
WatchdogArms == WatchdogFires /\ (ReconnectTimer => timer' = "armed")

Fairness ==
  /\ WF_vars(EventTask)
  /\ SF_vars(TimerFires) /\ WF_vars(TimerConnects)
  /\ SF_vars(TimerAccepted)
  /\ WF_vars(WatchdogArms)
  /\ SF_vars(LinkUp)
  /\ WF_vars(Provision)
  /\ \A c \in Callers : SF_vars(Operation(c))

FairSpec == Spec /\ Fairness

-----------------------------------------------------------------------------
(* Properties. *)

Owner(c) == at[c] \notin Waiting

\* s_wifi_op_lock serialises join, leave and scan: at most one caller is between
\* taking the lock and giving it back, and it is the recorded owner.
OneOperation == \A c \in Callers : Owner(c) <=> lock = c

\* While a candidate is on trial the driver's storage is RAM, so that no
\* esp_wifi_set_config of the trial or of its rollback can reach flash.
TrialInRam ==
  \A c \in Callers :
    \/ at[c] \in {"stage", "try", "verdict", "commit", "restore"}
    \/ at[c] \in SwitchPoints /\ back # "erase"
    => storage = "ram"

\* app_wifi_join returns ESP_OK only when flash and the driver both hold the
\* network it was asked for: nothing between the verdict and the return, in
\* whatever task, takes that away.
OkMeansSaved ==
  \A c \in Callers :
    at[c] = "finish" /\ ~err => flash = cand /\ drv = cand /\ storage = "flash"

\* Why they hold: the locals of the owner tell joins from leaves, and nobody
\* but the owner and the boot touches the driver's configuration.
LocalsOfOwner ==
  /\ lock = Free => cand = NoNet /\ ~err
  /\ \A c \in Callers :
       /\ at[c] \in JoinPoints => cand \in Nets
       /\ at[c] \in SwitchPoints => (cand = NoNet <=> back = "erase")
       /\ at[c] \in {"erase", "scan"} => cand = NoNet
       /\ at[c] = "restore" => err
       /\ at[c] \in SwitchPoints /\ back = "restore" => err
       /\ at[c] \in {"try", "verdict", "commit"} => drv = cand

BeforeBoot ==
  ~booted =>
    /\ \A c \in Callers : at[c] = "idle"
    /\ drv = flash /\ storage = "flash"

IInv ==
  /\ TypeOK
  /\ OneOperation
  /\ TrialInRam
  /\ OkMeansSaved
  /\ LocalsOfOwner
  /\ BeforeBoot

\* After app_main applied its credentials, flash changes in two ways only: a
\* leave empties it, or a join stores a candidate that the station reached
\* during this very trial.
CommitOnlyProven ==
  [][booted => \/ flash' = flash
               \/ flash' = NoNet /\ cand = NoNet
               \/ flash' = cand /\ proved]_vars

\* No handler, timer or console command connects a station behind an operation's
\* back.  A hold that outlives its operation (a deliberate leave, a failed erase, a
\* failed or first-time rollback) keeps the station down until the next one; and
\* during a trial a station that is not down is trying the candidate, never the
\* network that was there before.
SupervisorStaysAway ==
  /\ hold /\ lock = Free => sta.st = "down"
  /\ \A c \in Callers :
       at[c] \in {"verdict", "commit"} /\ sta.st # "down" => sta.ap = cand

\* With credentials, no hold and the supervisor on, a link that is down comes
\* up again by itself (unless a new operation, a reset or `link supervisor
\* off` intervenes): the ladder never gives up.
LinkRecovers ==
  (booted /\ lock = Free /\ supervisor /\ ~hold /\ drv # NoNet /\ sta.st = "down")
    ~> (sta.st = "up" \/ lock # Free \/ ~supervisor \/ ~booted)

\* Every operation that was called returns, and gives the lock back.
OperationsReturn == \A c \in Callers : at[c] # "idle" ~> at[c] = "idle"

\* The credential store the firmware promises, with the trial running from
\* the moment the join owns the lock to the commit or the end of the rollback.
InTrial == lock # Free /\ at[lock] # "finish"
Store == INSTANCE CredentialStore WITH
  stored <- flash,
  trial  <- IF InTrial THEN cand ELSE NoNet,
  passed <- lock # Free /\ at[lock] = "commit"

StoreSpec == Store!Spec
==============================================================================
