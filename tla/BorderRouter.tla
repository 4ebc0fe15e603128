---------------------------- MODULE BorderRouter ----------------------------
(***************************************************************************)
(* How the border router of thread.c comes up and under which name it is   *)
(* published.  It needs two things that arrive in either order: the Thread *)
(* stack (thread_init, from app_main) and a backbone address (a Wi-Fi      *)
(* event).  Whoever sees either one asks for a start: as a job of the UI   *)
(* worker or, when its queue is full or there is no screen, as a task of   *)
(* its own.  A start is claimed first, so that it runs once.               *)
(*                                                                         *)
(* Names are numbered in the order they are saved; 0 is the one found at   *)
(* boot.  Steps that hold the OpenThread lock are one action each.         *)
(***************************************************************************)
EXTENDS Naturals, Sequences

CONSTANTS
  Depth,      \* slots of the worker's queue left for these jobs; 0: no worker
  Renamers,   \* tasks that rename the device: console, touch screen
  MaxEvents,  \* bound: backbone address events
  MaxName     \* bound: names

ASSUME BorderRouterAssumption == Depth \in Nat /\ MaxEvents \in Nat /\ MaxName \in Nat

VARIABLES
  main,        \* how far app_main has come
  adopted,     \* s_ready: thread_init has adopted the stack
  backbone,    \* WIFI_BACKBONE_READY_BIT
  event,       \* the Wi-Fi event handler
  events,      \* bound
  jobs,        \* s_jobs: JOB_BR_START and JOB_RENAME
  starting,    \* s_br_starting
  started,     \* s_br_started
  starter,     \* per task that may run a start: how far it has come
  rename,      \* JOB_RENAME on the worker: its name and step
  renamer,     \* per renamer: the name it has saved and not yet asked to apply
  saved,       \* the name in settings
  buffer,      \* s_border_router_name
  instance,    \* the MeshCoP instance name set in the stack
  callback,    \* whose ephemeral-key callback the stack has
  claimed,     \* s_share_cb_set
  keyOn,       \* external: an ephemeral key is active
  notify,      \* external: the stack still has to call back about the key
  advertised,  \* s_meshcop_e_published
  record,      \* external: the _meshcop-e record of the mDNS responder
  promised,    \* history: the name the last rename reported as applied
  failed       \* history: a start did not succeed

bootVars == <<main, adopted, backbone, event, events>>
startVars == <<starting, started, starter, failed>>
nameVars == <<rename, renamer, saved, buffer, instance, promised>>
keyVars == <<callback, claimed, keyOn, notify, advertised, record>>
routerVars == <<bootVars, jobs, startVars, nameVars, keyVars>>

Tasks == {"worker", "own"}
Names == 0..MaxName
NoName == MaxName + 1
Bare == MaxName + 2       \* the library's record, without TXT data
BrStart == NoName         \* JOB_BR_START in the queue; a name there is its JOB_RENAME

RouterTypeOK ==
  /\ main \in {"init", "keys", "check", "defer", "fallback", "done"}
  /\ adopted \in BOOLEAN /\ backbone \in BOOLEAN
  /\ event \in {"idle", "defer", "fallback"} /\ events \in 0..MaxEvents
  /\ jobs \in Seq(Names \cup {BrStart}) /\ Len(jobs) <= Depth
  /\ starting \in BOOLEAN /\ started \in BOOLEAN /\ failed \in BOOLEAN
  /\ starter \in [Tasks -> {"none", "claimed", "named", "set", "up", "failed"}]
  /\ rename \in [name : Names \cup {NoName}, step : {"write", "apply"}]
  /\ renamer \in [Renamers -> Names \cup {NoName}]
  /\ saved \in Names /\ buffer \in Names \cup {NoName}
  /\ instance \in Names \cup {NoName} /\ promised \in Names \cup {NoName}
  /\ callback \in {"none", "library", "own"} /\ claimed \in BOOLEAN
  /\ keyOn \in BOOLEAN /\ notify \in BOOLEAN /\ advertised \in BOOLEAN
  /\ record \in Names \cup {NoName, Bare}

NoRename == [name |-> NoName, step |-> "write"]

RouterInit ==
  /\ main = "init" /\ adopted = FALSE /\ backbone = FALSE
  /\ event = "idle" /\ events = 0
  /\ jobs = <<>>
  /\ starting = FALSE /\ started = FALSE /\ starter = [t \in Tasks |-> "none"]
  /\ failed = FALSE
  /\ rename = NoRename /\ renamer = [r \in Renamers |-> NoName]
  /\ saved = 0 /\ buffer = NoName /\ instance = NoName /\ promised = NoName
  /\ callback = "none" /\ claimed = FALSE /\ keyOn = FALSE /\ notify = FALSE /\ advertised = FALSE
  /\ record = NoName

-----------------------------------------------------------------------------
(* Asking for a start. *)

\* ui_defer_br_start.
HasRoom == Len(jobs) < Depth
Queue(j) == HasRoom /\ jobs' = Append(jobs, j)

\* claim_border_router_start, for task t.
Claim(t) ==
  /\ ~started /\ ~starting
  /\ starting' = TRUE
  /\ starter' = [starter EXCEPT ![t] = "claimed"]

\* thread_start_border_router: a task of its own, which may fail to start.
StartTask ==
  \/ adopted /\ Claim("own") /\ UNCHANGED failed
  \/ adopted /\ ~started /\ ~starting /\ failed' = TRUE /\ UNCHANGED <<starting, starter>>
  \/ (~adopted \/ started \/ starting) /\ UNCHANGED <<starting, starter, failed>>

\* Fault: the start is requested before the bit is set.
GotIpSetsLate ==
  \/ /\ event = "idle" /\ events < MaxEvents
     /\ events' = events + 1
     /\ \/ Queue(BrStart) /\ event' = "defer"
        \/ ~HasRoom /\ event' = "fallback" /\ UNCHANGED jobs
     /\ UNCHANGED <<main, adopted, backbone, startVars, nameVars, keyVars>>
  \/ /\ event = "defer"
     /\ backbone' = TRUE
     /\ event' = "idle"
     /\ UNCHANGED <<main, adopted, events, jobs, startVars, nameVars, keyVars>>

\* on_wifi, GOT_IP and GOT_IP6: the bit, then the request.
GotIp ==
  /\ event = "idle" /\ events < MaxEvents
  /\ backbone' = TRUE
  /\ event' = "defer" /\ events' = events + 1
  /\ UNCHANGED <<main, adopted, jobs, startVars, nameVars, keyVars>>

EventDefers ==
  /\ event = "defer"
  /\ \/ Queue(BrStart) /\ event' = "idle"
     \/ ~HasRoom /\ event' = "fallback" /\ UNCHANGED jobs
  /\ UNCHANGED <<main, adopted, backbone, events, startVars, nameVars, keyVars>>

EventFallsBack ==
  /\ event = "fallback"
  /\ StartTask
  /\ event' = "idle"
  /\ UNCHANGED <<main, adopted, backbone, events, jobs, started, nameVars, keyVars>>

\* app_main: thread_init, which may time out ...
AdoptStack ==
  /\ main = "init" /\ main' = "keys"
  /\ adopted' \in BOOLEAN
  /\ UNCHANGED <<backbone, event, events, jobs, startVars, nameVars, keyVars>>

\* ... thread_epskc_set_feature_enabled, for one setting or the other ...
EnableKeys ==
  /\ main = "keys" /\ main' = "check"
  /\ \/ adopted /\ ~claimed /\ claimed' = TRUE /\ callback' = "own"
     \/ UNCHANGED <<claimed, callback>>
  /\ UNCHANGED <<adopted, backbone, event, events, jobs, startVars, nameVars,
                 keyOn, notify, advertised, record>>

\* ... then one more request if the address came first.
CheckBackbone ==
  /\ main = "check"
  /\ main' = IF backbone THEN "defer" ELSE "done"
  /\ UNCHANGED <<adopted, backbone, event, events, jobs, startVars, nameVars, keyVars>>

MainDefers ==
  /\ main = "defer"
  /\ \/ Queue(BrStart) /\ main' = "done"
     \/ ~HasRoom /\ main' = "fallback" /\ UNCHANGED jobs
  /\ UNCHANGED <<adopted, backbone, event, events, startVars, nameVars, keyVars>>

MainFallsBack ==
  /\ main = "fallback"
  /\ StartTask
  /\ main' = "done"
  /\ UNCHANGED <<adopted, backbone, event, events, jobs, started, nameVars, keyVars>>

-----------------------------------------------------------------------------
(* Running a start. *)

WorkerFree == starter["worker"] = "none" /\ rename = NoRename

\* thread_run_border_router_start, from the worker: skipped, or claimed.
WorkerTakesStart ==
  /\ WorkerFree /\ jobs # <<>> /\ Head(jobs) = BrStart
  /\ jobs' = Tail(jobs)
  /\ \/ adopted /\ Claim("worker")
     \/ (~adopted \/ started \/ starting) /\ UNCHANGED <<starting, starter>>
  /\ UNCHANGED <<bootVars, started, failed, nameVars, keyVars>>

Passes(t, from, to) == starter[t] = from /\ starter' = [starter EXCEPT ![t] = to]

\* run_border_router_start_claimed: the saved name ...
ReadName(t) ==
  /\ Passes(t, "claimed", "named")
  /\ buffer' = saved
  /\ UNCHANGED <<bootVars, jobs, starting, started, failed, rename, renamer, saved,
                 instance, promised, keyVars>>

\* ... becomes the instance name ...
SetInstanceName(t) ==
  /\ \/ Passes(t, "named", "set") /\ instance' = buffer
     \/ Passes(t, "named", "failed") /\ UNCHANGED instance
  /\ UNCHANGED <<bootVars, jobs, starting, started, failed, rename, renamer, saved,
                 buffer, promised, keyVars>>

\* Fault: a callback that was set once is not set again.
InitRouterKeepsCallback(t) ==
  /\ \/ Passes(t, "set", "up") /\ callback' = "library"
     \/ Passes(t, "set", "failed") /\ callback' \in {callback, "library"}
  /\ UNCHANGED claimed
  /\ UNCHANGED <<bootVars, jobs, starting, started, failed, nameVars,
                 keyOn, notify, advertised, record>>

\* ... then border_router_init, which installs the library's callback, and ours.
InitRouter(t) ==
  /\ \/ Passes(t, "set", "up") /\ callback' = "own" /\ claimed' = TRUE
     \/ Passes(t, "set", "failed") /\ callback' \in {callback, "library"} /\ UNCHANGED claimed
  /\ UNCHANGED <<bootVars, jobs, starting, started, failed, nameVars,
                 keyOn, notify, advertised, record>>

\* finish_border_router_start.
Finish(t) ==
  /\ starter[t] \in {"up", "failed"}
  /\ starter' = [starter EXCEPT ![t] = "none"]
  /\ started' = (starter[t] = "up") /\ starting' = FALSE
  /\ failed' = (failed \/ starter[t] = "failed")
  /\ UNCHANGED <<bootVars, jobs, nameVars, keyVars>>

-----------------------------------------------------------------------------
(* The ephemeral-key record. *)

\* share_state_cb, given the names and the record there is.
ShareState(pub, rec, on, name) ==
  IF on /\ ~pub
  THEN \/ record' = name /\ advertised' = TRUE
       \/ record' = rec /\ advertised' = FALSE      \* mdns_service_add failed
  ELSE IF ~on /\ pub
  THEN record' = NoName /\ advertised' = FALSE
  ELSE record' = rec /\ advertised' = pub

\* thread_share_start_on, or the key is stopped, used, or expires; the stack
\* calls back later, from its own task.
KeyStarts ==
  /\ started /\ ~keyOn
  /\ keyOn' = TRUE /\ notify' = TRUE
  /\ claimed' = TRUE /\ callback' = IF claimed THEN callback ELSE "own"
  /\ UNCHANGED <<bootVars, jobs, startVars, nameVars, advertised, record>>

KeyEnds ==
  /\ keyOn /\ keyOn' = FALSE /\ notify' = TRUE
  /\ UNCHANGED <<bootVars, jobs, startVars, nameVars, callback, claimed, advertised, record>>

KeyCallback ==
  /\ notify /\ notify' = FALSE
  /\ \/ callback = "own" /\ ShareState(advertised, record, keyOn, instance)
     \/ /\ callback = "library"
        /\ record' = IF keyOn THEN Bare ELSE NoName
        /\ UNCHANGED advertised
     \/ callback = "none" /\ UNCHANGED <<advertised, record>>
  /\ UNCHANGED <<bootVars, jobs, startVars, nameVars, callback, claimed, keyOn>>

-----------------------------------------------------------------------------
(* Renaming. *)

\* cmd_name or on_name_kb: save the name ...
SaveName(r) ==
  /\ renamer[r] = NoName /\ saved < MaxName
  /\ saved' = saved + 1
  /\ renamer' = [renamer EXCEPT ![r] = saved']
  /\ UNCHANGED <<bootVars, jobs, startVars, rename, buffer, instance, promised, keyVars>>

\* ... and have the worker apply it, or leave it to the next boot.
AskRename(r) ==
  /\ renamer[r] # NoName
  /\ \/ Queue(renamer[r])
     \/ ~HasRoom /\ UNCHANGED jobs
  /\ renamer' = [renamer EXCEPT ![r] = NoName]
  /\ UNCHANGED <<bootVars, startVars, rename, saved, buffer, instance, promised, keyVars>>

WorkerTakesRename ==
  /\ WorkerFree /\ jobs # <<>> /\ Head(jobs) # BrStart
  /\ rename' = [name |-> Head(jobs), step |-> "write"]
  /\ jobs' = Tail(jobs)
  /\ UNCHANGED <<bootVars, startVars, renamer, saved, buffer, instance, promised, keyVars>>

\* thread_set_border_router_name: the buffer ...
WriteBuffer ==
  /\ rename # NoRename /\ rename.step = "write"
  /\ buffer' = rename.name
  /\ rename' = [rename EXCEPT !.step = "apply"]
  /\ UNCHANGED <<bootVars, jobs, startVars, renamer, saved, instance, promised, keyVars>>

\* What the success a rename reports is worth: a start in a task of its own may
\* have read the name before, and then the next boot is the first to use it.
Promise == IF starter["own"] = "none" THEN rename.name ELSE NoName

\* Fault: the records are renewed and the name in the stack is not.
ApplyRecordOnly ==
  /\ rename.step = "apply"
  /\ rename' = NoRename /\ promised' = Promise
  /\ \/ ~(adopted /\ started) /\ UNCHANGED <<advertised, record>>
     \/ adopted /\ started /\ ShareState(FALSE, IF advertised THEN NoName ELSE record, keyOn, instance)
  /\ UNCHANGED <<bootVars, jobs, startVars, renamer, saved, buffer, instance, callback,
                 claimed, keyOn, notify>>

\* ... then, unless a start will use it, the records.
ApplyName ==
  /\ rename.step = "apply"
  /\ rename' = NoRename /\ promised' = Promise
  /\ \/ /\ ~(adopted /\ started)
        /\ UNCHANGED <<instance, advertised, record>>
     \/ /\ adopted /\ started
        /\ instance' = buffer
        /\ ShareState(FALSE, IF advertised THEN NoName ELSE record, keyOn, instance')
  /\ UNCHANGED <<bootVars, jobs, startVars, renamer, saved, buffer, callback, claimed, keyOn,
                 notify>>

-----------------------------------------------------------------------------
(* The specification. *)

Boot == AdoptStack \/ EnableKeys \/ CheckBackbone \/ MainDefers \/ MainFallsBack
Event == GotIp \/ EventDefers \/ EventFallsBack
Start(t) == ReadName(t) \/ SetInstanceName(t) \/ InitRouter(t) \/ Finish(t)
Rename == WorkerTakesRename \/ WriteBuffer \/ ApplyName

RouterNext ==
  \/ Boot \/ Event \/ WorkerTakesStart \/ Rename
  \/ \E t \in Tasks : Start(t)
  \/ \E r \in Renamers : SaveName(r) \/ AskRename(r)
  \/ KeyStarts \/ KeyEnds \/ KeyCallback

RouterSpec == RouterInit /\ [][RouterNext]_routerVars

-----------------------------------------------------------------------------
(* Properties. *)

\* Two requests never bring the border router up side by side or once more
\* after it is up, and a claim is never left behind.
OneStart ==
  /\ \A t, u \in Tasks : starter[t] # "none" /\ starter[u] # "none" => t = u
  /\ starting <=> \E t \in Tasks : starter[t] # "none"
  /\ ~(started /\ starting)

\* Nobody is left who could still ask for a start.
NothingPending ==
  /\ main = "done" /\ event = "idle" /\ jobs = <<>> /\ ~starting

\* The stack and the address may become ready in either order, from different
\* tasks, and the first request may come too early: unless a start failed, the
\* router is up once both are there and every request has been handled.
NoLostStart == adopted /\ backbone /\ NothingPending /\ ~failed => started

\* Whichever task asks first, the border router is started, and once.
StartsExactlyOnce == OneStart /\ NoLostStart

\* Once the stack has called back, the ephemeral-key record is there only while
\* a key is active, is the one with our TXT data, and carries the name of the
\* device, however starts, renames and keys interleave.
RecordFollowsKey ==
  ~notify => record \in {NoName} \cup IF keyOn THEN {instance} ELSE {}

\* A rename that reported success is in effect, or a later saved name is, unless
\* it overtook a start in a task of its own.
NameInEffect ==
  started /\ promised # NoName /\ rename = NoRename => instance \in promised..saved
=============================================================================
