----------------------------- MODULE RestControl -----------------------------
(***************************************************************************)
(* The life of the REST server of otbr_rest.c.  Three switches -- the      *)
(* server itself, the ba-epskc routes, the /logs route -- are turned by    *)
(* the console and the touch screen, and the Wi-Fi event handler asks for  *)
(* a start whenever an address arrives.  All of them only post a message:  *)
(* one control task starts and stops the server, and it in turn posts      *)
(* changes of the route table to the server's own task.                    *)
(*                                                                         *)
(* A switch is a message first and a setting second (request_control, then *)
(* settings_get()->... = on), and starts read the settings; between the    *)
(* two a task may be preempted, and raced tells whether somebody came in.  *)
(*                                                                         *)
(* External: httpd_start, httpd_stop (returns once the server task has     *)
(* worked off what was queued before), httpd_queue_work (a FIFO).          *)
(***************************************************************************)
EXTENDS Naturals, Sequences, FiniteSets

CONSTANTS
  Users,        \* tasks that turn switches: console, touch screen
  Depth,        \* slots of s_control_queue
  MaxRequests,  \* bound: switches turned
  MaxEvents     \* bound: addresses that arrive

ASSUME RestAssumption ==
  Depth \in Nat \ {0} /\ MaxRequests \in Nat /\ MaxEvents \in Nat

VARIABLES
  task,        \* the control task: "none" before it is created, "failed"
  queue,       \* s_control_queue
  control,     \* what the control task is doing
  settings,    \* settings_get(): rest_api, rest_epskc, rest_logs
  user,        \* per user: the switch whose setting is still to be saved
  event,       \* the GOT_IP handler has read rest_api = TRUE
  server,      \* s_server # NULL
  registered,  \* route_set_t.registered
  routes,      \* external: the routes the server answers
  serving,     \* the server task is inside a handler
  work,        \* httpd work queue: route changes
  feature,     \* otBorderAgentEphemeralKeySetEnabled
  requests, events,   \* bounds
  last,        \* history: per switch, the last request accepted
  raced,       \* history: a switch was used between its request and its setting
  failed       \* history: a start, registration or posting did not succeed

serverVars == <<server, registered, routes, serving, work>>
requestVars == <<settings, user, event, requests, events>>
vars == <<task, queue, control, serverVars, requestVars, feature, failed, last, raced>>

RouteSets == {"epskc", "logs"}
Switches == {"api"} \cup RouteSets
Message == [switch : Switches, on : BOOLEAN]
Change == [set : RouteSets, on : BOOLEAN]
None == [switch |-> "api", on |-> TRUE, step |-> "none"]
Idle == control = None
Busy(m) == [switch |-> m.switch, on |-> m.on, step |-> "do"]

TypeOK ==
  /\ task \in {"none", "alive", "failed"}
  /\ queue \in Seq(Message) /\ Len(queue) <= Depth
  /\ control \in [switch : Switches, on : BOOLEAN, step : {"none", "do", "epskc", "logs"}]
  /\ settings \in [Switches -> BOOLEAN]
  /\ user \in [Users -> {None} \cup [switch : Switches, on : BOOLEAN, step : {"do"}]]
  /\ event \in BOOLEAN
  /\ server \in BOOLEAN /\ serving \in BOOLEAN
  /\ registered \in [RouteSets -> BOOLEAN] /\ routes \in SUBSET RouteSets
  /\ work \in Seq(Change)
  /\ feature \in BOOLEAN /\ failed \in BOOLEAN /\ raced \in BOOLEAN
  /\ last \in [Switches -> {"none", "on", "off"}]
  /\ requests \in 0..MaxRequests /\ events \in 0..MaxEvents

NoRoutes == [s \in RouteSets |-> FALSE]

Init ==
  /\ task = "none" /\ queue = <<>> /\ control = None
  /\ settings \in [Switches -> BOOLEAN]
  /\ user = [u \in Users |-> None] /\ event = FALSE
  /\ server = FALSE /\ registered = NoRoutes /\ routes = {} /\ serving = FALSE
  /\ work = <<>>
  /\ feature = settings["epskc"] /\ failed = FALSE /\ raced = FALSE
  /\ last = [s \in Switches |-> "none"]
  /\ requests = 0 /\ events = 0

-----------------------------------------------------------------------------
(* Requests. *)

\* Somebody has posted a request for the switch and not saved its setting.
Pending(switch) == \E u \in Users : user[u] # None /\ user[u].switch = switch
Uses(switch) == raced' = (raced \/ Pending(switch))

\* request_control.
Accepts == task # "failed" /\ Len(queue) < Depth
Post(m) ==
  /\ Accepts
  /\ queue' = Append(queue, m)
  /\ last' = [last EXCEPT ![m.switch] = IF m.on THEN "on" ELSE "off"]

\* The start a new address calls for.
StartMessage == [switch |-> "api", on |-> TRUE]
PostStart ==
  \/ Post(StartMessage) /\ UNCHANGED failed
  \/ ~Accepts /\ failed' = TRUE /\ UNCHANGED <<queue, last>>

\* on_rest_api, on_rest_epskc, on_rest_logs, cmd_rest: the request ...
Request(u, m) ==
  /\ user[u] = None /\ requests < MaxRequests
  /\ requests' = requests + 1
  /\ Post(m)
  /\ user' = [user EXCEPT ![u] = Busy(m)]
  /\ raced' = (raced \/ Pending(m.switch) \/ (event /\ m.switch = "api"))
  /\ UNCHANGED <<task, control, settings, event, events, serverVars, feature, failed>>

\* ... and the setting; a request that was refused leaves both as they are.
SaveSetting(u) ==
  /\ user[u] # None
  /\ settings' = [settings EXCEPT ![user[u].switch] = user[u].on]
  /\ user' = [user EXCEPT ![u] = None]
  /\ UNCHANGED <<task, queue, control, event, requests, events, serverVars, feature, failed, last, raced>>

\* on_wifi, GOT_IP: the setting is read, then the start is requested.
GotIp ==
  /\ ~event /\ events < MaxEvents
  /\ settings["api"]
  /\ events' = events + 1 /\ event' = TRUE
  /\ Uses("api")
  /\ UNCHANGED <<task, queue, control, settings, user, requests, serverVars, feature, failed, last>>

GotIpPosts ==
  /\ event /\ event' = FALSE
  /\ PostStart
  /\ UNCHANGED <<task, control, settings, user, requests, events, serverVars, feature, raced>>

-----------------------------------------------------------------------------
(* The control task. *)

\* otbr_rest_control_start, at the end of app_main.
ControlStart ==
  /\ task = "none"
  /\ \/ task' = "alive" /\ UNCHANGED <<queue, failed>>
     \/ task' = "failed" /\ queue' = <<>> /\ failed' = TRUE
  /\ UNCHANGED <<control, serverVars, requestVars, feature, last, raced>>

\* Fault: the message is looked at and stays where it is.
TakePeeks ==
  /\ task = "alive" /\ Idle /\ queue # <<>>
  /\ control' = Busy(Head(queue))
  /\ UNCHANGED <<task, queue, serverVars, requestVars, feature, failed, last, raced>>

\* rest_control_task: the next message.
Take ==
  /\ task = "alive" /\ Idle /\ queue # <<>>
  /\ control' = Busy(Head(queue)) /\ queue' = Tail(queue)
  /\ UNCHANGED <<task, serverVars, requestVars, feature, failed, last, raced>>

Doing(switch, on) ==
  control.step = "do" /\ control.switch = switch /\ control.on = on

Goes(step) == control' = [control EXCEPT !.step = step]

\* otbr_rest_start: nothing to do, or httpd_start and the fixed routes ...
Start ==
  /\ Doing("api", TRUE)
  /\ \/ server /\ control' = None /\ UNCHANGED <<server, registered, failed>>
     \/ /\ ~server /\ server' = TRUE /\ Goes("epskc")
        /\ UNCHANGED <<registered, failed>>
     \/ /\ ~server /\ failed' = TRUE /\ control' = None
        /\ UNCHANGED server
        /\ registered' \in {registered, NoRoutes}
  /\ UNCHANGED <<task, queue, routes, serving, work, requestVars, feature, last, raced>>

\* queue_routes: dropped without a server, else posted to its task.
QueueRoutes(set, on) ==
  \/ ~server /\ UNCHANGED <<work, failed>>
  \/ server /\ work' = Append(work, [set |-> set, on |-> on]) /\ UNCHANGED failed
  \/ server /\ failed' = TRUE /\ UNCHANGED work

\* ... then the switchable ones, as the settings say now.
StartEpskc ==
  /\ control.step = "epskc"
  /\ QueueRoutes("epskc", settings["epskc"])
  /\ Goes("logs") /\ Uses("epskc")
  /\ UNCHANGED <<task, queue, server, registered, routes, serving, requestVars, feature, last>>

\* Fault: a start serves the logs whatever their setting.
StartLogsAlways ==
  /\ control.step = "logs"
  /\ QueueRoutes("logs", TRUE)
  /\ control' = None /\ Uses("logs")
  /\ UNCHANGED <<task, queue, server, registered, routes, serving, requestVars, feature, last>>

\* The same for the log route.
StartLogs ==
  /\ control.step = "logs"
  /\ QueueRoutes("logs", settings["logs"])
  /\ control' = None /\ Uses("logs")
  /\ UNCHANGED <<task, queue, server, registered, routes, serving, requestVars, feature, last>>

\* Fault: the flags outlive the server they describe.
StopKeepsFlags ==
  /\ Doing("api", FALSE)
  /\ \/ ~server /\ UNCHANGED <<server, routes>>
     \/ /\ server /\ ~serving /\ work = <<>>
        /\ server' = FALSE /\ routes' = {}
  /\ control' = None
  /\ UNCHANGED <<task, queue, registered, serving, work, requestVars, feature, failed, last, raced>>

\* otbr_rest_stop: waits for the handler in flight and the queued changes.
Stop ==
  /\ Doing("api", FALSE)
  /\ \/ ~server /\ UNCHANGED <<server, registered, routes>>
     \/ /\ server /\ ~serving /\ work = <<>>
        /\ server' = FALSE /\ routes' = {} /\ registered' = NoRoutes
  /\ control' = None
  /\ UNCHANGED <<task, queue, serving, work, requestVars, feature, failed, last, raced>>

\* REST_CONTROL_EPSKC and REST_CONTROL_LOGS.
SwitchRoutes ==
  /\ \E set \in RouteSets, on \in BOOLEAN :
       /\ Doing(set, on)
       /\ feature' = IF set = "epskc" THEN on ELSE feature
       /\ QueueRoutes(set, on)
  /\ control' = None
  /\ UNCHANGED <<task, queue, server, registered, routes, serving, requestVars, last, raced>>

-----------------------------------------------------------------------------
(* The server task. *)

HandlerStarts ==
  /\ server /\ ~serving /\ serving' = TRUE
  /\ UNCHANGED <<task, queue, control, server, registered, routes, work, requestVars,
                 feature, failed, last, raced>>

HandlerEnds ==
  /\ serving /\ serving' = FALSE
  /\ UNCHANGED <<task, queue, control, server, registered, routes, work, requestVars,
                 feature, failed, last, raced>>

\* apply_routes: already so, done, or -- one registration failed -- none at all.
ApplyRoutes ==
  /\ ~serving /\ work # <<>> /\ work' = Tail(work)
  /\ LET c == Head(work) IN
     \/ /\ c.on = registered[c.set]
        /\ UNCHANGED <<registered, routes, failed>>
     \/ /\ c.on # registered[c.set]
        /\ registered' = [registered EXCEPT ![c.set] = c.on]
        /\ routes' = IF c.on THEN routes \cup {c.set} ELSE routes \ {c.set}
        /\ UNCHANGED failed
     \/ /\ c.on /\ ~registered[c.set]
        /\ routes' = routes \ {c.set} /\ failed' = TRUE
        /\ UNCHANGED registered
  /\ UNCHANGED <<task, queue, control, server, serving, requestVars, feature, last, raced>>

-----------------------------------------------------------------------------
(* The specification. *)

Control == Take \/ Start \/ StartEpskc \/ StartLogs \/ Stop \/ SwitchRoutes

Next ==
  \/ \E u \in Users, m \in Message : Request(u, m)
  \/ \E u \in Users : SaveSetting(u)
  \/ GotIp \/ GotIpPosts
  \/ ControlStart \/ Control
  \/ HandlerStarts \/ HandlerEnds \/ ApplyRoutes

Spec == Init /\ [][Next]_vars

\* The control task and the server task are scheduled; a handler returns, and
\* between two requests the server task looks at its work queue.
FairSpec ==
  /\ Spec
  /\ WF_vars(Control)
  /\ WF_vars(HandlerEnds)
  /\ SF_vars(ApplyRoutes) /\ SF_vars(Stop)
-----------------------------------------------------------------------------
(* Properties. *)

\* Nothing is on its way any more.
Settled ==
  /\ task = "alive" /\ queue = <<>> /\ Idle /\ work = <<>>
  /\ ~event /\ \A u \in Users : user[u] = None

\* route_set_t.registered is set by one task and reset by another, across stops
\* and restarts of the server: it must say what the running server answers, or a
\* later change of the switch is taken for done.
FlagsTellTruth == \A s \in RouteSets : registered[s] <=> s \in routes

\* Unless something failed, or a task came in between a request and its setting,
\* once all is quiet the server, its optional routes and the key feature of the
\* stack are as the settings say -- also when these were changed while the server
\* was down or starting, and whatever starts an arriving address has asked for.
\* However requesters are preempted, the last request accepted on a switch counts.
SettingsRule ==
  Settled /\ ~failed =>
    /\ last["api"] # "none" => server = (last["api"] = "on")
    /\ last["epskc"] # "none" => feature = (last["epskc"] = "on")
    /\ ~raced =>
         /\ server => settings["api"] /\ routes = {s \in RouteSets : settings[s]}
         /\ settings["api"] /\ events > 0 => server
         /\ feature = settings["epskc"]

\* The control task waits for handlers and handlers keep coming: still every
\* request that was accepted is handled.
RequestsHandled == (task = "alive" /\ queue # <<>>) ~> (queue = <<>> /\ Idle)
=============================================================================
