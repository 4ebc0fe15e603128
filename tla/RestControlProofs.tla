-------------------------- MODULE RestControlProofs --------------------------
(***************************************************************************)
(* For any users, queue depth and bounds: the route flags of otbr_rest.c,  *)
(* set by the server's task and reset by the control task, say what the    *)
(* server answers; and once all is quiet the last request on every switch  *)
(* has taken effect.                                                       *)
(***************************************************************************)
EXTENDS RestControl, TLAPS

\* httpd_stop returns when the server's task has worked off what was posted, and
\* nothing is posted to a server that is not there.
NothingWithoutServer == ~server => work = <<>> /\ routes = {} /\ registered = NoRoutes

RestInv == TypeOK /\ FlagsTellTruth /\ NothingWithoutServer

-----------------------------------------------------------------------------

\* The state by owner: the requesters, the control task, the server's task.
TypeOfRequests ==
  /\ settings \in [Switches -> BOOLEAN]
  /\ user \in [Users -> {None} \cup [switch : Switches, on : BOOLEAN, step : {"do"}]]
  /\ requests \in 0..MaxRequests /\ events \in 0..MaxEvents
  /\ last \in [Switches -> {"none", "on", "off"}]

TypeOfControl ==
  /\ task \in {"none", "alive", "failed"}
  /\ queue \in Seq(Message) /\ Len(queue) <= Depth
  /\ control \in [switch : Switches, on : BOOLEAN, step : {"none", "do", "epskc", "logs"}]

TypeOfServer ==
  /\ registered \in [RouteSets -> BOOLEAN] /\ routes \in SUBSET RouteSets
  /\ work \in Seq(Change)

TypeOfFlags ==
  /\ event \in BOOLEAN /\ server \in BOOLEAN /\ serving \in BOOLEAN
  /\ feature \in BOOLEAN /\ failed \in BOOLEAN /\ raced \in BOOLEAN

LEMMA TypeParts ==
  /\ TypeOK <=> TypeOfRequests /\ TypeOfControl /\ TypeOfServer /\ TypeOfFlags
  /\ TypeOK' <=> TypeOfRequests' /\ TypeOfControl' /\ TypeOfServer' /\ TypeOfFlags'
<1>1. TypeOK <=> TypeOfRequests /\ TypeOfControl /\ TypeOfServer /\ TypeOfFlags
  BY Zenon DEF TypeOK, TypeOfRequests, TypeOfControl, TypeOfServer, TypeOfFlags
<1>2. TypeOK' <=> TypeOfRequests' /\ TypeOfControl' /\ TypeOfServer' /\ TypeOfFlags'
  BY Zenon DEF TypeOK, TypeOfRequests, TypeOfControl, TypeOfServer, TypeOfFlags
<1>. QED
  BY <1>1, <1>2

\* A request is a message of a switch; what a user still has to save is its own.
LEMMA RequestsTyped == ASSUME TypeOfRequests, [Next]_vars PROVE TypeOfRequests'
<1>. USE RestAssumption DEF TypeOfRequests
<1>1. ASSUME NEW m \in Message, Post(m)
      PROVE last' \in [Switches -> {"none", "on", "off"}]
  BY <1>1 DEF Post, Message
<1>2. ASSUME NEW u \in Users, NEW m \in Message, Request(u, m) PROVE TypeOfRequests'
  <2>1. last' \in [Switches -> {"none", "on", "off"}]
    BY <1>1, <1>2 DEF Request
  <2>2. Busy(m) \in [switch : Switches, on : BOOLEAN, step : {"do"}]
    BY DEF Busy, Message
  <2>3. user' \in [Users -> {None} \cup [switch : Switches, on : BOOLEAN, step : {"do"}]]
    BY <1>2, <2>2 DEF Request
  <2>4. requests' \in 0..MaxRequests /\ UNCHANGED <<settings, events>>
    BY <1>2 DEF Request
  <2>. QED
    BY <2>1, <2>3, <2>4
<1>3. ASSUME NEW u \in Users, SaveSetting(u) PROVE TypeOfRequests'
  <2>1. user[u].switch \in Switches /\ user[u].on \in BOOLEAN
    BY <1>3 DEF SaveSetting
  <2>2. settings' \in [Switches -> BOOLEAN]
    BY <1>3, <2>1 DEF SaveSetting
  <2>3. user' \in [Users -> {None} \cup [switch : Switches, on : BOOLEAN, step : {"do"}]]
    BY <1>3 DEF SaveSetting
  <2>4. UNCHANGED <<requests, events, last>>
    BY <1>3 DEF SaveSetting
  <2>. QED
    BY <2>2, <2>3, <2>4
<1>4. CASE GotIp
  BY <1>4 DEF GotIp
<1>5. CASE GotIpPosts
  <2>1. StartMessage \in Message
    BY DEF StartMessage, Message, Switches
  <2>2. last' \in [Switches -> {"none", "on", "off"}]
    BY <1>1, <1>5, <2>1 DEF GotIpPosts, PostStart
  <2>3. UNCHANGED <<settings, user, requests, events>>
    BY <1>5 DEF GotIpPosts
  <2>. QED
    BY <2>2, <2>3
<1>6. CASE UNCHANGED <<settings, user, requests, events, last>>
  BY <1>6
<1>. QED
  BY <1>2, <1>3, <1>4, <1>5, <1>6, Zenon
  DEF Next, requestVars, vars, ControlStart, Control, Take, Start, StartEpskc, StartLogs, Stop,
      SwitchRoutes, HandlerStarts, HandlerEnds, ApplyRoutes

\* Messages come off the queue as they were posted, and never more than its slots.
LEMMA ControlTyped == ASSUME TypeOfControl, [Next]_vars PROVE TypeOfControl'
<1>. USE RestAssumption DEF TypeOfControl
<1>1. ASSUME NEW m \in Message, Post(m), UNCHANGED <<task, control>> PROVE TypeOfControl'
  BY <1>1 DEF Post, Accepts
<1>2. ASSUME NEW u \in Users, NEW m \in Message, Request(u, m) PROVE TypeOfControl'
  BY <1>1, <1>2, Zenon DEF Request
<1>3. CASE GotIpPosts
  <2>1. StartMessage \in Message
    BY DEF StartMessage, Message, Switches
  <2>. QED
    BY <1>1, <1>3, <2>1 DEF GotIpPosts, PostStart
<1>4. CASE ControlStart
  <2>1. task' \in {"none", "alive", "failed"} /\ UNCHANGED control
    BY <1>4, Zenon DEF ControlStart
  <2>2. CASE UNCHANGED queue
    BY <2>1, <2>2
  <2>3. CASE queue' = <<>>
    BY <2>1, <2>3
  <2>. QED
    BY <1>4, <2>2, <2>3, Zenon DEF ControlStart
<1>5. CASE Take
  <2>1. Head(queue) \in Message /\ Tail(queue) \in Seq(Message) /\ Len(Tail(queue)) <= Depth
    BY <1>5 DEF Take
  <2>2. Busy(Head(queue)) \in [switch : Switches, on : BOOLEAN, step : {"none", "do", "epskc", "logs"}]
    BY <2>1 DEF Busy, Message
  <2>. QED
    BY <1>5, <2>1, <2>2 DEF Take
<1>6. ASSUME UNCHANGED <<task, queue>>, control' = None \/ Goes("epskc") \/ Goes("logs")
      PROVE TypeOfControl'
  <2>1. CASE control' = None
    BY <1>6, <2>1 DEF None, Switches
  <2>2. CASE Goes("epskc") \/ Goes("logs")
    BY <1>6, <2>2 DEF Goes
  <2>. QED
    BY <1>6, <2>1, <2>2, Zenon
<1>7. CASE Start \/ StartEpskc \/ StartLogs \/ Stop \/ SwitchRoutes
  BY <1>6, <1>7, Zenon DEF Start, StartEpskc, StartLogs, Stop, SwitchRoutes
<1>8. CASE UNCHANGED <<task, queue, control>>
  BY <1>8
<1>. QED
  BY <1>2, <1>3, <1>4, <1>5, <1>7, <1>8, Zenon
  DEF Next, vars, SaveSetting, GotIp, Control, HandlerStarts, HandlerEnds, ApplyRoutes

\* Steps keep the flags flags.
LEMMA FlagsTyped == ASSUME TypeOK, [Next]_vars PROVE TypeOfFlags'
<1>. USE DEF TypeOfFlags, serverVars, requestVars
<1>0. TypeOfFlags /\ TypeOfRequests
  BY TypeParts, Zenon
<1>. USE <1>0
<1>1. ASSUME NEW u \in Users, NEW m \in Message, Request(u, m) PROVE TypeOfFlags'
  BY <1>1, Zenon DEF Request
<1>2. ASSUME NEW u \in Users, SaveSetting(u) PROVE TypeOfFlags'
  BY <1>2, Zenon DEF SaveSetting
<1>3. CASE GotIp \/ GotIpPosts
  BY <1>3, Zenon DEF GotIp, GotIpPosts, PostStart, Uses
<1>4. CASE ControlStart \/ Take \/ Start \/ StartEpskc \/ StartLogs \/ Stop
  BY <1>4, Zenon DEF ControlStart, Take, Start, StartEpskc, StartLogs, Stop, QueueRoutes, Uses
<1>5. CASE SwitchRoutes
  <2>1. PICK set \in RouteSets, on \in BOOLEAN :
          feature' = (IF set = "epskc" THEN on ELSE feature) /\ QueueRoutes(set, on)
    BY <1>5, Zenon DEF SwitchRoutes
  <2>2. feature' \in BOOLEAN
    BY <2>1, Zenon
  <2>. QED
    BY <1>5, <2>1, <2>2, Zenon DEF SwitchRoutes, QueueRoutes
<1>6. CASE HandlerStarts \/ HandlerEnds \/ ApplyRoutes
  BY <1>6, Zenon DEF HandlerStarts, HandlerEnds, ApplyRoutes
<1>7. CASE UNCHANGED vars
  BY <1>7, Zenon DEF vars
<1>. QED
  BY <1>1, <1>2, <1>3, <1>4, <1>5, <1>6, <1>7, Zenon DEF Next, Control

-----------------------------------------------------------------------------

\* What the flags have to do with: the state of the server's task.
ServerInv == TypeOfServer /\ FlagsTellTruth /\ NothingWithoutServer

\* A change of the routes is posted to the server there is.
LEMMA QueueStep ==
  ASSUME ServerInv, NEW set \in RouteSets, NEW on \in BOOLEAN, QueueRoutes(set, on),
         UNCHANGED <<server, registered, routes>>
  PROVE  ServerInv'
<1>1. [set |-> set, on |-> on] \in Change
  BY DEF Change
<1>2. work' \in Seq(Change)
  BY <1>1, SMTT(30) DEF QueueRoutes, ServerInv, TypeOfServer
<1>3. server \/ UNCHANGED work
  BY Zenon DEF QueueRoutes
<1>. QED
  BY <1>2, <1>3 DEF ServerInv, TypeOfServer, FlagsTellTruth, NothingWithoutServer

\* The server's task changes the routes and their flag together.
LEMMA ApplyStep == ASSUME ServerInv, ApplyRoutes PROVE ServerInv'
<1>. USE DEF ServerInv, TypeOfServer
<1>. DEFINE c == Head(work)
<1>1. c.set \in RouteSets /\ c.on \in BOOLEAN /\ work' \in Seq(Change)
  <2>1. work # <<>> /\ work' = Tail(work)
    BY Zenon DEF ApplyRoutes
  <2>2. c \in Change /\ work' \in Seq(Change)
    BY <2>1
  <2>. QED
    BY <2>2 DEF Change
<1>2. server /\ UNCHANGED server
  BY Zenon DEF ApplyRoutes, NothingWithoutServer
<1>3. NothingWithoutServer'
  BY <1>2, Zenon DEF NothingWithoutServer
<1>4. CASE UNCHANGED <<registered, routes>>
  BY <1>1, <1>3, <1>4 DEF FlagsTellTruth
<1>5. CASE /\ registered' = [registered EXCEPT ![c.set] = c.on]
           /\ routes' = IF c.on THEN routes \cup {c.set} ELSE routes \ {c.set}
  <2>1. CASE c.on
    BY <1>1, <1>3, <1>5, <2>1 DEF FlagsTellTruth
  <2>2. CASE ~c.on
    BY <1>1, <1>3, <1>5, <2>2 DEF FlagsTellTruth
  <2>. QED
    BY <2>1, <2>2
<1>6. CASE ~registered[c.set] /\ routes' = routes \ {c.set} /\ UNCHANGED registered
  BY <1>1, <1>3, <1>6 DEF FlagsTellTruth
<1>. QED
  BY <1>4, <1>5, <1>6, Zenon DEF ApplyRoutes

\* A server that is gone answers nothing, and the flags know.
LEMMA ServerStep == TypeOK /\ ServerInv /\ [Next]_vars => ServerInv'
<1>. SUFFICES ASSUME TypeOK, ServerInv, [Next]_vars PROVE ServerInv'
  OBVIOUS
<1>1. CASE UNCHANGED serverVars
  BY <1>1 DEF ServerInv, TypeOfServer, FlagsTellTruth, NothingWithoutServer, serverVars
<1>2. settings["epskc"] \in BOOLEAN /\ settings["logs"] \in BOOLEAN
  BY DEF TypeOK, Switches, RouteSets
<1>3. CASE Start
  <2>1. CASE UNCHANGED <<server, registered>>
    BY <1>3, <2>1 DEF Start, ServerInv, TypeOfServer, FlagsTellTruth, NothingWithoutServer
  <2>2. CASE ~server /\ server' /\ UNCHANGED registered
    BY <1>3, <2>2 DEF Start, ServerInv, TypeOfServer, FlagsTellTruth, NothingWithoutServer
  <2>3. CASE ~server /\ UNCHANGED server /\ registered' \in {registered, NoRoutes}
    BY <1>3, <2>3 DEF Start, ServerInv, TypeOfServer, FlagsTellTruth, NothingWithoutServer
  <2>. QED
    BY <1>3, <2>1, <2>2, <2>3, Zenon DEF Start
<1>4. CASE StartEpskc
  BY <1>2, <1>4, QueueStep DEF StartEpskc, RouteSets
<1>5. CASE StartLogs
  BY <1>2, <1>5, QueueStep DEF StartLogs, RouteSets
<1>6. CASE Stop
  <2>1. CASE UNCHANGED <<server, registered, routes>>
    BY <1>1, <1>6, <2>1 DEF Stop, serverVars
  <2>2. CASE work = <<>> /\ routes' = {} /\ registered' = NoRoutes
    BY <1>6, <2>2
    DEF Stop, ServerInv, TypeOfServer, FlagsTellTruth, NothingWithoutServer, NoRoutes
  <2>. QED
    BY <1>6, <2>1, <2>2, Zenon DEF Stop
<1>7. CASE SwitchRoutes
  <2>1. PICK set \in RouteSets, on \in BOOLEAN : QueueRoutes(set, on)
    BY <1>7, Zenon DEF SwitchRoutes
  <2>. QED
    BY <1>7, <2>1, QueueStep DEF SwitchRoutes
<1>8. CASE HandlerStarts \/ HandlerEnds
  BY <1>8 DEF HandlerStarts, HandlerEnds, ServerInv, TypeOfServer, FlagsTellTruth,
              NothingWithoutServer
<1>9. CASE ApplyRoutes
  BY <1>9, ApplyStep
<1>. QED
  BY <1>1, <1>3, <1>4, <1>5, <1>6, <1>7, <1>8, <1>9, Zenon
  DEF Next, vars, Request, SaveSetting, GotIp, GotIpPosts, ControlStart, Control, Take

\* The invariant holds from power-on.
LEMMA RestInvAlways == Spec => []RestInv
<1>1. Init => RestInv
  <2>. SUFFICES ASSUME Init PROVE RestInv
    OBVIOUS
  <2>1. TypeOfServer
    BY DEF Init, TypeOfServer, NoRoutes
  <2>2. TypeOfRequests
    BY RestAssumption DEF Init, TypeOfRequests
  <2>3. TypeOfControl
    BY RestAssumption DEF Init, TypeOfControl, None, Switches
  <2>4. settings["epskc"] \in BOOLEAN
    BY DEF Init, Switches, RouteSets
  <2>5. TypeOfFlags
    BY <2>4, Zenon DEF Init, TypeOfFlags
  <2>6. FlagsTellTruth /\ NothingWithoutServer
    BY DEF Init, FlagsTellTruth, NothingWithoutServer, NoRoutes
  <2>. QED
    BY <2>1, <2>2, <2>3, <2>5, <2>6, TypeParts, Zenon DEF RestInv
<1>2. RestInv /\ [Next]_vars => RestInv'
  <2>. SUFFICES ASSUME RestInv, [Next]_vars PROVE RestInv'
    OBVIOUS
  <2>1. TypeOK /\ ServerInv
    BY TypeParts, Zenon DEF RestInv, ServerInv
  <2>2. ServerInv'
    BY <2>1, ServerStep, Zenon
  <2>3. TypeOfRequests' /\ TypeOfControl' /\ TypeOfFlags'
    BY <2>1, TypeParts, RequestsTyped, ControlTyped, FlagsTyped, Zenon
  <2>. QED
    BY <2>2, <2>3, TypeParts, Zenon DEF RestInv, ServerInv
<1>. QED
  BY <1>1, <1>2, PTL DEF Spec

-----------------------------------------------------------------------------

\* Every reachable state of the REST server control is well typed; the control queue
\* in particular never holds more than its slots.
THEOREM RestTyped == Spec => []TypeOK
<1>1. RestInv => TypeOK
  BY DEF RestInv
<1>. QED
  BY <1>1, RestInvAlways, PTL

\* route_set_t.registered, set by apply_routes on the server's task and reset by
\* otbr_rest_stop and a failed start on the control task, always says what the
\* server answers: no later change of a switch is wrongly taken for done.
THEOREM RouteFlagsTellTruth == Spec => []FlagsTellTruth
<1>1. RestInv => FlagsTellTruth
  BY DEF RestInv
<1>. QED
  BY <1>1, RestInvAlways, PTL
-----------------------------------------------------------------------------
(* What the last request on a switch says, on its way to where it takes effect. *)

OnOff(b) == IF b THEN "on" ELSE "off"

\* Messages and route changes of one switch, and those that turn it on or off.
Of(switch) == {m \in Message : m.switch = switch}
Saying(v) == {m \in Message : OnOff(m.on) = v}
ChangeOf(s) == {c \in Change : c.set = s}
ChangeSaying(v) == {c \in Change : OnOff(c.on) = v}

Holds(q, S) == \E i \in DOMAIN q : q[i] \in S
\* The last of q's elements that are in S is in T.
Ends(q, S, T) ==
  \A i \in DOMAIN q : q[i] \in S /\ (\A j \in DOMAIN q : q[j] \in S => j <= i) => q[i] \in T

At(switch) == control.step = "do" /\ control.switch = switch
OnItsWay(switch) == Holds(queue, Of(switch)) \/ At(switch)

\* What a switch is to be when all is quiet: as last asked for, or as saved before.
Target(switch) == IF last[switch] # "none" THEN last[switch] ELSE OnOff(settings[switch])

\* A start still has to post the routes of s.
Owed(s) == control.step = "epskc" \/ control.step = s

\* Requesters: a setting that is still to be saved was asked for, and is what was asked last.
UserInv ==
  /\ \A u \in Users : user[u] # None => last[user[u].switch] # "none"
  /\ events > 0 /\ ~failed => event \/ last["api"] # "none"
  /\ ~raced =>
       /\ \A u \in Users : user[u] # None => OnOff(user[u].on) = last[user[u].switch]
       /\ \A s \in Switches : ~Pending(s) /\ last[s] # "none" => OnOff(settings[s]) = last[s]
       /\ event => ~Pending("api") /\ settings["api"]

\* Messages wait for the control task.
NotBefore == task # "alive" => Idle

\* The queue and the control task: the last message of a switch is its last request.
MessageInv ==
  \A s \in Switches :
    /\ OnItsWay(s) => last[s] # "none"
    /\ Ends(queue, Of(s), Saying(last[s]))
    /\ At(s) /\ ~Holds(queue, Of(s)) => OnOff(control.on) = last[s]

\* The server and the stack's key feature follow once no message is on its way.
ServerFollows ==
  ~failed /\ ~OnItsWay("api") =>
    IF last["api"] = "none" THEN ~server ELSE OnOff(server) = last["api"]
FeatureFollows == ~failed /\ ~OnItsWay("epskc") => OnOff(feature) = Target("epskc")

\* The last change posted to the server's task for a route set is the one that counts,
\* and without one the routes are as they have to be.
RouteInv ==
  \A s \in RouteSets :
    ~failed /\ ~raced /\ server /\ ~OnItsWay(s) /\ ~Owed(s) =>
      /\ Ends(work, ChangeOf(s), ChangeSaying(Target(s)))
      /\ ~Holds(work, ChangeOf(s)) => OnOff(registered[s]) = Target(s)

LEMMA AppendEnds ==
  ASSUME NEW X, NEW q \in Seq(X), NEW m \in X, NEW S, NEW T
  PROVE  /\ Holds(Append(q, m), S) <=> Holds(q, S) \/ m \in S
         /\ m \in S => (Ends(Append(q, m), S, T) <=> m \in T)
         /\ m \notin S => (Ends(Append(q, m), S, T) <=> Ends(q, S, T))
<1>. DEFINE r == Append(q, m)
            n == Len(q)
<1>1. /\ n \in Nat /\ DOMAIN q = 1..n /\ DOMAIN r = 1..(n + 1)
      /\ \A i \in 1..n : r[i] = q[i]
      /\ r[n + 1] = m
  OBVIOUS
<1>. HIDE DEF r, n
<1>2. Holds(r, S) <=> Holds(q, S) \/ m \in S
  <2>1. \A i \in DOMAIN r : i \in DOMAIN q \/ i = n + 1
    BY <1>1
  <2>2. \A i \in DOMAIN q : i \in DOMAIN r
    BY <1>1
  <2>3. n + 1 \in DOMAIN r
    BY <1>1
  <2>. QED
    BY <1>1, <2>1, <2>2, <2>3 DEF Holds
<1>3. CASE m \in S
  <2>1. \A i \in DOMAIN r : (r[i] \in S /\ \A j \in DOMAIN r : r[j] \in S => j <= i) <=> i = n + 1
    <3>1. ASSUME NEW i \in DOMAIN r, \A j \in DOMAIN r : r[j] \in S => j <= i PROVE i = n + 1
      BY <1>1, <1>3, <3>1
    <3>2. \A j \in DOMAIN r : j <= n + 1
      BY <1>1
    <3>. QED
      BY <1>1, <1>3, <3>1, <3>2
  <2>. QED
    BY <1>1, <1>2, <1>3, <2>1 DEF Ends, r
<1>4. CASE m \notin S
  <2>1. \A i \in DOMAIN r : r[i] \in S => i \in DOMAIN q
    BY <1>1, <1>4
  <2>2. \A i \in DOMAIN q : i \in DOMAIN r /\ r[i] = q[i]
    BY <1>1
  <2>. QED
    BY <1>2, <1>4, <2>1, <2>2 DEF Ends, r
<1>. QED
  BY <1>3, <1>4

LEMMA TailEnds ==
  ASSUME NEW X, NEW q \in Seq(X), q # <<>>, NEW S, NEW T
  PROVE  /\ Holds(q, S) <=> Head(q) \in S \/ Holds(Tail(q), S)
         /\ Ends(q, S, T) => Ends(Tail(q), S, T)
         /\ Ends(q, S, T) /\ Head(q) \in S /\ ~Holds(Tail(q), S) => Head(q) \in T
<1>. DEFINE r == Tail(q)
            n == Len(q)
<1>1. /\ n \in Nat /\ n >= 1 /\ DOMAIN q = 1..n /\ DOMAIN r = 1..(n - 1)
      /\ \A i \in 1..(n - 1) : r[i] = q[i + 1]
      /\ Head(q) = q[1]
  OBVIOUS
<1>. HIDE DEF r, n
<1>2. \A i \in DOMAIN q : i = 1 \/ (i - 1 \in DOMAIN r /\ r[i - 1] = q[i])
  BY <1>1
<1>3. \A i \in DOMAIN r : i + 1 \in DOMAIN q /\ q[i + 1] = r[i]
  BY <1>1
<1>4. 1 \in DOMAIN q /\ DOMAIN q \subseteq Nat /\ DOMAIN r \subseteq Nat
  BY <1>1
<1>5. Holds(q, S) <=> Head(q) \in S \/ Holds(r, S)
  BY <1>1, <1>2, <1>3, <1>4 DEF Holds
<1>6. ASSUME Ends(q, S, T), NEW i \in DOMAIN r, r[i] \in S,
             \A j \in DOMAIN r : r[j] \in S => j <= i
      PROVE  r[i] \in T
  <2>1. q[i + 1] \in S /\ i + 1 \in DOMAIN q
    BY <1>3, <1>6
  <2>2. ASSUME NEW j \in DOMAIN q, q[j] \in S PROVE j <= i + 1
    <3>1. CASE j = 1
      BY <1>4, <3>1
    <3>2. CASE j # 1
      <4>1. j - 1 \in DOMAIN r /\ r[j - 1] = q[j]
        BY <1>2, <2>2, <3>2
      <4>2. r[j - 1] \in S
        BY <2>2, <4>1
      <4>3. j - 1 <= i
        BY <1>6, <4>1, <4>2
      <4>. QED
        BY <1>4, <4>3
    <3>. QED
      BY <3>1, <3>2
  <2>. QED
    BY <1>3, <1>6, <2>1, <2>2 DEF Ends
<1>7. ASSUME Ends(q, S, T), Head(q) \in S, ~Holds(r, S) PROVE Head(q) \in T
  <2>1. \A j \in DOMAIN q : q[j] \in S => j = 1
    BY <1>2, <1>7 DEF Holds
  <2>2. \A j \in DOMAIN q : q[j] \in S => j <= 1
    BY <2>1
  <2>. QED
    BY <1>1, <1>4, <1>7, <2>2 DEF Ends
<1>. QED
  BY <1>5, <1>6, <1>7 DEF Ends, r

\* A message that is posted is the last request on its switch.
LEMMA LastPosted ==
  ASSUME TypeOK, NEW m \in Message, Post(m)
  PROVE  /\ m.switch \in Switches /\ m.on \in BOOLEAN
         /\ last'[m.switch] = OnOff(m.on) /\ OnOff(m.on) # "none"
         /\ \A s \in Switches : s # m.switch => last'[s] = last[s]
         /\ \A s \in Switches : last[s] # "none" => last'[s] # "none"
<1>1. m.switch \in Switches /\ m.on \in BOOLEAN
  BY DEF Message
<1>2. last \in [Switches -> {"none", "on", "off"}]
  BY DEF TypeOK
<1>3. last' = [last EXCEPT ![m.switch] = OnOff(m.on)]
  BY DEF Post, OnOff
<1>4. OnOff(m.on) # "none"
  BY DEF OnOff
<1>. QED
  BY <1>1, <1>2, <1>3, <1>4

LEMMA QueuePosted ==
  ASSUME TypeOK, NEW m \in Message, Post(m), NEW s \in Switches
  PROVE  /\ Holds(queue', Of(s)) <=> Holds(queue, Of(s)) \/ m.switch = s
         /\ Ends(queue, Of(s), Saying(last[s])) => Ends(queue', Of(s), Saying(last'[s]))
<1>1. queue \in Seq(Message) /\ queue' = Append(queue, m)
  BY DEF TypeOK, Post
<1>2. m \in Of(s) <=> m.switch = s
  BY DEF Of
<1>3. m.switch = s => m \in Saying(last'[s])
  BY LastPosted DEF Saying
<1>4. m.switch # s => last'[s] = last[s]
  BY LastPosted
<1>. QED
  BY <1>1, <1>2, <1>3, <1>4, AppendEnds

\* Taking a message hands it to the control task.
LEMMA QueueTaken ==
  ASSUME TypeOK, Take, NEW s \in Switches
  PROVE  /\ ~At(s) /\ (At(s)' <=> Head(queue) \in Of(s))
         /\ OnItsWay(s)' <=> OnItsWay(s)
         /\ control'.on = Head(queue).on /\ Head(queue) \in Message
         /\ Ends(queue, Of(s), Saying(last[s])) =>
              /\ Ends(queue', Of(s), Saying(last[s]))
              /\ Head(queue) \in Of(s) /\ ~Holds(queue', Of(s)) =>
                   OnOff(Head(queue).on) = last[s]
<1>1. queue \in Seq(Message) /\ queue # <<>> /\ queue' = Tail(queue) /\ Head(queue) \in Message
  BY DEF TypeOK, Take
<1>2. ~At(s)
  BY DEF Take, Idle, None, At
<1>3. control' = [switch |-> Head(queue).switch, on |-> Head(queue).on, step |-> "do"]
  BY DEF Take, Busy
<1>4. At(s)' <=> Head(queue) \in Of(s)
  BY <1>1, <1>3 DEF At, Of
<1>5. Head(queue) \in Saying(last[s]) => OnOff(Head(queue).on) = last[s]
  BY DEF Saying
<1>6. /\ Holds(queue, Of(s)) <=> Head(queue) \in Of(s) \/ Holds(queue', Of(s))
      /\ Ends(queue, Of(s), Saying(last[s])) =>
              /\ Ends(queue', Of(s), Saying(last[s]))
              /\ Head(queue) \in Of(s) /\ ~Holds(queue', Of(s)) => Head(queue) \in Saying(last[s])
  BY <1>1, TailEnds
<1>. QED
  BY <1>1, <1>2, <1>3, <1>4, <1>5, <1>6 DEF OnItsWay

\* Every step, by what it does with messages.
LEMMA MessageKinds ==
  ASSUME TypeOK, [Next]_vars
  PROVE  \/ \E m \in Message : Post(m) /\ UNCHANGED control
         \/ Take
         \/ /\ control' = None \/ Goes("epskc") \/ Goes("logs")
            /\ UNCHANGED <<queue, last>>
         \/ queue' = <<>> /\ failed' /\ task = "none" /\ UNCHANGED <<control, last>>
         \/ UNCHANGED <<queue, control, last>>
<1>1. StartMessage \in Message
  BY DEF StartMessage, Message, Switches
<1>2. ASSUME NEW u \in Users, NEW m \in Message, Request(u, m) PROVE Post(m) /\ UNCHANGED control
  BY <1>2, Zenon DEF Request
<1>3. CASE GotIpPosts
  BY <1>1, <1>3, Zenon DEF GotIpPosts, PostStart
<1>4. CASE ControlStart
  BY <1>4, Zenon DEF ControlStart
<1>5. CASE Start \/ StartEpskc \/ StartLogs \/ Stop \/ SwitchRoutes
  BY <1>5, Zenon DEF Start, StartEpskc, StartLogs, Stop, SwitchRoutes
<1>6. ASSUME NEW u \in Users, SaveSetting(u) PROVE UNCHANGED <<queue, control, last>>
  BY <1>6, Zenon DEF SaveSetting
<1>7. CASE GotIp \/ HandlerStarts \/ HandlerEnds \/ ApplyRoutes \/ UNCHANGED vars
  BY <1>7, Zenon DEF GotIp, HandlerStarts, HandlerEnds, ApplyRoutes, vars
<1>. QED
  BY <1>2, <1>3, <1>4, <1>5, <1>6, <1>7, Zenon DEF Next, Control

LEMMA NotBeforeStep == ASSUME TypeOK, NotBefore, [Next]_vars PROVE NotBefore'
<1>1. CASE Take
  BY <1>1 DEF Take, NotBefore
<1>2. CASE Start \/ StartEpskc \/ StartLogs \/ Stop \/ SwitchRoutes
  <2>1. ~Idle /\ UNCHANGED task
    BY <1>2 DEF Start, StartEpskc, StartLogs, Stop, SwitchRoutes, Doing, Idle, None
  <2>. QED
    BY <2>1 DEF NotBefore
<1>3. CASE ControlStart
  BY <1>3 DEF ControlStart, NotBefore, Idle
<1>4. CASE UNCHANGED <<task, control>>
  BY <1>4 DEF NotBefore, Idle
<1>. QED
  BY <1>1, <1>2, <1>3, <1>4, Zenon
  DEF Next, Control, Request, SaveSetting, GotIp, GotIpPosts, HandlerStarts, HandlerEnds,
      ApplyRoutes, vars

LEMMA MessageStep == ASSUME TypeOK, NotBefore, MessageInv, [Next]_vars PROVE MessageInv'
<1>1. ASSUME NEW m \in Message, Post(m), UNCHANGED control PROVE MessageInv'
  <2>. SUFFICES ASSUME NEW s \in Switches
                PROVE  /\ OnItsWay(s)' => last'[s] # "none"
                       /\ Ends(queue', Of(s), Saying(last'[s]))
                       /\ At(s)' /\ ~Holds(queue', Of(s)) => OnOff(control'.on) = last'[s]
    BY DEF MessageInv
  <2>1. At(s)' = At(s)
    BY <1>1 DEF At
  <2>2. /\ Holds(queue', Of(s)) <=> Holds(queue, Of(s)) \/ m.switch = s
        /\ Ends(queue, Of(s), Saying(last[s])) => Ends(queue', Of(s), Saying(last'[s]))
    BY <1>1, QueuePosted
  <2>3. /\ m.switch = s => last'[s] # "none"
        /\ m.switch # s => last'[s] = last[s]
        /\ last[s] # "none" => last'[s] # "none"
    BY <1>1, LastPosted
  <2>. QED
    BY <1>1, <2>1, <2>2, <2>3 DEF MessageInv, OnItsWay
<1>2. CASE Take
  <2>. SUFFICES ASSUME NEW s \in Switches
                PROVE  /\ OnItsWay(s)' => last'[s] # "none"
                       /\ Ends(queue', Of(s), Saying(last'[s]))
                       /\ At(s)' /\ ~Holds(queue', Of(s)) => OnOff(control'.on) = last'[s]
    BY DEF MessageInv
  <2>1. last' = last
    BY <1>2 DEF Take
  <2>. QED
    BY <1>2, <2>1, QueueTaken DEF MessageInv
<1>3. CASE (control' = None \/ Goes("epskc") \/ Goes("logs")) /\ UNCHANGED <<queue, last>>
  <2>1. control \in [switch : Switches, on : BOOLEAN, step : {"none", "do", "epskc", "logs"}]
    BY DEF TypeOK
  <2>2. control'.step # "do"
    BY <1>3, <2>1 DEF None, Goes
  <2>. QED
    BY <1>3, <2>2 DEF MessageInv, OnItsWay, At
<1>4. CASE queue' = <<>> /\ task = "none" /\ UNCHANGED <<control, last>>
  <2>1. \A s \in Switches : ~Holds(queue', Of(s)) /\ Ends(queue', Of(s), Saying(last'[s]))
    BY <1>4 DEF Holds, Ends
  <2>2. \A s \in Switches : ~At(s)'
    BY <1>4 DEF At, NotBefore, Idle, None
  <2>. QED
    BY <2>1, <2>2 DEF MessageInv, OnItsWay
<1>5. CASE UNCHANGED <<queue, control, last>>
  BY <1>5 DEF MessageInv, OnItsWay, At
<1>. QED
  BY <1>1, <1>2, <1>3, <1>4, <1>5, MessageKinds

\* What went wrong stays on record.
LEMMA HistoryKept == ASSUME TypeOK, [Next]_vars PROVE (failed => failed') /\ (raced => raced')
<1>1. \A set \in RouteSets, on \in BOOLEAN : QueueRoutes(set, on) => (failed => failed')
  BY DEF QueueRoutes
<1>2. SwitchRoutes => (failed => failed') /\ raced' = raced
  BY <1>1 DEF SwitchRoutes
<1>3. settings["epskc"] \in BOOLEAN /\ settings["logs"] \in BOOLEAN
  BY DEF TypeOK, Switches, RouteSets
<1>4. StartEpskc \/ StartLogs => (failed => failed') /\ (raced => raced')
  BY <1>1, <1>3 DEF StartEpskc, StartLogs, Uses, RouteSets
<1>5. ControlStart => (failed => failed') /\ raced' = raced
  BY DEF ControlStart
<1>6. Take => failed' = failed /\ raced' = raced
  BY DEF Take
<1>7. Start => (failed => failed') /\ raced' = raced
  BY DEF Start
<1>8. Stop => failed' = failed /\ raced' = raced
  BY DEF Stop
<1>9. HandlerStarts \/ HandlerEnds \/ ApplyRoutes => (failed => failed') /\ raced' = raced
  BY DEF HandlerStarts, HandlerEnds, ApplyRoutes
<1>10. ASSUME NEW u \in Users, NEW m \in Message, Request(u, m)
       PROVE failed' = failed /\ (raced => raced')
  BY <1>10 DEF Request
<1>11. ASSUME NEW u \in Users, SaveSetting(u) PROVE failed' = failed /\ raced' = raced
  BY <1>11 DEF SaveSetting
<1>12. GotIp => failed' = failed /\ (raced => raced')
  BY DEF GotIp, Uses
<1>13. GotIpPosts => (failed => failed') /\ raced' = raced
  BY DEF GotIpPosts, PostStart
<1>14. UNCHANGED vars => failed' = failed /\ raced' = raced
  BY DEF vars
<1>. QED
  BY <1>2, <1>4, <1>5, <1>6, <1>7, <1>8, <1>9, <1>10, <1>11, <1>12, <1>13, <1>14
  DEF Next, Control

LEMMA UserStep == ASSUME TypeOK, UserInv, [Next]_vars PROVE UserInv'
<1>. DEFINE Saved == \A s \in Switches : ~Pending(s) /\ last[s] # "none" => OnOff(settings[s]) = last[s]
<1>0. /\ \A u \in Users : user[u] # None => user[u].switch \in Switches
      /\ settings \in [Switches -> BOOLEAN] /\ DOMAIN user = Users /\ "api" \in Switches
  BY DEF TypeOK, Switches
<1>1. ASSUME NEW u \in Users, NEW m \in Message, Request(u, m) PROVE UserInv'
  <2>1. /\ user[u] = None /\ Post(m) /\ user' = [user EXCEPT ![u] = Busy(m)]
        /\ raced' = (raced \/ Pending(m.switch) \/ (event /\ m.switch = "api"))
        /\ UNCHANGED <<settings, event, events, failed>>
    BY <1>1, Zenon DEF Request
  <2>2. /\ m.switch \in Switches /\ last'[m.switch] = OnOff(m.on) /\ OnOff(m.on) # "none"
        /\ \A s \in Switches : s # m.switch => last'[s] = last[s]
        /\ \A s \in Switches : last[s] # "none" => last'[s] # "none"
    BY <2>1, LastPosted
  <2>3. Busy(m) # None /\ Busy(m).switch = m.switch /\ Busy(m).on = m.on
    BY DEF Busy, None
  <2>4. user'[u] = Busy(m) /\ \A v \in Users : v # u => user'[v] = user[v]
    BY <1>0, <2>1
  <2>5. \A v \in Users : user'[v] # None => last'[user'[v].switch] # "none"
    BY <1>0, <2>2, <2>3, <2>4 DEF UserInv
  <2>6. events' > 0 /\ ~failed' => event' \/ last'["api"] # "none"
    BY <1>0, <2>1, <2>2 DEF UserInv
  <2>7. \A s \in Switches : Pending(s)' <=> Pending(s) \/ s = m.switch
    BY <2>1, <2>3, <2>4 DEF Pending
  <2>8. ASSUME ~raced'
        PROVE  /\ \A v \in Users : user'[v] # None => OnOff(user'[v].on) = last'[user'[v].switch]
               /\ \A s \in Switches : ~Pending(s)' /\ last'[s] # "none" => OnOff(settings'[s]) = last'[s]
               /\ event' => ~Pending("api")' /\ settings'["api"]
    <3>1. ~raced /\ ~Pending(m.switch) /\ ~(event /\ m.switch = "api")
      BY <2>1, <2>8
    <3>2. ASSUME NEW v \in Users, user'[v] # None
          PROVE  OnOff(user'[v].on) = last'[user'[v].switch]
      <4>1. CASE v = u
        BY <2>2, <2>3, <2>4, <4>1
      <4>2. CASE v # u
        <5>1. user'[v] = user[v] /\ user[v] # None /\ user[v].switch # m.switch
          BY <2>4, <3>1, <3>2, <4>2 DEF Pending
        <5>. QED
          BY <1>0, <2>2, <3>1, <5>1 DEF UserInv
      <4>. QED
        BY <4>1, <4>2
    <3>3. ASSUME NEW s \in Switches, ~Pending(s)', last'[s] # "none"
          PROVE  OnOff(settings'[s]) = last'[s]
      <4>1. s # m.switch /\ ~Pending(s)
        BY <2>7, <3>3
      <4>. QED
        BY <2>1, <2>2, <3>1, <3>3, <4>1 DEF UserInv
    <3>4. event' => ~Pending("api")' /\ settings'["api"]
      BY <1>0, <2>1, <2>7, <3>1 DEF UserInv
    <3>. QED
      BY <3>2, <3>3, <3>4
  <2>. QED
    BY <2>5, <2>6, <2>8 DEF UserInv
<1>2. ASSUME NEW u \in Users, SaveSetting(u) PROVE UserInv'
  <2>1. /\ user[u] # None /\ settings' = [settings EXCEPT ![user[u].switch] = user[u].on]
        /\ user' = [user EXCEPT ![u] = None]
        /\ UNCHANGED <<event, events, failed, last, raced>>
    BY <1>2, Zenon DEF SaveSetting
  <2>2. user'[u] = None /\ \A v \in Users : v # u => user'[v] = user[v]
    BY <1>0, <2>1
  <2>3. \A v \in Users : user'[v] # None => last'[user'[v].switch] # "none"
    BY <2>1, <2>2 DEF UserInv
  <2>4. events' > 0 /\ ~failed' => event' \/ last'["api"] # "none"
    BY <2>1 DEF UserInv
  <2>5. ASSUME ~raced'
        PROVE  /\ \A v \in Users : user'[v] # None => OnOff(user'[v].on) = last'[user'[v].switch]
               /\ \A s \in Switches : ~Pending(s)' /\ last'[s] # "none" => OnOff(settings'[s]) = last'[s]
               /\ event' => ~Pending("api")' /\ settings'["api"]
    <3>1. \A v \in Users : user'[v] # None => OnOff(user'[v].on) = last'[user'[v].switch]
      BY <2>1, <2>2, <2>5 DEF UserInv
    <3>2. ASSUME NEW s \in Switches, ~Pending(s)', last'[s] # "none"
          PROVE  OnOff(settings'[s]) = last'[s]
      <4>1. CASE s = user[u].switch
        <5>1. settings'[s] = user[u].on
          BY <1>0, <2>1, <4>1
        <5>2. OnOff(user[u].on) = last[s]
          BY <2>1, <2>5, <4>1 DEF UserInv
        <5>. QED
          BY <2>1, <5>1, <5>2
      <4>2. CASE s # user[u].switch
        <5>1. settings'[s] = settings[s]
          BY <1>0, <2>1, <4>2
        <5>2. ~Pending(s)
          BY <2>1, <2>2, <3>2, <4>2 DEF Pending
        <5>. QED
          BY <2>1, <2>5, <3>2, <5>1, <5>2 DEF UserInv
      <4>. QED
        BY <4>1, <4>2
    <3>3. event' => ~Pending("api")' /\ settings'["api"]
      <4>. SUFFICES ASSUME event PROVE ~Pending("api")' /\ settings'["api"]
        BY <2>1
      <4>1. ~Pending("api") /\ settings["api"]
        BY <2>1, <2>5 DEF UserInv
      <4>2. user[u].switch # "api" /\ ~Pending("api")'
        BY <2>1, <2>2, <4>1 DEF Pending
      <4>3. settings'["api"] = settings["api"]
        BY <1>0, <2>1, <4>2
      <4>. QED
        BY <4>1, <4>2, <4>3
    <3>. QED
      BY <3>1, <3>2, <3>3
  <2>. QED
    BY <2>3, <2>4, <2>5 DEF UserInv
<1>3. CASE GotIp
  BY <1>3 DEF GotIp, Uses, UserInv, Pending
<1>4. CASE GotIpPosts
  <2>1. event /\ ~event' /\ UNCHANGED <<settings, user, events, raced>>
    BY <1>4, Zenon DEF GotIpPosts
  <2>2. \A s \in Switches : Pending(s)' <=> Pending(s)
    BY <2>1 DEF Pending
  <2>3. CASE Post(StartMessage) /\ UNCHANGED failed
    <3>1. StartMessage \in Message /\ StartMessage.switch = "api" /\ OnOff(StartMessage.on) = "on"
      BY DEF StartMessage, Message, Switches, OnOff
    <3>2. last'["api"] = "on" /\ \A s \in Switches : s # "api" => last'[s] = last[s]
      BY <2>3, <3>1, LastPosted
    <3>3. \A v \in Users : user'[v] # None => last'[user'[v].switch] # "none"
      BY <1>0, <2>1, <3>2 DEF UserInv
    <3>4. ASSUME ~raced'
          PROVE  /\ \A v \in Users : user'[v] # None => OnOff(user'[v].on) = last'[user'[v].switch]
                 /\ \A s \in Switches : ~Pending(s)' /\ last'[s] # "none" => OnOff(settings'[s]) = last'[s]
      <4>1. ~raced /\ ~Pending("api") /\ settings["api"]
        BY <2>1, <3>4 DEF UserInv
      <4>2. \A v \in Users : user[v] # None => user[v].switch # "api"
        BY <4>1 DEF Pending
      <4>3. OnOff(settings["api"]) = "on"
        BY <4>1 DEF OnOff
      <4>4. \A v \in Users : user'[v] # None => OnOff(user'[v].on) = last'[user'[v].switch]
        BY <1>0, <2>1, <3>2, <4>1, <4>2 DEF UserInv
      <4>5. \A s \in Switches : ~Pending(s)' /\ last'[s] # "none" => OnOff(settings'[s]) = last'[s]
        BY <2>1, <2>2, <3>2, <4>1, <4>3 DEF UserInv
      <4>. QED
        BY <4>4, <4>5
    <3>. QED
      BY <2>1, <3>2, <3>3, <3>4 DEF UserInv
  <2>4. CASE failed' /\ UNCHANGED last
    BY <2>1, <2>2, <2>4 DEF UserInv
  <2>. QED
    BY <1>4, <2>3, <2>4, Zenon DEF GotIpPosts, PostStart
<1>5. CASE /\ UNCHANGED <<user, last, settings, event, events>>
           /\ failed => failed'
           /\ raced => raced'
  BY <1>5 DEF UserInv, Pending
<1>6. ControlStart \/ Control \/ HandlerStarts \/ HandlerEnds \/ ApplyRoutes
        => UNCHANGED <<user, last, settings, event, events>>
  BY Zenon DEF ControlStart, Control, Take, Start, StartEpskc, StartLogs, Stop, SwitchRoutes,
     HandlerStarts, HandlerEnds, ApplyRoutes, requestVars
<1>7. (failed => failed') /\ (raced => raced')
  BY HistoryKept
<1>8. CASE UNCHANGED vars
  BY <1>5, <1>7, <1>8 DEF vars, requestVars
<1>. QED
  BY <1>1, <1>2, <1>3, <1>4, <1>5, <1>6, <1>7, <1>8, Zenon DEF Next

\* A setting that is saved was asked for, so it does not move the target.
LEMMA TargetSaved ==
  ASSUME TypeOK, UserInv, NEW u \in Users, SaveSetting(u), NEW s \in Switches
  PROVE  Target(s)' = Target(s)
<1>1. /\ user[u] # None /\ user[u].switch \in Switches /\ UNCHANGED last
      /\ settings' = [settings EXCEPT ![user[u].switch] = user[u].on]
      /\ settings \in [Switches -> BOOLEAN]
  BY DEF SaveSetting, TypeOK
<1>2. last[user[u].switch] # "none"
  BY <1>1 DEF UserInv
<1>3. s # user[u].switch => settings'[s] = settings[s]
  BY <1>1
<1>4. s = user[u].switch => last[s] # "none"
  BY <1>2
<1>. QED
  BY <1>1, <1>3, <1>4 DEF Target

\* Without a new message for s or a saved setting, its target stays.
LEMMA TargetKept ==
  ASSUME TypeOK, UserInv, [Next]_vars, NEW s \in Switches, last'[s] = last[s]
  PROVE  Target(s)' = Target(s)
<1>1. CASE \E u \in Users : SaveSetting(u)
  BY <1>1, TargetSaved
<1>2. CASE UNCHANGED settings
  BY <1>2 DEF Target
<1>. QED
  BY <1>1, <1>2, Zenon
  DEF Next, Control, Request, GotIp, GotIpPosts, ControlStart, Take, Start, StartEpskc, StartLogs,
      Stop, SwitchRoutes, HandlerStarts, HandlerEnds, ApplyRoutes, vars, requestVars

\* Whether something is on its way for a switch changes only when a message for it is posted
\* or handled.
LEMMA OnItsWayKept ==
  ASSUME TypeOK, NotBefore, [Next]_vars, NEW s \in Switches, ~OnItsWay(s)', ~failed'
  PROVE  /\ last'[s] = last[s]
         /\ OnItsWay(s) => At(s) /\ ~Holds(queue, Of(s)) /\ control'.step # "do"
<1>1. ASSUME NEW m \in Message, Post(m), UNCHANGED control
      PROVE  last'[s] = last[s] /\ ~OnItsWay(s)
  <2>1. m.switch # s /\ ~Holds(queue, Of(s)) /\ ~At(s)
    BY <1>1, QueuePosted DEF OnItsWay, At
  <2>. QED
    BY <1>1, <2>1, LastPosted DEF OnItsWay
<1>2. CASE Take
  BY <1>2, QueueTaken DEF Take
<1>3. CASE (control' = None \/ Goes("epskc") \/ Goes("logs")) /\ UNCHANGED <<queue, last>>
  <2>1. control \in [switch : Switches, on : BOOLEAN, step : {"none", "do", "epskc", "logs"}]
    BY DEF TypeOK
  <2>2. control'.step # "do"
    BY <1>3, <2>1 DEF None, Goes
  <2>. QED
    BY <1>3, <2>2 DEF OnItsWay, At
<1>4. CASE UNCHANGED <<queue, control, last>>
  BY <1>4 DEF OnItsWay, At
<1>. QED
  BY <1>1, <1>2, <1>3, <1>4, MessageKinds

\* The control task handles the last message of a switch by the action for it.
LEMMA Handled ==
  ASSUME TypeOK, NotBefore, [Next]_vars, NEW s \in Switches, At(s), control'.step # "do"
  PROVE  (s = "api" /\ (Start \/ Stop)) \/ (s \in RouteSets /\ SwitchRoutes)
<1>1. control.step = "do" /\ control.switch = s /\ ~Idle
  BY DEF At, Idle, None
<1>2. control' # control
  BY <1>1
<1>3. Start \/ Stop \/ SwitchRoutes
  BY <1>1, <1>2, Zenon
  DEF Next, Control, Request, SaveSetting, GotIp, GotIpPosts, ControlStart, Take, StartEpskc,
      StartLogs, HandlerStarts, HandlerEnds, ApplyRoutes, vars
<1>4. Start \/ Stop => s = "api"
  BY <1>1 DEF Start, Stop, Doing
<1>5. SwitchRoutes => s \in RouteSets
  BY <1>1 DEF SwitchRoutes, Doing
<1>. QED
  BY <1>3, <1>4, <1>5

LEMMA ServerFollowsStep ==
  ASSUME TypeOK, NotBefore, MessageInv, ServerFollows, [Next]_vars PROVE ServerFollows'
<1>. SUFFICES ASSUME ~failed', ~OnItsWay("api")'
              PROVE  IF last'["api"] = "none" THEN ~server' ELSE OnOff(server') = last'["api"]
  BY DEF ServerFollows
<1>1. "api" \in Switches
  BY DEF Switches
<1>2. /\ last'["api"] = last["api"] /\ ~failed
      /\ OnItsWay("api") => At("api") /\ ~Holds(queue, Of("api")) /\ control'.step # "do"
  BY <1>1, OnItsWayKept, HistoryKept
<1>3. CASE OnItsWay("api")
  <2>1. last["api"] # "none" /\ OnOff(control.on) = last["api"]
    BY <1>1, <1>2, <1>3 DEF MessageInv
  <2>2. Start \/ Stop
    BY <1>1, <1>2, <1>3, Handled DEF RouteSets
  <2>3. CASE Start
    <3>1. control.on = TRUE
      BY <2>3 DEF Start, Doing
    <3>2. server' = TRUE
      BY <2>3 DEF Start, TypeOK
    <3>. QED
      BY <1>2, <2>1, <3>1, <3>2
  <2>4. CASE Stop
    <3>1. control.on = FALSE
      BY <2>4 DEF Stop, Doing
    <3>2. server' = FALSE
      BY <2>4 DEF Stop, TypeOK
    <3>. QED
      BY <1>2, <2>1, <3>1, <3>2
  <2>. QED
    BY <2>2, <2>3, <2>4
<1>4. CASE ~OnItsWay("api")
  <2>1. ~Start /\ ~Stop
    BY <1>4 DEF OnItsWay, At, Start, Stop, Doing
  <2>2. server' = server
    BY <2>1, Zenon
    DEF Next, Control, Request, SaveSetting, GotIp, GotIpPosts, ControlStart, Take, StartEpskc,
        StartLogs, SwitchRoutes, HandlerStarts, HandlerEnds, ApplyRoutes, vars, serverVars
  <2>. QED
    BY <1>2, <1>4, <2>2 DEF ServerFollows
<1>. QED
  BY <1>3, <1>4

LEMMA FeatureFollowsStep ==
  ASSUME TypeOK, NotBefore, MessageInv, UserInv, FeatureFollows, [Next]_vars PROVE FeatureFollows'
<1>. SUFFICES ASSUME ~failed', ~OnItsWay("epskc")' PROVE OnOff(feature') = Target("epskc")'
  BY DEF FeatureFollows
<1>1. "epskc" \in Switches /\ "epskc" # "api"
  BY DEF Switches, RouteSets
<1>2. /\ last'["epskc"] = last["epskc"] /\ ~failed
      /\ OnItsWay("epskc") => At("epskc") /\ ~Holds(queue, Of("epskc")) /\ control'.step # "do"
  BY <1>1, OnItsWayKept, HistoryKept
<1>3. Target("epskc")' = Target("epskc")
  BY <1>1, <1>2, TargetKept
<1>4. CASE OnItsWay("epskc")
  <2>1. last["epskc"] # "none" /\ OnOff(control.on) = last["epskc"]
    BY <1>1, <1>2, <1>4 DEF MessageInv
  <2>2. SwitchRoutes /\ control.switch = "epskc"
    BY <1>1, <1>2, <1>4, Handled DEF At
  <2>3. feature' = control.on
    BY <2>2 DEF SwitchRoutes, Doing
  <2>. QED
    BY <1>3, <2>1, <2>3 DEF Target
<1>5. CASE ~OnItsWay("epskc")
  <2>1. SwitchRoutes => feature' = feature
    BY <1>5 DEF OnItsWay, At, SwitchRoutes, Doing
  <2>2. feature' = feature
    BY <2>1, Zenon
    DEF Next, Control, Request, SaveSetting, GotIp, GotIpPosts, ControlStart, Take, Start, Stop,
        StartEpskc, StartLogs, HandlerStarts, HandlerEnds, ApplyRoutes, vars
  <2>. QED
    BY <1>2, <1>3, <1>5, <2>2 DEF FeatureFollows
<1>. QED
  BY <1>4, <1>5

\* A change posted for s says what it is to be, and other changes do not matter to it.
LEMMA ChangePosted ==
  ASSUME work \in Seq(Change), NEW s \in RouteSets, NEW set \in RouteSets, NEW on \in BOOLEAN,
         work' = Append(work, [set |-> set, on |-> on]), NEW v
  PROVE  /\ set = s /\ OnOff(on) = v =>
              Ends(work', ChangeOf(s), ChangeSaying(v)) /\ Holds(work', ChangeOf(s))
         /\ set # s =>
              /\ Ends(work', ChangeOf(s), ChangeSaying(v)) <=> Ends(work, ChangeOf(s), ChangeSaying(v))
              /\ Holds(work', ChangeOf(s)) <=> Holds(work, ChangeOf(s))
<1>. DEFINE c == [set |-> set, on |-> on]
<1>1. c \in Change /\ (c \in ChangeOf(s) <=> set = s) /\ (OnOff(on) = v => c \in ChangeSaying(v))
  BY DEF Change, ChangeOf, ChangeSaying
<1>2. /\ Holds(Append(work, c), ChangeOf(s)) <=> Holds(work, ChangeOf(s)) \/ c \in ChangeOf(s)
      /\ c \in ChangeOf(s) =>
           (Ends(Append(work, c), ChangeOf(s), ChangeSaying(v)) <=> c \in ChangeSaying(v))
      /\ c \notin ChangeOf(s) =>
           (Ends(Append(work, c), ChangeOf(s), ChangeSaying(v))
              <=> Ends(work, ChangeOf(s), ChangeSaying(v)))
  BY <1>1, AppendEnds
<1>. QED
  BY <1>1, <1>2

LEMMA RouteStep ==
  ASSUME TypeOK, NotBefore, UserInv, MessageInv, RouteInv, [Next]_vars PROVE RouteInv'
<1>. SUFFICES ASSUME NEW s \in RouteSets,
                     ~failed', ~raced', server', ~OnItsWay(s)', ~Owed(s)'
              PROVE  /\ Ends(work', ChangeOf(s), ChangeSaying(Target(s)'))
                     /\ ~Holds(work', ChangeOf(s)) => OnOff(registered'[s]) = Target(s)'
  BY DEF RouteInv
<1>1. s \in Switches /\ s # "api" /\ s \in {"epskc", "logs"}
  BY DEF Switches, RouteSets
<1>2. /\ last'[s] = last[s] /\ ~failed /\ ~raced
      /\ OnItsWay(s) => At(s) /\ ~Holds(queue, Of(s)) /\ control'.step # "do"
  BY <1>1, OnItsWayKept, HistoryKept
<1>3. Target(s)' = Target(s)
  BY <1>1, <1>2, TargetKept
<1>4. /\ work \in Seq(Change) /\ registered \in [RouteSets -> BOOLEAN]
      /\ settings["epskc"] \in BOOLEAN /\ settings["logs"] \in BOOLEAN
  BY DEF TypeOK, Switches, RouteSets
<1>5. server /\ ~OnItsWay(s) /\ ~Owed(s) =>
        /\ Ends(work, ChangeOf(s), ChangeSaying(Target(s)))
        /\ ~Holds(work, ChangeOf(s)) => OnOff(registered[s]) = Target(s)
  BY <1>2 DEF RouteInv
<1>6. ~Pending(s) => OnOff(settings[s]) = Target(s)
  BY <1>1, <1>2 DEF UserInv, Target
<1>7. CASE UNCHANGED <<server, registered, work>> /\ ~OnItsWay(s) /\ ~Owed(s)
  BY <1>3, <1>5, <1>7
<1>8. CASE Start
  <2>1. control.step = "do" /\ control.switch = "api"
    BY <1>8 DEF Start, Doing
  <2>2. ~OnItsWay(s) /\ ~Owed(s)
    BY <1>1, <1>2, <2>1 DEF At, Owed
  <2>3. control'.step # "epskc"
    BY <1>1 DEF Owed
  <2>4. UNCHANGED <<server, registered, work>>
    BY <1>8, <2>1, <2>3 DEF Start, Goes, TypeOK
  <2>. QED
    BY <1>7, <2>2, <2>4
<1>9. CASE StartEpskc
  <2>1. control.step = "epskc" /\ control'.step = "logs" /\ UNCHANGED <<server, registered>>
    BY <1>9 DEF StartEpskc, Goes, TypeOK
  <2>2. s = "epskc" /\ ~Pending(s)
    BY <1>1, <1>9, <2>1 DEF Owed, StartEpskc, Uses
  <2>3. work' = Append(work, [set |-> "epskc", on |-> settings["epskc"]])
    BY <1>9, <2>1 DEF StartEpskc, QueueRoutes
  <2>4. OnOff(settings["epskc"]) = Target(s)
    BY <1>6, <2>2
  <2>. QED
    BY <1>3, <1>4, <2>2, <2>3, <2>4, ChangePosted
<1>10. CASE StartLogs
  <2>1. control.step = "logs" /\ UNCHANGED <<server, registered>>
    BY <1>10 DEF StartLogs
  <2>2. work' = Append(work, [set |-> "logs", on |-> settings["logs"]])
    BY <1>10, <2>1 DEF StartLogs, QueueRoutes
  <2>3. "logs" \in RouteSets
    BY DEF RouteSets
  <2>4. CASE s = "logs"
    <3>1. ~Pending(s)
      BY <1>10, <2>4 DEF StartLogs, Uses
    <3>2. OnOff(settings["logs"]) = Target(s)
      BY <1>6, <2>4, <3>1
    <3>. QED
      BY <1>3, <1>4, <2>2, <2>4, <3>2, ChangePosted
  <2>5. CASE s = "epskc"
    <3>1. ~OnItsWay(s) /\ ~Owed(s) /\ server
      BY <1>2, <2>1, <2>5 DEF At, Owed
    <3>. QED
      BY <1>3, <1>4, <1>5, <2>1, <2>2, <2>3, <2>5, <3>1, ChangePosted
  <2>. QED
    BY <1>1, <2>4, <2>5
<1>11. CASE Stop
  BY <1>11 DEF Stop, TypeOK
<1>12. CASE SwitchRoutes
  <2>1. PICK set \in RouteSets, on \in BOOLEAN : Doing(set, on) /\ QueueRoutes(set, on)
    BY <1>12 DEF SwitchRoutes
  <2>2. server /\ UNCHANGED <<server, registered>>
    BY <1>12 DEF SwitchRoutes
  <2>3. work' = Append(work, [set |-> set, on |-> on])
    BY <2>1, <2>2 DEF QueueRoutes
  <2>4. CASE set = s
    <3>1. At(s)
      BY <2>1, <2>4 DEF At, Doing
    <3>2. ~Holds(queue, Of(s)) /\ last[s] # "none"
      BY <1>1, <1>2, <3>1 DEF OnItsWay, MessageInv
    <3>3. OnOff(control.on) = last[s] /\ control.on = on
      BY <1>1, <2>1, <3>1, <3>2 DEF MessageInv, Doing
    <3>4. OnOff(on) = Target(s)
      BY <3>2, <3>3 DEF Target
    <3>. QED
      BY <1>3, <1>4, <2>3, <2>4, <3>4, ChangePosted
  <2>5. CASE set # s
    <3>1. ~OnItsWay(s) /\ ~Owed(s)
      BY <1>1, <1>2, <2>1, <2>5 DEF At, Owed, Doing
    <3>. QED
      BY <1>3, <1>4, <1>5, <2>2, <2>3, <2>5, <3>1, ChangePosted
  <2>. QED
    BY <2>4, <2>5
<1>13. CASE ApplyRoutes
  <2>. DEFINE c == Head(work)
  <2>1. work # <<>> /\ work' = Tail(work) /\ UNCHANGED <<server, control, queue>>
    BY <1>13 DEF ApplyRoutes
  <2>2. ~OnItsWay(s) /\ ~Owed(s)
    BY <2>1 DEF OnItsWay, At, Owed
  <2>3. /\ Ends(work, ChangeOf(s), ChangeSaying(Target(s)))
        /\ ~Holds(work, ChangeOf(s)) => OnOff(registered[s]) = Target(s)
    BY <1>5, <2>1, <2>2
  <2>4. /\ Holds(work, ChangeOf(s)) <=> c \in ChangeOf(s) \/ Holds(work', ChangeOf(s))
        /\ Ends(work', ChangeOf(s), ChangeSaying(Target(s)))
        /\ c \in ChangeOf(s) /\ ~Holds(work', ChangeOf(s)) => c \in ChangeSaying(Target(s))
    BY <1>4, <2>1, <2>3, TailEnds
  <2>5. c \in Change /\ c.set \in RouteSets
    <3>1. c \in Change
      BY <1>4, <2>1
    <3>. QED
      BY <3>1 DEF Change
  <2>6. ASSUME ~Holds(work', ChangeOf(s)) PROVE OnOff(registered'[s]) = Target(s)
    <3>1. CASE c.set = s
      <4>1. c \in ChangeOf(s) /\ OnOff(c.on) = Target(s)
        BY <2>4, <2>5, <2>6, <3>1 DEF ChangeOf, ChangeSaying
      <4>2. registered'[s] = c.on
        BY <1>2, <1>4, <1>13, <3>1 DEF ApplyRoutes
      <4>. QED
        BY <4>1, <4>2
    <3>2. CASE c.set # s
      <4>1. registered'[s] = registered[s]
        BY <1>4, <1>13, <2>5, <3>2 DEF ApplyRoutes
      <4>2. ~Holds(work, ChangeOf(s))
        BY <2>4, <2>6, <3>2 DEF ChangeOf
      <4>. QED
        BY <2>3, <4>1, <4>2
    <3>. QED
      BY <3>1, <3>2
  <2>. QED
    BY <1>3, <2>4, <2>6
<1>14. CASE Take
  <2>1. control.step = "none"
    BY <1>14 DEF Take, Idle, None
  <2>2. ~OnItsWay(s) /\ ~Owed(s)
    BY <1>1, <1>2, <2>1 DEF At, Owed
  <2>. QED
    BY <1>7, <1>14, <2>2 DEF Take, serverVars
<1>15. CASE UNCHANGED <<control, server, registered, work>>
  <2>1. ~OnItsWay(s) /\ ~Owed(s)
    BY <1>2, <1>15 DEF At, Owed
  <2>. QED
    BY <1>7, <1>15, <2>1
<1>. QED
  BY <1>8, <1>9, <1>10, <1>11, <1>12, <1>13, <1>14, <1>15, Zenon
  DEF Next, Control, Request, SaveSetting, GotIp, GotIpPosts, ControlStart, HandlerStarts,
      HandlerEnds, vars, serverVars

SettleInv ==
  RestInv /\ NotBefore /\ UserInv /\ MessageInv /\ ServerFollows /\ FeatureFollows /\ RouteInv

LEMMA SettleInvAlways == Spec => []SettleInv
<1>1. Init => NotBefore /\ UserInv /\ MessageInv /\ ServerFollows /\ FeatureFollows /\ RouteInv
  <2>. SUFFICES ASSUME Init
                PROVE  NotBefore /\ UserInv /\ MessageInv /\ ServerFollows /\ FeatureFollows
                       /\ RouteInv
    OBVIOUS
  <2>1. queue = <<>> /\ control = None /\ \A s \in Switches : last[s] = "none"
    BY DEF Init
  <2>2. \A s \in Switches : ~At(s) /\ ~Holds(queue, Of(s)) /\ Ends(queue, Of(s), Saying(last[s]))
    BY <2>1 DEF At, None, Holds, Ends
  <2>3. NotBefore /\ MessageInv
    BY <2>1, <2>2 DEF NotBefore, Idle, MessageInv, OnItsWay
  <2>4. \A u \in Users : user[u] = None
    BY DEF Init
  <2>5. events = 0 /\ event = FALSE
    BY DEF Init
  <2>6. UserInv
    BY <2>1, <2>4, <2>5 DEF UserInv
  <2>7. server = FALSE /\ feature = settings["epskc"]
    BY DEF Init
  <2>8. "epskc" \in Switches /\ "api" \in Switches
    BY DEF Switches, RouteSets
  <2>9. ServerFollows /\ FeatureFollows /\ RouteInv
    BY <2>1, <2>7, <2>8 DEF ServerFollows, FeatureFollows, RouteInv, Target
  <2>. QED
    BY <2>3, <2>6, <2>9
<1>2. SettleInv /\ [Next]_vars =>
        NotBefore' /\ UserInv' /\ MessageInv' /\ ServerFollows' /\ FeatureFollows' /\ RouteInv'
  BY NotBeforeStep, UserStep, MessageStep, ServerFollowsStep, FeatureFollowsStep, RouteStep
  DEF SettleInv, RestInv
<1>. QED
  BY <1>1, <1>2, RestInvAlways, PTL DEF Spec, SettleInv

\* Once all is quiet and nothing failed, the last request accepted on a switch counts, however
\* requesters were preempted; and unless a task came in between a request and its setting, the
\* server, its optional routes and the key feature are as the settings say.
THEOREM SettingsPrevail == Spec => []SettingsRule
<1>1. SettleInv => SettingsRule
  <2>. SUFFICES ASSUME SettleInv, Settled, ~failed
                PROVE  /\ last["api"] # "none" => server = (last["api"] = "on")
                       /\ last["epskc"] # "none" => feature = (last["epskc"] = "on")
                       /\ ~raced =>
                            /\ server => settings["api"] /\ routes = {s \in RouteSets : settings[s]}
                            /\ settings["api"] /\ events > 0 => server
                            /\ feature = settings["epskc"]
    BY DEF SettingsRule
  <2>1. /\ server \in BOOLEAN /\ feature \in BOOLEAN /\ settings \in [Switches -> BOOLEAN]
        /\ routes \subseteq RouteSets /\ registered \in [RouteSets -> BOOLEAN]
        /\ "api" \in Switches /\ "epskc" \in Switches /\ RouteSets \subseteq Switches
    BY DEF SettleInv, RestInv, TypeOK, Switches, RouteSets
  <2>2. /\ queue = <<>> /\ control.step = "none" /\ work = <<>> /\ ~event
        /\ \A s \in Switches : ~Pending(s)
    BY DEF Settled, Idle, None, Pending
  <2>3. \A s \in Switches : ~OnItsWay(s)
    BY <2>2 DEF OnItsWay, Holds, At
  <2>4. \A s \in RouteSets : ~Owed(s) /\ ~Holds(work, ChangeOf(s))
    BY <2>2 DEF Owed, Holds, RouteSets
  <2>5. IF last["api"] = "none" THEN ~server ELSE OnOff(server) = last["api"]
    BY <2>1, <2>3 DEF SettleInv, ServerFollows
  <2>6. OnOff(feature) = Target("epskc")
    BY <2>1, <2>3 DEF SettleInv, FeatureFollows
  <2>7. last["api"] # "none" => server = (last["api"] = "on")
    BY <2>1, <2>5 DEF OnOff
  <2>8. last["epskc"] # "none" => feature = (last["epskc"] = "on")
    BY <2>1, <2>6 DEF OnOff, Target
  <2>9. ASSUME ~raced
        PROVE  /\ server => settings["api"] /\ routes = {s \in RouteSets : settings[s]}
               /\ settings["api"] /\ events > 0 => server
               /\ feature = settings["epskc"]
    <3>1. \A s \in Switches : last[s] # "none" => OnOff(settings[s]) = last[s]
      BY <2>2, <2>9 DEF SettleInv, UserInv
    <3>2. \A s \in Switches : OnOff(settings[s]) = Target(s)
      BY <3>1 DEF Target
    <3>3. \A b, d \in BOOLEAN : OnOff(b) = OnOff(d) => b = d
      BY DEF OnOff
    <3>4. feature = settings["epskc"]
      BY <2>1, <2>6, <3>2, <3>3
    <3>5. last["api"] # "none" => server = settings["api"]
      BY <2>1, <2>5, <3>1, <3>3
    <3>6. server => settings["api"]
      BY <2>5, <3>5
    <3>7. settings["api"] /\ events > 0 => server
      BY <2>2, <3>5 DEF SettleInv, UserInv
    <3>8. ASSUME server, NEW s \in RouteSets PROVE registered[s] = settings[s]
      <4>1. OnOff(registered[s]) = Target(s)
        BY <2>1, <2>3, <2>4, <2>9, <3>8 DEF SettleInv, RouteInv
      <4>. QED
        BY <2>1, <3>2, <3>3, <4>1
    <3>9. server => routes = {s \in RouteSets : settings[s]}
      BY <2>1, <3>8 DEF SettleInv, RestInv, FlagsTellTruth
    <3>. QED
      BY <3>4, <3>6, <3>7, <3>9
  <2>. QED
    BY <2>7, <2>8, <2>9
<1>. QED
  BY <1>1, SettleInvAlways, PTL
=============================================================================
