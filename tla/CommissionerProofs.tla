------------------------- MODULE CommissionerProofs -------------------------
(***************************************************************************)
(* For any number of buffers, frames and slots: a start of the camera fails*)
(* only for a failure of its own, a cancelled scan takes no further frame, *)
(* and what a fetch of the dataset reports is what the router said.        *)
(***************************************************************************)
EXTENDS Commissioner, TLAPS

-----------------------------------------------------------------------------
(* Types. *)

Actors == Tasks \cup {"console"}
JoinPlaces == {"connect", "handshake", "petition", "petition_read", "get", "get_read", "failed",
               "fetched", "attach"}
AllPlaces == Places \cup JoinPlaces \cup {"checked"}

SessionTyped ==
  /\ request \in {"none", "petition", "get"}
  /\ air \subseteq Datagrams /\ sent \subseteq Datagrams
  /\ tries \in Nat /\ lastError \in Errors /\ dataset \in Datagrams \cup {"none"}
  /\ broken \in BOOLEAN

\* The part of the camera's types the calls of the scanner change ...
ScannerTyped ==
  /\ running \in BOOLEAN /\ inited \in BOOLEAN /\ open \in BOOLEAN /\ registered \in BOOLEAN
  /\ queued \in 0..Buffers
  /\ fault \in [Tasks -> BOOLEAN]

\* ... and the part of the jobs and the screen.
ScreenTyped ==
  /\ queue \in Seq(Jobs) /\ job \in Jobs
  /\ busy \in BOOLEAN /\ abort \in [Cancellable -> BOOLEAN] /\ cancelled \in BOOLEAN

PlacesTyped == at \in [Actors -> AllPlaces]

CameraTyped == PlacesTyped /\ ScannerTyped /\ ScreenTyped

LEMMA MoveTyped ==
  ASSUME PlacesTyped, NEW t \in Actors, NEW to \in AllPlaces, at' = [at EXCEPT ![t] = to]
  PROVE  /\ PlacesTyped' /\ at'[t] = to
         /\ \A u \in Actors : u # t => at'[u] = at[u]
BY DEF PlacesTyped

LEMMA ScannerTypes ==
  ASSUME CameraAssumption, CameraTyped, NEW t \in Tasks, Scanner(t)
  PROVE  CameraTyped'
<1>1. /\ Start(t) \/ BringUp(t) \/ Open(t) \/ MapBuffers(t) \/ StreamOn(t) \/ NewDecoder(t)
         \/ Requeue(t) \/ StreamAgain(t) \/ Teardown(t) \/ Stop(t)
      /\ ScreenTyped'
  BY DEF Scanner, jobVars, screenVars, CameraTyped, ScreenTyped
<1>2. \E to \in AllPlaces : at' = [at EXCEPT ![t] = to]
  BY <1>1 DEF Start, BringUp, Open, MapBuffers, StreamOn, NewDecoder, Requeue, StreamAgain,
              Teardown, Stop, Goes, AllPlaces, Places
<1>3. PlacesTyped'
  BY <1>2, MoveTyped DEF Actors, CameraTyped
<1>4. queued' \in 0..Buffers
  BY <1>1, CameraAssumption
     DEF Start, BringUp, Open, MapBuffers, StreamOn, NewDecoder, Requeue, StreamAgain,
         Teardown, Stop, CameraTyped, ScannerTyped, CameraAssumption, scanner
<1>5. fault' \in [Tasks -> BOOLEAN]
  BY <1>1
     DEF Start, BringUp, Open, MapBuffers, StreamOn, NewDecoder, Requeue, StreamAgain,
         Teardown, Stop, CameraTyped, ScannerTyped, Fails, scanner
<1>6. running' \in BOOLEAN /\ inited' \in BOOLEAN /\ open' \in BOOLEAN /\ registered' \in BOOLEAN
  BY <1>1
     DEF Start, BringUp, Open, MapBuffers, StreamOn, NewDecoder, Requeue, StreamAgain,
         Teardown, Stop, CameraTyped, ScannerTyped, scanner
<1>. QED
  BY <1>1, <1>3, <1>4, <1>5, <1>6 DEF CameraTyped, ScannerTyped

LEMMA WorkerTypes ==
  ASSUME CameraAssumption, CameraTyped, CameraWorker \/ Probe
  PROVE  CameraTyped'
<1>1. \E t \in Tasks, to \in AllPlaces : at' = [at EXCEPT ![t] = to]
  BY DEF CameraWorker, Probe, Receive, Started, Look, Poll, GiveBack, Decode, EndJob, Goes, Tasks,
         AllPlaces, Places
<1>2. PlacesTyped'
  BY <1>1, MoveTyped DEF Actors, CameraTyped
<1>3. queued' \in 0..Buffers
  BY CameraAssumption
     DEF CameraWorker, Probe, Receive, Started, Look, Poll, GiveBack, Decode, EndJob, Judged,
         CameraTyped, ScannerTyped, CameraAssumption, scanner
<1>4. /\ fault' \in [Tasks -> BOOLEAN] /\ running' \in BOOLEAN /\ inited' \in BOOLEAN
      /\ open' \in BOOLEAN /\ registered' \in BOOLEAN
  BY DEF CameraWorker, Probe, Receive, Started, Look, Poll, GiveBack, Decode, EndJob, Judged,
         CameraTyped, ScannerTyped, scanner
<1>5. ScreenTyped'
  <2>1. CASE Receive
    <3>1. Head(queue) \in Jobs /\ Tail(queue) \in Seq(Jobs)
      BY <2>1 DEF Receive, CameraTyped, ScreenTyped
    <3>. QED
      BY <2>1, <3>1 DEF Receive, CameraTyped, ScreenTyped, screenVars
  <2>2. CASE EndJob
    BY <2>2 DEF EndJob, CameraTyped, ScreenTyped, Jobs
  <2>3. CASE Started \/ Look \/ Poll \/ GiveBack \/ Decode \/ Probe
    BY <2>3 DEF Started, Look, Poll, GiveBack, Decode, Probe, CameraTyped, ScreenTyped,
                screenVars, jobVars
  <2>. QED
    BY <2>1, <2>2, <2>3 DEF CameraWorker
<1>. QED
  BY <1>2, <1>3, <1>4, <1>5 DEF CameraTyped, ScannerTyped

\* What a callback, the console or the start of a fetch does with the queue.
LEMMA UserTypes ==
  ASSUME CameraTyped, CameraUser \/ TapOk
  PROVE  /\ CameraTyped' /\ UNCHANGED scanner
         /\ at'["worker"] = at["worker"] /\ at'["main"] = at["main"]
<1>1. UNCHANGED scanner
  BY DEF CameraUser, Touches, Opens, Refused, Cancels, Navigate, Types, CamtestChecks,
         CamtestQueues, TapOk
<1>2. UNCHANGED at \/ \E to \in AllPlaces : at' = [at EXCEPT !["console"] = to]
  BY DEF CameraUser, Touches, Opens, Refused, Cancels, Navigate, Types, CamtestChecks,
         CamtestQueues, TapOk, Goes, AllPlaces, Places
<1>3. PlacesTyped' /\ at'["worker"] = at["worker"] /\ at'["main"] = at["main"]
  BY <1>2, MoveTyped DEF CameraTyped, Actors, Tasks, PlacesTyped
<1>4. ScreenTyped'
  <2>1. queue' = queue \/ \E j \in Jobs : queue' = Append(queue, j)
    BY DEF CameraUser, Touches, Opens, Refused, Cancels, Navigate, Types, CamtestChecks,
           CamtestQueues, TapOk, Jobs
  <2>2. queue' \in Seq(Jobs)
    BY <2>1 DEF CameraTyped, ScreenTyped
  <2>3. job' = job
    BY DEF CameraUser, Touches, Opens, Refused, Cancels, Navigate, Types, CamtestChecks,
           CamtestQueues, TapOk, jobVars
  <2>4. busy' \in BOOLEAN
    BY DEF CameraUser, Touches, Opens, Refused, Cancels, Navigate, Types, CamtestChecks,
           CamtestQueues, TapOk, screenVars, CameraTyped, ScreenTyped
  <2>5. cancelled' \in BOOLEAN
    BY DEF CameraUser, Touches, Opens, Refused, Cancels, Navigate, Types, CamtestChecks,
           CamtestQueues, TapOk, screenVars, CameraTyped, ScreenTyped
  <2>6. abort' \in [Cancellable -> BOOLEAN]
    BY DEF CameraUser, Touches, Opens, Refused, Cancels, Navigate, Types, CamtestChecks,
           CamtestQueues, TapOk, screenVars, CameraTyped, ScreenTyped
  <2>. QED
    BY <2>2, <2>3, <2>4, <2>5, <2>6 DEF CameraTyped, ScreenTyped
<1>. QED
  BY <1>1, <1>3, <1>4 DEF CameraTyped, ScannerTyped, scanner

\* Steps of a fetch but its first leave the camera and the screen alone.
FetchSteps ==
  \/ Connects \/ Handshakes \/ Petition \/ ActiveGet
  \/ \E place \in Reads : Skips(place) \/ ReadFails(place)
  \/ ReadPetition \/ ReadDataset \/ FetchFailed \/ Applies \/ Attaches

LEMMA FetchMoves ==
  ASSUME FetchSteps
  PROVE  /\ OnWorker
         /\ at["worker"] \in JoinPlaces
         /\ \/ UNCHANGED at
            \/ \E to \in JoinPlaces \cup {"end"} : at' = [at EXCEPT !["worker"] = to]
<1>1. OnWorker
  BY DEF FetchSteps, Connects, Handshakes, Petition, ActiveGet, Posts, Skips, ReadFails,
         ReadPetition,
         ReadDataset, FetchFailed, Applies, Attaches, Fetching, Closes
<1>2. CASE FetchFailed \/ Applies \/ Attaches
  BY <1>1, <1>2 DEF FetchFailed, Applies, Attaches, Goes, JoinPlaces
<1>3. CASE Connects \/ Handshakes \/ Petition \/ ActiveGet
  BY <1>1, <1>3 DEF Connects, Handshakes, Petition, ActiveGet, Posts, Goes, GivesUp, JoinPlaces
<1>4. CASE \E place \in Reads : Skips(place) \/ ReadFails(place)
  BY <1>1, <1>4 DEF Skips, ReadFails, Goes, GivesUp, JoinPlaces, Reads
<1>5. CASE ReadPetition
  BY <1>1, <1>5 DEF ReadPetition, Goes, GivesUp, JoinPlaces
<1>6. CASE ReadDataset
  BY <1>1, <1>6 DEF ReadDataset, Goes, GivesUp, JoinPlaces
<1>. QED
  BY <1>2, <1>3, <1>4, <1>5, <1>6 DEF FetchSteps

LEMMA FetchTypes ==
  ASSUME CameraTyped, FetchBegins \/ FetchSteps
  PROVE  CameraTyped'
<1>1. CASE FetchBegins
  <2>1. Tail(queue) \in Seq(Jobs)
    BY <1>1 DEF FetchBegins, CameraTyped, ScreenTyped
  <2>2. ScreenTyped' /\ ScannerTyped'
    BY <1>1, <2>1
       DEF FetchBegins, CameraTyped, ScreenTyped, ScannerTyped, scanner, screenVars, Jobs
  <2>3. PlacesTyped'
    BY <1>1, MoveTyped DEF FetchBegins, Goes, CameraTyped, Actors, Tasks, AllPlaces, JoinPlaces
  <2>. QED
    BY <2>2, <2>3 DEF CameraTyped
<1>2. CASE FetchSteps
  <2>1. ScreenTyped' /\ ScannerTyped'
    BY <1>2, FetchMoves DEF OnWorker, CameraTyped, ScreenTyped, ScannerTyped, scanner, screenVars,
                            jobVars
  <2>2. PlacesTyped'
    BY <1>2, FetchMoves, MoveTyped DEF CameraTyped, PlacesTyped, Actors, Tasks, AllPlaces, Places
  <2>. QED
    BY <2>1, <2>2 DEF CameraTyped
<1>. QED
  BY <1>1, <1>2

\* The steps of the system, as the camera sees them.
LEMMA Steps ==
  ASSUME CommissionerNext
  PROVE  \/ (\E t \in Tasks : Scanner(t)) /\ UNCHANGED session
         \/ (Probe \/ CameraWorker \/ CameraUser) /\ UNCHANGED session
         \/ TapOk \/ FetchBegins \/ FetchSteps
         \/ (RouterAnswers \/ NetworkLoses) /\ UNCHANGED vars
BY DEF CommissionerNext, Next, Tasks, JoinWorker, FetchSteps, RouterAnswers, NetworkLoses

LEMMA CameraTypesStep ==
  ASSUME CameraAssumption, CameraTyped, [CommissionerNext]_allVars
  PROVE  CameraTyped'
<1>1. CASE UNCHANGED vars
  BY <1>1 DEF vars, CameraTyped, PlacesTyped, ScannerTyped, ScreenTyped, scanner, jobVars,
              screenVars
<1>2. CASE CommissionerNext
  BY <1>1, <1>2, CameraAssumption, Steps, ScannerTypes, WorkerTypes, UserTypes, FetchTypes
<1>. QED
  BY <1>1, <1>2 DEF allVars

-----------------------------------------------------------------------------
(* The pipeline of the scanner. *)

Building == {"map", "stream", "decoder", "restream", "teardown"}
Using == {"on", "look", "poll", "frame", "decode"}

\* While app_main probes, nothing else has begun.
ProbeAlone ==
  at["main"] # "idle" => at["worker"] = "idle" /\ at["console"] = "idle" /\ queue = <<>>

\* What the place of a task says about the pipeline.
PlaceKnows(t) ==
  /\ at[t] = "init" => ~inited
  /\ at[t] \in Building \cup {"requeue"} => open
  /\ at[t] = "requeue" => queued = 0
  /\ at[t] \in Using => running
  /\ at[t] \in {"teardown", "off"} => fault[t]

\* Outside a start the driver holds buffers only for a stream that is on.
RestsEmpty == (\A t \in Tasks : at[t] \notin Building) => (queued # 0 => running)

PipelineIsKnown == registered = inited /\ (\A t \in Tasks : PlaceKnows(t)) /\ RestsEmpty

Pipeline == ProbeAlone /\ PipelineIsKnown

LEMMA OthersIdle ==
  ASSUME ProbeAlone, NEW t \in Tasks, at[t] # "idle"
  PROVE  \A u \in Tasks : u # t => at[u] = "idle"
BY DEF ProbeAlone, Tasks

LEMMA TaskStep ==
  ASSUME PlacesTyped, ProbeAlone, NEW t \in Tasks, at[t] # "idle", UNCHANGED queue,
         NEW to \in AllPlaces, at' = [at EXCEPT ![t] = to]
  PROVE  /\ ProbeAlone' /\ at'[t] = to
         /\ \A u \in Tasks : u # t => at[u] = "idle" /\ at'[u] = "idle"
BY MoveTyped, OthersIdle DEF ProbeAlone, Tasks, Actors

LEMMA ScannerStep ==
  ASSUME CameraAssumption, CameraTyped, Pipeline, NEW t \in Tasks, Scanner(t)
  PROVE  Pipeline'
<1>. SUFFICES ASSUME Start(t) \/ BringUp(t) \/ Open(t) \/ MapBuffers(t) \/ StreamOn(t) \/ NewDecoder(t)
                     \/ Requeue(t) \/ StreamAgain(t) \/ Teardown(t) \/ Stop(t),
                     UNCHANGED queue
              PROVE  Pipeline'
  BY DEF Scanner
<1>0. ProbeAlone /\ PlacesTyped
  BY DEF Pipeline, CameraTyped
<1>a. fault \in [Tasks -> BOOLEAN]
  BY DEF CameraTyped, ScannerTyped
<1>1. CASE Start(t)
  <2>1. at[t] = "start" /\ \E to \in {"on", "requeue", "open", "init"} : at' = [at EXCEPT ![t] = to]
    BY <1>1 DEF Start, Goes
  <2>2. /\ ProbeAlone'
        /\ \A u \in Tasks : u # t => at[u] = "idle" /\ at'[u] = "idle"
    BY <1>0, <2>1, TaskStep DEF AllPlaces, Places
  <2>3. queued # 0 => running
    BY <2>1, <2>2 DEF Pipeline, PipelineIsKnown, RestsEmpty, Building
  <2>. QED
    BY <1>1, <1>0, <1>a, <2>2, <2>3
       DEF Pipeline, PipelineIsKnown, Start, Goes, PlacesTyped, Actors, Fails, PlaceKnows,
           RestsEmpty, Building, Using, scanner
<1>2. CASE BringUp(t)
  <2>1. at[t] = "init" /\ \E to \in {"open", "off"} : at' = [at EXCEPT ![t] = to]
    BY <1>2 DEF BringUp, Goes
  <2>2. /\ ProbeAlone'
        /\ \A u \in Tasks : u # t => at[u] = "idle" /\ at'[u] = "idle"
    BY <1>0, <2>1, TaskStep DEF AllPlaces, Places
  <2>. QED
    BY <1>2, <1>0, <1>a, <2>2, ZenonT(40)
       DEF Pipeline, PipelineIsKnown, BringUp, Goes, PlacesTyped, Actors, Fails, PlaceKnows,
           RestsEmpty, Building, Using, scanner
<1>3. CASE Open(t)
  <2>1. at[t] = "open" /\ \E to \in {"map", "off"} : at' = [at EXCEPT ![t] = to]
    BY <1>3 DEF Open, Goes
  <2>2. /\ ProbeAlone'
        /\ \A u \in Tasks : u # t => at[u] = "idle" /\ at'[u] = "idle"
    BY <1>0, <2>1, TaskStep DEF AllPlaces, Places
  <2>. QED
    BY <1>3, <1>0, <1>a, <2>2, SMTT(30)
       DEF Pipeline, PipelineIsKnown, Open, Goes, PlacesTyped, Actors, Fails, PlaceKnows,
           RestsEmpty, Building, Using, scanner
<1>4. CASE MapBuffers(t)
  <2>1. at[t] = "map" /\ \E to \in {"stream", "teardown"} : at' = [at EXCEPT ![t] = to]
    BY <1>4 DEF MapBuffers, Goes
  <2>2. /\ ProbeAlone'
        /\ \A u \in Tasks : u # t => at[u] = "idle" /\ at'[u] = "idle"
    BY <1>0, <2>1, TaskStep DEF AllPlaces, Places
  <2>. QED
    BY <1>4, <1>0, <1>a, <2>2, SMTT(30)
       DEF Pipeline, PipelineIsKnown, MapBuffers, Goes, PlacesTyped, Actors, Fails, PlaceKnows,
           RestsEmpty, Building, Using, scanner
<1>5. CASE StreamOn(t)
  <2>1. at[t] = "stream" /\ \E to \in {"decoder", "teardown"} : at' = [at EXCEPT ![t] = to]
    BY <1>5 DEF StreamOn, Goes
  <2>2. /\ ProbeAlone'
        /\ \A u \in Tasks : u # t => at[u] = "idle" /\ at'[u] = "idle"
    BY <1>0, <2>1, TaskStep DEF AllPlaces, Places
  <2>. QED
    BY <1>5, <1>0, <1>a, <2>2, SMTT(30)
       DEF Pipeline, PipelineIsKnown, StreamOn, Goes, PlacesTyped, Actors, Fails, PlaceKnows,
           RestsEmpty, Building, Using, scanner
<1>6. CASE NewDecoder(t)
  <2>1. at[t] = "decoder" /\ \E to \in {"on", "teardown"} : at' = [at EXCEPT ![t] = to]
    BY <1>6 DEF NewDecoder, Goes
  <2>2. /\ ProbeAlone'
        /\ \A u \in Tasks : u # t => at[u] = "idle" /\ at'[u] = "idle"
    BY <1>0, <2>1, TaskStep DEF AllPlaces, Places
  <2>. QED
    BY <1>6, <1>0, <1>a, <2>2, SMTT(30)
       DEF Pipeline, PipelineIsKnown, NewDecoder, Goes, PlacesTyped, Actors, Fails, PlaceKnows,
           RestsEmpty, Building, Using, scanner
<1>7. CASE Requeue(t)
  <2>1. at[t] = "requeue" /\ \E to \in {"restream", "teardown"} : at' = [at EXCEPT ![t] = to]
    BY <1>7 DEF Requeue, Goes
  <2>2. /\ ProbeAlone'
        /\ \A u \in Tasks : u # t => at[u] = "idle" /\ at'[u] = "idle"
    BY <1>0, <2>1, TaskStep DEF AllPlaces, Places
  <2>. QED
    BY <1>7, <1>0, <1>a, <2>2, ZenonT(40)
       DEF Pipeline, PipelineIsKnown, Requeue, Goes, PlacesTyped, Actors, Fails, PlaceKnows,
           RestsEmpty, Building, Using, scanner
<1>8. CASE StreamAgain(t)
  <2>1. at[t] = "restream" /\ \E to \in {"on", "teardown"} : at' = [at EXCEPT ![t] = to]
    BY <1>8 DEF StreamAgain, Goes
  <2>2. /\ ProbeAlone'
        /\ \A u \in Tasks : u # t => at[u] = "idle" /\ at'[u] = "idle"
    BY <1>0, <2>1, TaskStep DEF AllPlaces, Places
  <2>. QED
    BY <1>8, <1>0, <1>a, <2>2, SMTT(30)
       DEF Pipeline, PipelineIsKnown, StreamAgain, Goes, PlacesTyped, Actors, Fails, PlaceKnows,
           RestsEmpty, Building, Using, scanner
<1>9. CASE Teardown(t)
  <2>1. at[t] = "teardown" /\ \E to \in {"off"} : at' = [at EXCEPT ![t] = to]
    BY <1>9 DEF Teardown, Goes
  <2>2. /\ ProbeAlone'
        /\ \A u \in Tasks : u # t => at[u] = "idle" /\ at'[u] = "idle"
    BY <1>0, <2>1, TaskStep DEF AllPlaces, Places
  <2>. QED
    BY <1>9, <1>0, <1>a, <2>2, SMTT(30)
       DEF Pipeline, PipelineIsKnown, Teardown, Goes, PlacesTyped, Actors, Fails, PlaceKnows,
           RestsEmpty, Building, Using, scanner
<1>10. CASE Stop(t)
  <2>1. at[t] = "stop" /\ \E to \in {"end"} : at' = [at EXCEPT ![t] = to]
    BY <1>10 DEF Stop, Goes
  <2>2. /\ ProbeAlone'
        /\ \A u \in Tasks : u # t => at[u] = "idle" /\ at'[u] = "idle"
    BY <1>0, <2>1, TaskStep DEF AllPlaces, Places
  <2>3. queued # 0 => running
    BY <2>1, <2>2 DEF Pipeline, PipelineIsKnown, RestsEmpty, Building
  <2>. QED
    BY <1>10, <1>0, <1>a, <2>2, <2>3
       DEF Pipeline, PipelineIsKnown, Stop, Goes, PlacesTyped, Actors, Fails, PlaceKnows,
           RestsEmpty, Building, Using, scanner
<1>. QED
  BY <1>1, <1>2, <1>3, <1>4, <1>5, <1>6, <1>7, <1>8, <1>9, <1>10

LEMMA ProbeStep ==
  ASSUME CameraTyped, Pipeline, Probe
  PROVE  Pipeline'
<1>1. /\ at["main"] \in {"on", "off", "end"}
      /\ \E to \in {"stop", "idle"} : at' = [at EXCEPT !["main"] = to]
  BY DEF Probe, Goes
<1>2. /\ ProbeAlone'
      /\ at["worker"] = "idle" /\ at'["worker"] = "idle" /\ at'["main"] \in {"stop", "idle"}
  BY <1>1, TaskStep DEF Pipeline, CameraTyped, AllPlaces, Places, Tasks, Probe
<1>. QED
  BY <1>1, <1>2
     DEF Probe, Judged, Pipeline, PipelineIsKnown, PlaceKnows, RestsEmpty, Building, Using, Tasks

LEMMA WorkerStep ==
  ASSUME CameraAssumption, CameraTyped, Pipeline, CameraWorker
  PROVE  Pipeline'
<1>1. /\ at["worker"] \notin Building
      /\ \E to \in {"start", "end", "look", "poll", "stop", "frame", "decode", "idle"} :
           at' = [at EXCEPT !["worker"] = to]
  BY DEF CameraWorker, Receive, Started, Look, Poll, GiveBack, Decode, EndJob, Goes, Building
<1>2. at["main"] = "idle"
  BY DEF CameraWorker, Receive, Started, Look, Poll, GiveBack, Decode, EndJob, Goes, Pipeline,
         ProbeAlone
<1>3. /\ at'["main"] = "idle"
      /\ at'["worker"] \in {"start", "end", "look", "poll", "stop", "frame", "decode", "idle"}
  BY <1>1, <1>2, MoveTyped, ZenonT(40) DEF CameraTyped, Actors, Tasks, AllPlaces, Places
<1>4. at'["worker"] \in Using => running'
  BY <1>1, SMTT(30) DEF CameraWorker, Receive, Started, Look, Poll, GiveBack, Decode, EndJob, Goes,
              scanner, Using,
              CameraTyped, PlacesTyped, Pipeline, PipelineIsKnown, PlaceKnows, Judged, Actors,
              Tasks
<1>5. queued' # 0 => running'
  <2>1. queued # 0 => running
    BY <1>1, <1>2 DEF Pipeline, PipelineIsKnown, RestsEmpty, Tasks, Building
  <2>2. CASE Receive \/ Started \/ Look \/ Decode \/ EndJob
    BY <2>1, <2>2 DEF Receive, Started, Look, Decode, EndJob, Judged, scanner
  <2>3. CASE Poll
    BY <2>1, <2>3 DEF Poll, scanner
  <2>4. CASE GiveBack
    BY <2>4 DEF GiveBack, Goes, Pipeline, PipelineIsKnown, PlaceKnows, Using, Tasks
  <2>. QED
    BY <2>2, <2>3, <2>4 DEF CameraWorker
<1>6. registered' = inited'
  BY DEF CameraWorker, Receive, Started, Look, Poll, GiveBack, Decode, EndJob, Judged, scanner,
         Pipeline, PipelineIsKnown
<1>. QED
  BY <1>2, <1>3, <1>4, <1>5, <1>6
     DEF Pipeline, PipelineIsKnown, ProbeAlone, PlaceKnows, RestsEmpty, Tasks, Building, Using

LEMMA UserStep ==
  ASSUME ~EarlyTaps, CameraTyped, Pipeline, CameraUser \/ TapOk
  PROVE  Pipeline'
<1>1. ProbeAlone'
  <2>1. at["main"] = "idle" \/ UNCHANGED <<queue, at>>
    BY DEF CameraUser, Touches, Opens, Refused, Cancels, Navigate, Types, CamtestChecks,
           CamtestQueues, TapOk, Reachable, Goes, Pipeline, ProbeAlone
  <2>. QED
    BY <2>1, UserTypes DEF Pipeline, ProbeAlone
<1>. QED
  BY <1>1, UserTypes DEF Pipeline, PipelineIsKnown, PlaceKnows, RestsEmpty, Tasks, scanner

LEMMA FetchStep ==
  ASSUME CameraTyped, Pipeline, FetchBegins \/ FetchSteps
  PROVE  Pipeline'
<1>1. /\ UNCHANGED scanner
      /\ at["worker"] \in JoinPlaces \cup {"idle"} /\ at["main"] = "idle"
      /\ UNCHANGED at \/ \E to \in JoinPlaces \cup {"end"} : at' = [at EXCEPT !["worker"] = to]
  BY FetchMoves DEF FetchBegins, OnWorker, Goes, Pipeline, ProbeAlone, JoinPlaces
<1>2. at'["worker"] \in JoinPlaces \cup {"idle", "end"} /\ at'["main"] = "idle"
  BY <1>1, MoveTyped DEF CameraTyped, Actors, Tasks, AllPlaces, Places
<1>. QED
  BY <1>1, <1>2
     DEF Pipeline, ProbeAlone, PipelineIsKnown, PlaceKnows, RestsEmpty, Tasks, scanner, Building,
                    Using, JoinPlaces

LEMMA PipelineStep ==
  ASSUME CameraAssumption, ~EarlyTaps, CameraTyped, Pipeline, [CommissionerNext]_allVars
  PROVE  Pipeline'
<1>1. CASE UNCHANGED vars
  BY <1>1 DEF vars, Pipeline, ProbeAlone, PipelineIsKnown, PlaceKnows, RestsEmpty, scanner
<1>2. CASE CommissionerNext
  BY <1>1, <1>2, CameraAssumption, Steps, ScannerStep, ProbeStep, WorkerStep, UserStep, FetchStep
<1>. QED
  BY <1>1, <1>2 DEF allVars

LEMMA CameraAlways == CommissionerSpec => []CameraTyped
<1>1. CommissionerInit => CameraTyped
  <2>. SUFFICES ASSUME Init PROVE PlacesTyped /\ ScannerTyped /\ ScreenTyped
    BY DEF CommissionerInit, CameraTyped
  <2>1. PlacesTyped
    BY DEF Init, PlacesTyped, Actors, Tasks, AllPlaces, Places
  <2>2. /\ running = FALSE /\ inited = FALSE /\ open = FALSE /\ registered = FALSE /\ queued = 0
        /\ fault = [t \in Tasks |-> FALSE]
        /\ queue = <<>> /\ job = "none" /\ busy = FALSE /\ cancelled = FALSE
        /\ abort = [j \in Cancellable |-> FALSE]
    BY DEF Init
  <2>3. fault \in [Tasks -> BOOLEAN] /\ abort \in [Cancellable -> BOOLEAN]
    BY <2>2
  <2>4. queued \in 0..Buffers
    BY <2>2, CameraAssumption DEF CameraAssumption
  <2>5. queue \in Seq(Jobs) /\ job \in Jobs
    BY <2>2 DEF Jobs
  <2>. QED
    BY <2>1, <2>2, <2>3, <2>4, <2>5 DEF ScannerTyped, ScreenTyped
<1>2. CameraTyped /\ [CommissionerNext]_allVars => CameraTyped'
  BY CameraAssumption, CameraTypesStep
<1>. QED
  BY <1>1, <1>2, PTL DEF CommissionerSpec

LEMMA PipelineAlways == ASSUME ~EarlyTaps PROVE CommissionerSpec => []Pipeline
<1>1. CommissionerInit => Pipeline
  BY DEF CommissionerInit, Init, Pipeline, ProbeAlone, PipelineIsKnown, PlaceKnows, RestsEmpty,
         Tasks,
         Building, Using
<1>2. CameraTyped /\ Pipeline /\ [CommissionerNext]_allVars => Pipeline'
  BY CameraAssumption, PipelineStep
<1>. QED
  BY <1>1, <1>2, CameraAlways, PTL DEF CommissionerSpec

\* When the screen and the console are not used before app_main's probe of the camera
\* is over, a start fails only because a call into the driver failed there and then,
\* for any number of buffers and frames.
THEOREM FailuresAreFresh == ASSUME ~EarlyTaps PROVE CommissionerSpec => []FailureIsFresh
<1>1. Pipeline => FailureIsFresh
  BY DEF Pipeline, PipelineIsKnown, PlaceKnows, FailureIsFresh
<1>. QED
  BY <1>1, PipelineAlways, PTL

\* Under the same assumption the video device is never registered twice.
THEOREM RegisteredOnce == ASSUME ~EarlyTaps PROVE CommissionerSpec => []BroughtUpOnce
<1>1. Pipeline => BroughtUpOnce
  BY DEF Pipeline, PipelineIsKnown, PlaceKnows, BroughtUpOnce
<1>. QED
  BY <1>1, PipelineAlways, PTL

-----------------------------------------------------------------------------
(* A cancelled job stops. *)

UiJobs == {"qr", "preview", "join"}

\* Where the jobs busy stands for are: slots of the queue, and 0 for the worker's hands.
Slots == {i \in DOMAIN queue : queue[i] \in UiJobs} \cup IF job \in UiJobs THEN {0} ELSE {}

OneOperation == (~busy => Slots = {}) /\ \A i, k \in Slots : i = k

HoldsJob == at["worker"] = "idle" <=> job = "none"

InProgress(j) == job = j \/ \E i \in DOMAIN queue : queue[i] = j

CancelledStops == cancelled => \A j \in Cancellable : InProgress(j) => abort[j]

CancelInv == OneOperation /\ HoldsJob /\ CancelledStops

LEMMA JobAppended ==
  ASSUME ScreenTyped, NEW j \in Jobs, queue' = Append(queue, j), job' = job
  PROVE  /\ j \notin UiJobs => Slots' = Slots
         /\ j \in UiJobs /\ Slots = {} => Slots' = {Len(queue) + 1}
         /\ \A k \in Cancellable : k # j => (InProgress(k)' <=> InProgress(k))
<1>1. /\ Len(queue) \in Nat /\ DOMAIN queue = 1..Len(queue)
      /\ DOMAIN queue' = 1..(Len(queue) + 1)
      /\ \A i \in 1..Len(queue) : queue'[i] = queue[i]
      /\ queue'[Len(queue) + 1] = j
  BY DEF ScreenTyped
<1>2. \A k \in Cancellable : k # j => (InProgress(k)' <=> InProgress(k))
  BY <1>1 DEF InProgress
<1>3. CASE j \notin UiJobs
  BY <1>1, <1>2, <1>3 DEF Slots
<1>4. CASE j \in UiJobs
  BY <1>1, <1>2, <1>4 DEF Slots
<1>. QED
  BY <1>2, <1>3, <1>4

LEMMA JobTaken ==
  ASSUME ScreenTyped, queue # <<>>, job = "none", job' = Head(queue), queue' = Tail(queue)
  PROVE  /\ (Slots = {}) => (Slots' = {})
         /\ (\A i, k \in Slots : i = k) => (\A i, k \in Slots' : i = k)
         /\ \A k \in Cancellable : InProgress(k)' => InProgress(k)
<1>1. /\ Len(queue) \in Nat \ {0} /\ DOMAIN queue = 1..Len(queue)
      /\ DOMAIN queue' = 1..(Len(queue) - 1)
      /\ \A i \in 1..(Len(queue) - 1) : queue'[i] = queue[i + 1]
      /\ job' = queue[1]
  BY DEF ScreenTyped
<1>2. \A i \in Slots' : i \in Nat /\ i + 1 \in Slots
  BY <1>1 DEF Slots
<1>3. \A k \in Cancellable : InProgress(k)' => InProgress(k)
  BY <1>1 DEF InProgress
<1>. QED
  BY <1>2, <1>3

\* A step of a job leaves what cancels it alone.
LEMMA CancelUnchanged ==
  ASSUME CancelInv, UNCHANGED <<queue, job, busy, abort, cancelled>>,
         at'["worker"] = "idle" <=> at["worker"] = "idle"
  PROVE  CancelInv'
BY DEF CancelInv, OneOperation, Slots, HoldsJob, CancelledStops, InProgress

LEMMA JobSteps ==
  ASSUME CameraTyped, CancelInv,
         (\E t \in Tasks : Scanner(t)) \/ Probe \/ Started \/ Look \/ Poll \/ GiveBack \/ Decode
  PROVE  CancelInv'
<1>1. UNCHANGED <<queue, job, busy, abort, cancelled>>
  BY DEF Scanner, Probe, Started, Look, Poll, GiveBack, Decode, jobVars, screenVars
<1>2. \E t \in Tasks, to \in AllPlaces :
        /\ at' = [at EXCEPT ![t] = to]
        /\ t = "worker" => at[t] # "idle" /\ to # "idle"
  <2>1. CASE \E t \in Tasks : Scanner(t)
    BY <2>1, SMTT(30) DEF Scanner, Start, BringUp, Open, MapBuffers, StreamOn, NewDecoder, Requeue,
                StreamAgain,
                Teardown, Stop, Goes, AllPlaces, Places
  <2>2. CASE Probe \/ Started \/ Look \/ Poll \/ GiveBack \/ Decode
    BY <2>2 DEF Probe, Started, Look, Poll, GiveBack, Decode, Goes, AllPlaces, Places, Tasks
  <2>. QED
    BY <2>1, <2>2
<1>3. at'["worker"] = "idle" <=> at["worker"] = "idle"
  BY <1>2, MoveTyped DEF CameraTyped, Actors, Tasks
<1>. QED
  BY <1>1, <1>3, CancelUnchanged

LEMMA JobBegins ==
  ASSUME CameraTyped, CancelInv, Receive \/ FetchBegins
  PROVE  CancelInv'
<1>1. /\ queue # <<>> /\ job' = Head(queue) /\ queue' = Tail(queue) /\ Head(queue) # "none"
      /\ UNCHANGED <<busy, abort, cancelled>> /\ at["worker"] = "idle"
      /\ \E to \in AllPlaces \ {"idle"} : at' = [at EXCEPT !["worker"] = to]
  BY DEF Receive, FetchBegins, CameraJobs, Goes, screenVars, AllPlaces, Places, JoinPlaces
<1>2. at'["worker"] # "idle"
  BY <1>1, MoveTyped DEF CameraTyped, Actors, Tasks
<1>3. job = "none"
  BY <1>1 DEF CancelInv, HoldsJob
<1>. QED
  BY <1>1, <1>2, <1>3, JobTaken DEF CameraTyped, CancelInv, OneOperation, HoldsJob, CancelledStops

LEMMA JobEnds ==
  ASSUME CameraTyped, CancelInv, EndJob
  PROVE  CancelInv'
<1>1. /\ at["worker"] = "end" /\ at'["worker"] = "idle" /\ job' = "none" /\ UNCHANGED <<queue, abort>>
  BY MoveTyped DEF EndJob, Goes, CameraTyped, Actors, Tasks, AllPlaces, Places
<1>2. job \in Jobs \ {"none"} /\ queue \in Seq(Jobs)
  BY <1>1 DEF CameraTyped, ScreenTyped, CancelInv, HoldsJob
<1>3. Slots' = Slots \ {0}
  BY <1>1, <1>2 DEF Slots, UiJobs
<1>4. job # "test" => Slots' = {}
  BY <1>2, <1>3, SMTT(30) DEF CancelInv, OneOperation, Slots, UiJobs, Jobs
<1>5. \A j \in Cancellable : InProgress(j)' => InProgress(j)
  BY <1>1 DEF InProgress, Cancellable
<1>. QED
  BY <1>1, <1>3, <1>4, <1>5 DEF EndJob, CancelInv, OneOperation, HoldsJob, CancelledStops

LEMMA UserKeepsJobs ==
  ASSUME CameraTyped, CancelInv, CameraUser \/ TapOk
  PROVE  CancelInv'
<1>1. job' = job /\ HoldsJob'
  <2>1. job' = job
    BY DEF CameraUser, Touches, Opens, Refused, Cancels, Navigate, Types, CamtestChecks,
           CamtestQueues, TapOk, jobVars
  <2>. QED
    BY <2>1, UserTypes DEF CancelInv, HoldsJob
<1>2. ASSUME NEW j \in UiJobs, ~busy, queue' = Append(queue, j), busy', ~cancelled'
      PROVE  CancelInv'
  BY <1>1, <1>2, JobAppended
     DEF CameraTyped, CancelInv, OneOperation, CancelledStops, UiJobs, Jobs
<1>3. CASE CamtestQueues
  <2>1. CASE UNCHANGED queue
    BY <1>1, <1>3, <2>1, UserTypes, CancelUnchanged DEF CamtestQueues, screenVars
  <2>2. CASE queue' = Append(queue, "test")
    BY <1>1, <1>3, <2>2, JobAppended
       DEF CamtestQueues, CameraTyped, CancelInv, OneOperation, CancelledStops, UiJobs, Jobs,
           screenVars, Cancellable
  <2>. QED
    BY <1>3, <2>1, <2>2 DEF CamtestQueues
<1>4. CASE Navigate \/ Types \/ CamtestChecks
  BY <1>1, <1>4, UserTypes, CancelUnchanged DEF Navigate, Types, CamtestChecks, screenVars
<1>5. CASE TapOk
  BY <1>1, <1>2, <1>5, UserTypes, CancelUnchanged DEF TapOk, UiJobs, Refuses
<1>6. ASSUME NEW j \in Cancellable, NEW home, NEW shows, Opens(j, home, shows)
      PROVE  CancelInv'
  <2>1. CASE UNCHANGED <<queue, busy, cancelled>> /\ abort' = [abort EXCEPT ![j] = TRUE]
    BY <1>1, <2>1 DEF CameraTyped, ScreenTyped, CancelInv, OneOperation, CancelledStops, Slots,
                      InProgress
  <2>. QED
    BY <1>2, <1>6, <2>1 DEF Opens, UiJobs, Cancellable, Refuses
<1>7. ASSUME NEW j \in Cancellable, NEW home, NEW shows, Refused(j, home, shows)
      PROVE  CancelInv'
  BY <1>1, <1>7, UserTypes, CancelUnchanged DEF Refused
<1>8. ASSUME NEW j \in Cancellable, NEW home, NEW shows, Cancels(j, home, shows)
      PROVE  CancelInv'
  <2>1. UNCHANGED <<queue, busy>> /\ abort' = [abort EXCEPT ![j] = TRUE]
    BY <1>8 DEF Cancels
  <2>2. OneOperation'
    BY <1>1, <2>1 DEF CancelInv, OneOperation, Slots
  <2>3. \A k \in Cancellable : InProgress(k)' <=> InProgress(k)
    BY <1>1, <2>1 DEF InProgress
  <2>4. ASSUME InProgress(j), NEW k \in Cancellable, InProgress(k)
        PROVE  k = j
    <3>1. \A m \in Cancellable : InProgress(m) =>
            \E a \in Slots : IF a = 0 THEN job = m ELSE queue[a] = m
      BY DEF InProgress, Slots, Cancellable, UiJobs, CameraTyped, ScreenTyped
    <3>. QED
      BY <2>4, <3>1 DEF CancelInv, OneOperation
  <2>5. CancelledStops'
    <3>1. SUFFICES ASSUME cancelled', NEW k \in Cancellable, InProgress(k), k # j
                   PROVE  abort'[k]
      BY <2>1, <2>3 DEF CancelledStops, CameraTyped, ScreenTyped
    <3>2. cancelled
      BY <1>8, <2>4, <3>1 DEF Cancels, InProgress
    <3>. QED
      BY <2>1, <3>1, <3>2 DEF CancelInv, CancelledStops, CameraTyped, ScreenTyped
  <2>. QED
    BY <1>1, <2>2, <2>5 DEF CancelInv
<1>. QED
  BY <1>3, <1>4, <1>5, <1>6, <1>7, <1>8 DEF CameraUser, Touches, Cancellable

LEMMA CancelStep ==
  ASSUME CameraTyped, CancelInv, [CommissionerNext]_allVars
  PROVE  CancelInv'
<1>1. CASE UNCHANGED vars
  BY <1>1, CancelUnchanged DEF vars, jobVars, screenVars
<1>2. CASE FetchSteps
  <2>1. at'["worker"] = "idle" <=> at["worker"] = "idle"
    BY <1>2, FetchMoves, MoveTyped DEF CameraTyped, Actors, Tasks, AllPlaces, JoinPlaces, Places
  <2>. QED
    BY <1>2, <2>1, FetchMoves, CancelUnchanged DEF OnWorker, jobVars, screenVars
<1>3. CASE CommissionerNext
  BY <1>1, <1>2, <1>3, Steps, JobSteps, JobBegins, JobEnds, UserKeepsJobs DEF CameraWorker
<1>. QED
  BY <1>1, <1>3 DEF allVars

\* Once the user has cancelled a scan or a preview, queued or running, no further
\* frame is taken for it, for any number of slots and whatever is tapped meanwhile.
THEOREM CancelledStaysCancelled == CommissionerSpec => CancelSticks
<1>1. CommissionerInit => CancelInv
  <2>1. ASSUME CommissionerInit
        PROVE  queue = <<>> /\ job = "none" /\ busy = FALSE /\ cancelled = FALSE /\ at["worker"] = "idle"
    BY <2>1 DEF CommissionerInit, Init, Tasks
  <2>2. ASSUME queue = <<>>, job = "none" PROVE Slots = {}
    BY <2>2 DEF Slots, UiJobs
  <2>. QED
    BY <2>1, <2>2 DEF CancelInv, OneOperation, HoldsJob, CancelledStops
<1>2. CameraTyped /\ CancelInv /\ [CommissionerNext]_allVars => CancelInv'
  BY CancelStep
<1>3. CameraTyped /\ CancelInv /\ [CommissionerNext]_allVars
      => [at["worker"] = "look" /\ at'["worker"] = "poll" /\ job \in Cancellable => ~cancelled]_vars
  <2>. SUFFICES ASSUME CameraTyped, CancelInv, CommissionerNext, at["worker"] = "look",
                       at'["worker"] = "poll", job \in Cancellable
                PROVE  ~cancelled
    BY DEF allVars
  <2>1. Look
    <3>1. ~FetchSteps /\ ~FetchBegins
      BY FetchMoves DEF FetchBegins, Goes, JoinPlaces
    <3>2. ~(CameraUser \/ TapOk) /\ ~UNCHANGED vars
      BY UserTypes DEF vars
    <3>3. ASSUME NEW t \in Tasks, Scanner(t) \/ Probe PROVE FALSE
      <4>1. \E u \in Tasks, to \in AllPlaces \ {"poll"} : at[u] # "look" /\ at' = [at EXCEPT ![u] = to]
        BY <3>3 DEF Scanner, Probe, Start, BringUp, Open, MapBuffers, StreamOn, NewDecoder,
                    Requeue,
                    StreamAgain, Teardown, Stop, Goes, AllPlaces, Places, Tasks
      <4>. QED
        BY <4>1, MoveTyped DEF CameraTyped, Actors, Tasks
    <3>4. ~(Receive \/ Started \/ Poll \/ GiveBack \/ Decode \/ EndJob)
      BY DEF Receive, Started, Poll, GiveBack, Decode, EndJob, Goes
    <3>. QED
      BY <3>1, <3>2, <3>3, <3>4, Steps DEF CameraWorker, Tasks
  <2>2. ~abort[job]
    BY <2>1, MoveTyped DEF Look, Goes, CameraTyped, Actors, Tasks, AllPlaces, Places
  <2>. QED
    BY <2>2 DEF CancelInv, CancelledStops, InProgress
<1>. QED
  BY <1>1, <1>2, <1>3, CameraAlways, PTL DEF CommissionerSpec, CancelSticks

-----------------------------------------------------------------------------
(* What a fetch reports. *)

\* Where something of the fetch may be on its way.
InSession == {"petition_read", "get", "get_read", "fetched", "attach", "failed"}

Has(m) == IF m \in air THEN 1 ELSE 0
Asked == IF request = "none" THEN 0 ELSE 1

\* Only the petition can be answered, once, and with one acknowledgement.
PetitionSession ==
  /\ request \in {"none", "petition"}
  /\ air \subseteq PetitionAnswers \cup {"petition_ack"}
  /\ request = "petition" => air = {}
  /\ \A a, b \in air \ Acks : a = b
  /\ tries + Has("petition_ack") + Asked <= 1

\* The answer to the petition is used up; its acknowledgement may still come.
GetReady == request = "none" /\ air \subseteq {"petition_ack"}

GetSession ==
  /\ request \in {"none", "get"}
  /\ "accept" \notin air /\ "decline" \notin air
  /\ request = "get" => air \subseteq {"petition_ack"}
  /\ tries + Has("petition_ack") + Has("get_ack") + Asked <= 2

SessionInv ==
  /\ at["worker"] \notin InSession => request = "none" /\ air = {}
  /\ at["worker"] = "petition_read" => PetitionSession
  /\ at["worker"] = "get" => GetReady
  /\ at["worker"] = "get_read" => GetSession
  /\ air \subseteq sent \cup Acks
  /\ lastError # "" => at["worker"] = "failed"

FetchInv == SessionInv /\ OutcomeIsTrue

\* The end of a fetch that fails keeps its error for finish_join.
LEMMA GivesUpEnds ==
  ASSUME PlacesTyped, SessionInv, OutcomeIsTrue, NEW from, NEW e, GivesUp(from, e),
         air' \subseteq air, sent' = sent, UNCHANGED dataset,
         e = "rejected" => "reject" \in sent, e = "declined" => "decline" \in sent,
         e = "no reply" => broken'
  PROVE  FetchInv'
<1>1. at'["worker"] = "failed" /\ lastError' = e
  BY MoveTyped DEF GivesUp, Goes, Actors, Tasks, AllPlaces, JoinPlaces
<1>2. SessionInv'
  BY <1>1 DEF SessionInv, InSession
<1>3. OutcomeIsTrue'
  BY <1>1 DEF OutcomeIsTrue
<1>. QED
  BY <1>2, <1>3 DEF FetchInv

\* A fetch is over, or has not begun.
LEMMA NothingOnTheWay ==
  ASSUME at'["worker"] \notin InSession, request' = "none", air' = {}, lastError' = "",
         dataset' = "none"
  PROVE  FetchInv'
BY DEF FetchInv, SessionInv, OutcomeIsTrue, InSession

LEMMA FetchUnchanged ==
  ASSUME FetchInv, UNCHANGED session, at'["worker"] = at["worker"]
  PROVE  FetchInv'
BY DEF FetchInv, SessionInv, OutcomeIsTrue, session, PetitionSession, GetReady, GetSession, Has,
       Asked

\* Outside a fetch nothing of it is left; the camera jobs are outside.
LEMMA OutsideFetch ==
  ASSUME CameraTyped, FetchInv, UNCHANGED session,
         (\E t \in Tasks : Scanner(t)) \/ Probe \/ CameraWorker \/ CameraUser
  PROVE  FetchInv'
<1>1. CASE at'["worker"] = at["worker"]
  BY <1>1, FetchUnchanged
<1>2. CASE at'["worker"] # at["worker"]
  <2>1. \E t \in Tasks, to \in Places : at[t] \notin InSession /\ at' = [at EXCEPT ![t] = to]
    <3>1. ~CameraUser
      BY <1>2, UserTypes
    <3>2. CASE \E t \in Tasks : Scanner(t)
      <4>1. PICK t \in Tasks : Scanner(t)
        BY <3>2
      <4>2. CASE Start(t) \/ BringUp(t) \/ Open(t) \/ MapBuffers(t) \/ StreamOn(t)
        BY <4>2, SMTT(30) DEF Start, BringUp, Open, MapBuffers, StreamOn, Goes, Places, InSession
      <4>3. CASE NewDecoder(t) \/ Requeue(t) \/ StreamAgain(t) \/ Teardown(t) \/ Stop(t)
        BY <4>3, SMTT(30) DEF NewDecoder, Requeue, StreamAgain, Teardown, Stop, Goes, Places,
                              InSession
      <4>. QED
        BY <4>1, <4>2, <4>3 DEF Scanner
    <3>3. CASE Probe \/ CameraWorker
      BY <3>3 DEF Probe, CameraWorker, Receive, Started, Look, Poll, GiveBack, Decode, EndJob,
                  Goes,
                  Places, InSession, Tasks
    <3>. QED
      BY <3>1, <3>2, <3>3
  <2>2. at["worker"] \notin InSession /\ at'["worker"] \notin InSession
    BY <1>2, <2>1, MoveTyped DEF CameraTyped, Actors, Tasks, AllPlaces, Places, InSession
  <2>. QED
    BY <2>2 DEF FetchInv, SessionInv, OutcomeIsTrue, session, InSession
<1>. QED
  BY <1>1, <1>2

\* From the start of the job to the petition.
LEMMA SessionBegins ==
  ASSUME PlacesTyped, SessionTyped, FetchInv, FetchBegins \/ Connects \/ Handshakes \/ Petition
  PROVE  FetchInv'
<1>. USE DEF FetchInv
<1>1. /\ at["worker"] \notin InSession /\ lastError = ""
      /\ request = "none" /\ air = {} /\ dataset = dataset'
  BY DEF FetchBegins, Connects, Handshakes, Petition, Posts, Goes, GivesUp, SessionInv, InSession,
         session
<1>2. CASE FetchBegins
  <2>1. at'["worker"] = "connect" /\ UNCHANGED session
    BY <1>2, MoveTyped DEF FetchBegins, Goes, Actors, Tasks, AllPlaces, JoinPlaces
  <2>. QED
    BY <1>1, <2>1 DEF SessionInv, OutcomeIsTrue, InSession, session
<1>3. CASE Connects
  <2>1. CASE \E e \in {"", "unreachable"} : GivesUp("connect", e)
    BY <1>3, <2>1, GivesUpEnds DEF Connects
  <2>2. CASE Goes("worker", "connect", "handshake") /\ UNCHANGED lastError
    <3>1. at'["worker"] = "handshake"
      BY <2>2, MoveTyped DEF Goes, Actors, Tasks, AllPlaces, JoinPlaces
    <3>. QED
      BY <1>1, <1>3, <2>2, <3>1 DEF Connects, SessionInv, OutcomeIsTrue, InSession
  <2>. QED
    BY <1>3, <2>1, <2>2 DEF Connects
<1>4. CASE Handshakes
  <2>1. CASE GivesUp("handshake", "handshake")
    BY <1>4, <2>1, GivesUpEnds DEF Handshakes
  <2>2. CASE Goes("worker", "handshake", "petition") /\ UNCHANGED lastError
    <3>1. at'["worker"] = "petition"
      BY <2>2, MoveTyped DEF Goes, Actors, Tasks, AllPlaces, JoinPlaces
    <3>. QED
      BY <1>1, <1>4, <2>2, <3>1 DEF Handshakes, SessionInv, OutcomeIsTrue, InSession
  <2>. QED
    BY <1>4, <2>1, <2>2 DEF Handshakes
<1>5. CASE Petition
  <2>1. CASE GivesUp("petition", "send")
    BY <1>5, <2>1, GivesUpEnds DEF Petition, Posts
  <2>2. CASE Goes("worker", "petition", "petition_read") /\ UNCHANGED lastError
             /\ request' = "petition" /\ tries' = 0
    <3>1. at'["worker"] = "petition_read"
      BY <2>2, MoveTyped DEF Goes, Actors, Tasks, AllPlaces, JoinPlaces
    <3>2. air' = {} /\ sent' = sent /\ broken' = broken
      BY <1>1, <1>5 DEF Petition, Posts
    <3>3. PetitionSession'
      BY <2>2, <3>2 DEF PetitionSession, Has, Asked
    <3>. QED
      BY <1>1, <2>2, <3>1, <3>2, <3>3 DEF SessionInv, OutcomeIsTrue, InSession
  <2>. QED
    BY <1>5, <2>1, <2>2 DEF Petition, Posts
<1>. QED
  BY <1>2, <1>3, <1>4, <1>5

LEMMA GetAsked ==
  ASSUME PlacesTyped, SessionTyped, FetchInv, ActiveGet
  PROVE  FetchInv'
<1>. USE DEF FetchInv
<1>1. CASE GivesUp("get", "send")
  BY <1>1, GivesUpEnds DEF ActiveGet, Posts
<1>2. CASE Goes("worker", "get", "get_read") /\ UNCHANGED lastError /\ request' = "get" /\ tries' = 0
  <2>1. at["worker"] = "get" /\ at'["worker"] = "get_read"
    BY <1>2, MoveTyped DEF Goes, Actors, Tasks, AllPlaces, JoinPlaces
  <2>2. air' = air /\ sent' = sent /\ broken' = broken /\ dataset' = dataset
    BY DEF ActiveGet, Posts
  <2>3. GetReady
    BY <2>1 DEF SessionInv
  <2>4. GetSession'
    BY <1>2, <2>2, <2>3 DEF GetReady, GetSession, Has, Asked
  <2>. QED
    BY <1>2, <2>1, <2>2, <2>4 DEF SessionInv, OutcomeIsTrue, InSession
<1>. QED
  BY <1>1, <1>2 DEF ActiveGet, Posts

\* Too few acknowledgements can come to end the wait.
LEMMA AcksSkipped ==
  ASSUME PlacesTyped, SessionTyped, FetchInv, NEW place \in Reads, Skips(place)
  PROVE  FetchInv'
<1>. USE DEF FetchInv
<1>1. PICK m \in air \cap Acks :
        /\ air' = air \ {m} /\ tries' = tries + 1
        /\ IF tries + 1 < Attempts THEN UNCHANGED <<at, lastError>> ELSE GivesUp(place, "no reply")
  BY DEF Skips
<1>2. at["worker"] = place /\ UNCHANGED <<request, sent, broken, dataset>>
  BY DEF Skips
<1>3. /\ tries \in Nat /\ Asked \in {0, 1} /\ Asked' = Asked
      /\ \A a \in Acks : /\ Has(a) \in {0, 1}
                         /\ Has(a)' = IF a = m THEN 0 ELSE Has(a)
      /\ Has(m) = 1
  BY <1>1, <1>2 DEF Has, Asked, SessionTyped
<1>4. /\ Has("petition_ack") \in {0, 1} /\ Has("get_ack") \in {0, 1}
      /\ Has("petition_ack")' = (IF m = "petition_ack" THEN 0 ELSE Has("petition_ack"))
      /\ Has("get_ack")' = (IF m = "get_ack" THEN 0 ELSE Has("get_ack"))
  BY <1>3 DEF Acks
<1>5. m = "petition_ack" \/ m = "get_ack"
  BY <1>1 DEF Acks
<1>6. CASE place = "petition_read"
  <2>1. PetitionSession /\ m = "petition_ack"
    BY <1>1, <1>2, <1>6 DEF SessionInv, PetitionSession, PetitionAnswers, Acks
  <2>2. tries + 1 <= 1
    BY <1>3, <2>1 DEF PetitionSession
  <2>3. tries + 1 < Attempts
    BY <1>3, <2>2 DEF Attempts
  <2>6. UNCHANGED <<at, lastError>> /\ tries' = tries + 1
    BY <1>1, <2>3
  <2>4. tries' + Has("petition_ack")' + Asked' <= 1
    BY <1>3, <1>4, <2>1, <2>6 DEF PetitionSession
  <2>5. PetitionSession'
    BY <1>1, <1>2, <2>1, <2>4 DEF PetitionSession
  <2>. QED
    BY <1>1, <1>2, <1>6, <2>5, <2>6 DEF SessionInv, OutcomeIsTrue, InSession
<1>7. CASE place = "get_read"
  <2>1. GetSession
    BY <1>2, <1>7 DEF SessionInv
  <2>2. tries + 1 <= 2
    BY <1>3, <1>4, <1>5, <2>1 DEF GetSession
  <2>3. tries + 1 < Attempts
    BY <1>3, <2>2 DEF Attempts
  <2>6. UNCHANGED <<at, lastError>> /\ tries' = tries + 1
    BY <1>1, <2>3
  <2>4. tries' + Has("petition_ack")' + Has("get_ack")' + Asked' <= 2
    BY <1>3, <1>4, <1>5, <2>1, <2>6 DEF GetSession
  <2>5. GetSession'
    BY <1>1, <1>2, <2>1, <2>4 DEF GetSession
  <2>. QED
    BY <1>1, <1>2, <1>7, <2>5, <2>6 DEF SessionInv, OutcomeIsTrue, InSession
<1>. QED
  BY <1>6, <1>7 DEF Reads

LEMMA PetitionAnswered ==
  ASSUME ~Repeats, PlacesTyped, SessionTyped, FetchInv, ReadPetition
  PROVE  FetchInv'
<1>. USE DEF FetchInv
<1>1. PICK m \in air \ Acks :
        /\ Takes(m)
        /\ CASE ~IsSuccess(m)   -> GivesUp("petition_read", "rejected")
             [] IsSuccess(m) /\ ~WasAccepted(m) -> GivesUp("petition_read", "declined")
             [] OTHER -> Goes("worker", "petition_read", "get") /\ UNCHANGED lastError
  BY DEF ReadPetition
<1>2. /\ at["worker"] = "petition_read" /\ UNCHANGED <<request, sent, tries, broken, dataset>>
      /\ air' = air \ {m}
  BY <1>1 DEF ReadPetition, Takes
<1>3. PetitionSession /\ m \in sent /\ m \in PetitionAnswers /\ request = "none"
  BY <1>1, <1>2 DEF SessionInv, PetitionSession, Acks, SessionTyped
<1>4. CASE ~IsSuccess(m)
  BY <1>1, <1>2, <1>3, <1>4, GivesUpEnds DEF IsSuccess, Acks
<1>5. CASE IsSuccess(m) /\ ~WasAccepted(m)
  <2>1. m = "decline"
    BY <1>3, <1>5 DEF IsSuccess, WasAccepted, PetitionAnswers
  <2>. QED
    BY <1>1, <1>2, <1>3, <1>5, <2>1, GivesUpEnds
<1>6. CASE IsSuccess(m) /\ WasAccepted(m)
  <2>1. Goes("worker", "petition_read", "get") /\ UNCHANGED lastError
    BY <1>1, <1>6
  <2>2. at'["worker"] = "get"
    BY <2>1, MoveTyped DEF Goes, Actors, Tasks, AllPlaces, JoinPlaces
  <2>3. GetReady'
    BY <1>1, <1>2, <1>3 DEF GetReady, PetitionSession, Acks, PetitionAnswers
  <2>. QED
    BY <1>2, <2>1, <2>2, <2>3 DEF SessionInv, OutcomeIsTrue, InSession
<1>. QED
  BY <1>4, <1>5, <1>6

LEMMA DatasetAnswered ==
  ASSUME ~Repeats, PlacesTyped, SessionTyped, FetchInv, ReadDataset
  PROVE  FetchInv'
<1>. USE DEF FetchInv
<1>1. PICK m \in air \ Acks :
        /\ Takes(m)
        /\ CASE ~IsSuccess(m) -> GivesUp("get_read", "rejected") /\ UNCHANGED dataset
             [] IsSuccess(m) /\ ~HasPayload(m) -> GivesUp("get_read", "no dataset") /\ UNCHANGED dataset
             [] m = "large" -> GivesUp("get_read", "too large") /\ UNCHANGED dataset
             [] OTHER -> /\ dataset' = m
                         /\ Goes("worker", "get_read", "fetched") /\ UNCHANGED lastError
  BY DEF ReadDataset
<1>2. /\ at["worker"] = "get_read" /\ UNCHANGED <<request, sent, tries, broken>>
      /\ air' = air \ {m}
  BY <1>1 DEF ReadDataset, Takes
<1>3. GetSession /\ m \in sent /\ m \in Datagrams
  BY <1>1, <1>2 DEF SessionInv, SessionTyped
<1>4. CASE ~IsSuccess(m)
  BY <1>1, <1>2, <1>3, <1>4, GivesUpEnds DEF IsSuccess, Acks
<1>5. CASE IsSuccess(m) /\ (~HasPayload(m) \/ m = "large")
  BY <1>1, <1>2, <1>5, GivesUpEnds DEF HasPayload
<1>6. CASE IsSuccess(m) /\ HasPayload(m) /\ m # "large"
  <2>1. Goes("worker", "get_read", "fetched") /\ UNCHANGED lastError /\ dataset' = m
    BY <1>1, <1>6
  <2>2. m = "dataset"
    BY <1>1, <1>3, <1>6
       DEF GetSession, IsSuccess, HasPayload, Datagrams, PetitionAnswers, GetAnswers
  <2>3. at'["worker"] = "fetched"
    BY <2>1, MoveTyped DEF Goes, Actors, Tasks, AllPlaces, JoinPlaces
  <2>. QED
    BY <1>2, <2>1, <2>2, <2>3 DEF SessionInv, OutcomeIsTrue, InSession
<1>. QED
  BY <1>4, <1>5, <1>6

LEMMA FetchEnds ==
  ASSUME PlacesTyped, FetchInv, FetchFailed \/ Applies \/ Attaches
  PROVE  FetchInv'
<1>1. CASE FetchFailed \/ Attaches \/ (Goes("worker", "fetched", "end") /\ Closes)
  <2>1. at'["worker"] = "end"
    BY <1>1, MoveTyped DEF FetchFailed, Attaches, Goes, Actors, Tasks, AllPlaces, Places
  <2>. QED
    BY <1>1, <2>1, NothingOnTheWay DEF FetchFailed, Attaches, Closes, InSession
<1>2. CASE Goes("worker", "fetched", "attach") /\ UNCHANGED session
  <2>1. at["worker"] = "fetched" /\ at'["worker"] = "attach"
    BY <1>2, MoveTyped DEF Goes, Actors, Tasks, AllPlaces, JoinPlaces
  <2>. QED
    BY <1>2, <2>1 DEF session, FetchInv, SessionInv, OutcomeIsTrue, InSession
<1>. QED
  BY <1>1, <1>2 DEF Applies

\* The router and the network.
LEMMA Outside ==
  ASSUME SessionTyped, FetchInv, RouterAnswers \/ NetworkLoses
  PROVE  FetchInv'
<1>. USE DEF FetchInv
<1>1. UNCHANGED <<at, tries, broken, lastError, dataset>>
  BY DEF RouterAnswers, NetworkLoses, vars
<1>2. CASE RouterAnswers
  <2>1. /\ request # "none" /\ request' = "none"
        /\ \E m \in IF request = "petition" THEN PetitionAnswers
                    ELSE IF granted THEN GetAnswers ELSE {"reject"} :
             /\ sent' = sent \cup {m}
             /\ \E ack \in SUBSET {IF request = "petition" THEN "petition_ack" ELSE "get_ack"} :
                  air' = air \cup {m} \cup ack
    BY <1>2 DEF RouterAnswers
  <2>2. /\ air' \subseteq sent' \cup Acks
        /\ sent \subseteq sent'
    BY <2>1 DEF SessionInv, Acks
  <2>3. PetitionSession => PetitionSession'
    BY <1>1, <2>1 DEF PetitionSession, Has, Asked, SessionTyped, PetitionAnswers, Acks
  <2>4. ~GetReady
    BY <2>1 DEF GetReady
  <2>5. GetSession => GetSession'
    BY <1>1, <2>1 DEF GetSession, Has, Asked, SessionTyped, GetAnswers, Acks
  <2>. QED
    BY <1>1, <2>1, <2>2, <2>3, <2>4, <2>5 DEF SessionInv, OutcomeIsTrue
<1>3. CASE NetworkLoses
  <2>1. /\ sent' = sent /\ air' \subseteq air
        /\ request' = request \/ request' = "none"
    BY <1>3 DEF NetworkLoses
  <2>2. PetitionSession => PetitionSession'
    BY <1>1, <2>1 DEF PetitionSession, Has, Asked, SessionTyped
  <2>3. GetReady => GetReady'
    BY <2>1 DEF GetReady
  <2>4. GetSession => GetSession'
    BY <1>1, <2>1 DEF GetSession, Has, Asked, SessionTyped
  <2>. QED
    BY <1>1, <2>1, <2>2, <2>3, <2>4 DEF SessionInv, OutcomeIsTrue
<1>. QED
  BY <1>2, <1>3

LEMMA FetchInvStep ==
  ASSUME ~Repeats, CameraTyped, SessionTyped, FetchInv, [CommissionerNext]_allVars
  PROVE  FetchInv'
<1>0. PlacesTyped
  BY DEF CameraTyped
<1>1. CASE UNCHANGED allVars
  BY <1>1, FetchUnchanged DEF allVars, vars
<1>2. CASE TapOk
  BY <1>2, UserTypes, FetchUnchanged DEF TapOk
<1>3. ASSUME NEW place \in Reads, ReadFails(place)
      PROVE  FetchInv'
  BY <1>0, <1>3, GivesUpEnds DEF ReadFails, FetchInv
<1>4. CASE FetchSteps
  BY <1>0, <1>3, <1>4, SessionBegins, GetAsked, AcksSkipped, PetitionAnswered, DatasetAnswered,
     FetchEnds
     DEF FetchSteps
<1>5. CASE CommissionerNext
  BY <1>0, <1>2, <1>4, <1>5, Steps, OutsideFetch, SessionBegins, Outside
<1>. QED
  BY <1>1, <1>5

LEMMA SessionTypes ==
  ASSUME SessionTyped, [CommissionerNext]_allVars
  PROVE  SessionTyped'
<1>1. CASE UNCHANGED session
  BY <1>1 DEF session, SessionTyped
<1>2. CASE RouterAnswers
  <2>1. PetitionAnswers \cup GetAnswers \cup {"reject", "petition_ack", "get_ack"} \subseteq Datagrams
    BY DEF Datagrams, PetitionAnswers, GetAnswers, Acks
  <2>2. PICK m \in PetitionAnswers \cup GetAnswers \cup {"reject"},
             ack \in SUBSET {IF request = "petition" THEN "petition_ack" ELSE "get_ack"} :
               sent' = sent \cup {m} /\ air' = air \cup {m} \cup ack
    BY <1>2 DEF RouterAnswers
  <2>. QED
    BY <1>2, <2>1, <2>2 DEF RouterAnswers, SessionTyped
<1>3. CASE NetworkLoses
  BY <1>3 DEF NetworkLoses, SessionTyped
<1>4. CASE Connects \/ Handshakes \/ Petition \/ ActiveGet
  <2>1. lastError' \in Errors
    BY <1>4 DEF Connects, Handshakes, Petition, ActiveGet, Posts, GivesUp, SessionTyped, Errors
  <2>2. UNCHANGED <<air, sent, broken, dataset>>
    BY <1>4 DEF Connects, Handshakes, Petition, ActiveGet, Posts
  <2>3. /\ request' = request \/ request' \in {"petition", "get"}
        /\ tries' = tries \/ tries' = 0
    BY <1>4 DEF Connects, Handshakes, Petition, ActiveGet, Posts
  <2>. QED
    BY <2>1, <2>2, <2>3 DEF SessionTyped
<1>5. CASE \E place \in Reads : Skips(place) \/ ReadFails(place)
  <2>1. lastError' \in Errors
    BY <1>5 DEF Skips, ReadFails, GivesUp, SessionTyped, Errors
  <2>2. UNCHANGED <<request, sent, dataset>> /\ air' \subseteq air /\ (broken' = broken \/ broken' = TRUE)
    BY <1>5 DEF Skips, ReadFails
  <2>3. tries' = tries + 1 \/ tries' = tries
    BY <1>5 DEF Skips, ReadFails
  <2>4. tries' \in Nat
    BY <2>3 DEF SessionTyped
  <2>. QED
    BY <2>1, <2>2, <2>4 DEF SessionTyped
<1>6. CASE ReadPetition
  BY <1>6 DEF ReadPetition, Takes, GivesUp, SessionTyped, Errors
<1>7. CASE ReadDataset
  BY <1>7 DEF ReadDataset, Takes, GivesUp, SessionTyped, Errors
<1>8. CASE Closes
  BY <1>8 DEF Closes, SessionTyped, Errors
<1>9. CASE FetchSteps
  BY <1>1, <1>4, <1>5, <1>6, <1>7, <1>8, <1>9 DEF FetchSteps, FetchFailed, Applies, Attaches
<1>10. CASE CommissionerNext
  BY <1>1, <1>2, <1>3, <1>9, <1>10, Steps DEF TapOk, FetchBegins
<1>. QED
  BY <1>1, <1>10 DEF allVars

\* When the router answers once, what is handed to OpenThread as a dataset is its answer
\* to that request, it is said to have rejected or declined only if it did, and to be
\* silent only if the connection broke -- whatever acknowledgements come or are lost.
THEOREM OutcomesAreTrue == ASSUME ~Repeats PROVE CommissionerSpec => []OutcomeIsTrue
<1>1. CommissionerInit => SessionTyped /\ FetchInv
  <2>1. ASSUME CommissionerInit
        PROVE  /\ at["worker"] = "idle" /\ request = "none" /\ air = {} /\ sent = {} /\ tries = 0
               /\ lastError = "" /\ dataset = "none" /\ broken = FALSE
    BY <2>1 DEF CommissionerInit, Init, Tasks
  <2>. QED
    <3>1. ASSUME CommissionerInit PROVE SessionTyped
      <4>0. tries = 0
        BY <2>1, <3>1
      <4>1. tries \in Nat
        BY <4>0
      <4>2. /\ request \in {"none", "petition", "get"} /\ lastError \in Errors
            /\ dataset \in Datagrams \cup {"none"} /\ broken \in BOOLEAN
        BY <2>1, <3>1 DEF Errors
      <4>. QED
        BY <2>1, <3>1, <4>1, <4>2 DEF SessionTyped
    <3>2. ASSUME CommissionerInit PROVE FetchInv
      BY <2>1, <3>2 DEF FetchInv, SessionInv, OutcomeIsTrue, InSession
    <3>. QED
      BY <3>1, <3>2
<1>2. CameraTyped /\ SessionTyped /\ FetchInv /\ [CommissionerNext]_allVars => SessionTyped' /\ FetchInv'
  BY SessionTypes, FetchInvStep
<1>3. FetchInv => OutcomeIsTrue
  BY DEF FetchInv
<1>. QED
  BY <1>1, <1>2, <1>3, CameraAlways, PTL DEF CommissionerSpec
=============================================================================
