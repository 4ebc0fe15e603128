--------------------------- MODULE UiWorkerProofs ---------------------------
(***************************************************************************)
(* For any number of callers and slots: ui_run_on_worker runs a function   *)
(* only while its caller waits for it, and once; operations of the screen  *)
(* run one at a time; and for any number of share requests, a key the user *)
(* closed is not forgotten, nor a newer one ended by a late stop.          *)
(***************************************************************************)
EXTENDS UiWorker, Integers, TLAPS

Calls == {Call(c) : c \in Callers}

Jobs ==
  Calls \cup
  [type : {"share", "share_stop", "camtest", "ui", "control", "none"}, id : Int, caller : {None}]

Progress == {"run", "start", "started", "failed", "cancel", "hide", "show", "end", "stop", "give"}

UiOperations == {j \in Jobs : IsUiJob(j)}

\* Where jobs of a set are: slots of the queue, and 0 for the worker's hands.
Positions(S) ==
  {i \in DOMAIN queue : queue[i] \in S} \cup IF work.job \in S THEN {0} ELSE {}

Alone(S) == \A i, j \in Positions(S) : i = j

JobsTyped ==
  /\ queue \in Seq(Jobs)
  /\ work \in [job : Jobs, step : Progress]
  /\ requestId \in Int /\ test \in Int

CallersTyped ==
  /\ at \in [Callers -> {"idle", "lock", "locked", "sent", "test"}] /\ ran \in [Callers -> Nat]

-----------------------------------------------------------------------------
(* Jobs come in at the end of the queue, go to the worker and are done. *)

LEMMA JobKinds ==
  /\ \A id \in Int : Share(id) \in Jobs /\ ShareStop(id) \in Jobs /\ Camtest(id) \in Jobs
  /\ Ui \in Jobs /\ Control \in Jobs /\ NoJob \in Jobs
  /\ \A c \in Callers : Call(c) \in Jobs
BY DEF Jobs, Calls, Job, Share, ShareStop, Camtest, Ui, Control, NoJob, Call

LEMMA Appended ==
  ASSUME JobsTyped, NEW S, NEW j \in Jobs, queue' = Append(queue, j), work'.job = work.job
  PROVE  /\ queue' \in Seq(Jobs)
         /\ j \notin S => Positions(S)' = Positions(S)
         /\ j \in S => Positions(S)' = Positions(S) \cup {Len(queue) + 1}
<1>1. /\ queue \in Seq(Jobs) /\ Len(queue) \in Nat /\ DOMAIN queue = 1..Len(queue)
      /\ DOMAIN queue' = 1..(Len(queue) + 1)
      /\ \A i \in 1..Len(queue) : queue'[i] = queue[i]
      /\ queue'[Len(queue) + 1] = j /\ queue' \in Seq(Jobs)
  BY DEF JobsTyped
<1>2. CASE j \notin S
  BY <1>1, <1>2 DEF Positions
<1>3. CASE j \in S
  BY <1>1, <1>3 DEF Positions
<1>. QED
  BY <1>1, <1>2, <1>3

LEMMA Received ==
  ASSUME JobsTyped, NEW S, Receive, NoJob \notin S
  PROVE  /\ (Positions(S) = {}) <=> (Positions(S)' = {})
         /\ Alone(S) => Alone(S)'
<1>1. /\ queue \in Seq(Jobs) /\ queue # <<>> /\ Len(queue) \in Nat
      /\ DOMAIN queue = 1..Len(queue)
      /\ DOMAIN queue' = 1..(Len(queue) - 1)
      /\ \A i \in 1..(Len(queue) - 1) : queue'[i] = queue[i + 1]
      /\ work'.job = queue[1] /\ work.job = NoJob
  BY DEF JobsTyped, Receive, Resting
<1>2. \A i \in Int : i \in Positions(S)' <=> i + 1 \in Positions(S)
  BY <1>1 DEF Positions
<1>3. Positions(S) \subseteq Int /\ Positions(S)' \subseteq Int
  BY <1>1 DEF Positions
<1>4. \A i \in Positions(S) : i - 1 \in Positions(S)'
  BY <1>2, <1>3
<1>. QED
  BY <1>2, <1>3, <1>4 DEF Alone

LEMMA Ended ==
  ASSUME NEW S, UNCHANGED queue, work' = Resting, NoJob \notin S
  PROVE  /\ work.job \notin S => Positions(S)' = Positions(S)
         /\ work.job \in S /\ Alone(S) /\ JobsTyped => Positions(S)' = {}
<1>1. Positions(S)' = {i \in DOMAIN queue : queue[i] \in S}
  BY DEF Positions, Resting
<1>2. ASSUME work.job \in S, Alone(S), JobsTyped, NEW i \in DOMAIN queue, queue[i] \in S
      PROVE FALSE
  <2>1. 0 \in Positions(S) /\ i \in Positions(S)
    BY <1>2 DEF Positions
  <2>2. i # 0
    BY <1>2 DEF JobsTyped
  <2>. QED
    BY <1>2, <2>1, <2>2 DEF Alone
<1>. QED
  BY <1>1, <1>2 DEF Positions

LEMMA Untouched ==
  ASSUME NEW S, UNCHANGED queue, work'.job = work.job
  PROVE  Positions(S)' = Positions(S)
BY DEF Positions

-----------------------------------------------------------------------------
(* The steps, by what they do with jobs. *)

\* Nothing comes in, and the worker is on the same job.
KeepsJobs == UNCHANGED queue /\ work'.job = work.job /\ work'.step \in Progress
\* A job that is neither a call nor an operation of the screen comes in.
AddsOther == \E j \in Jobs \ (Calls \cup UiOperations) : Send(j) /\ UNCHANGED work
\* The worker is done with a job that is not a call.
EndsOther == UNCHANGED queue /\ EndJob /\ work.job \notin Calls

\* The steps of the worker on jobs that are not calls.
OtherJobs ==
  RunOperation \/ RunCamtest \/ ShareReplaces \/ ShareStarts \/ ShareDecides \/ ShareCancels
  \/ ShareShows \/ StopIsCurrent \/ StopKey

LEMMA OtherJobsStep ==
  ASSUME JobsTyped, OtherJobs
  PROVE  /\ EndsOther \/ (KeepsJobs /\ work.job \notin Calls /\ UNCHANGED busy)
         /\ UNCHANGED <<callVars, requestId, test, lvgl>>
<1>1. \A c \in Calls : c.type = "call"
  BY DEF Calls, Call, Job
<1>2. ASSUME NEW s \in {"start", "started", "failed", "cancel", "hide", "show", "end", "stop"},
             GoOn(s)
      PROVE work'.job = work.job /\ work'.step \in Progress
  BY <1>2 DEF GoOn, JobsTyped, Progress
<1>3. CASE RunOperation \/ RunCamtest \/ StopKey
  BY <1>1, <1>3
  DEF RunOperation, RunCamtest, StopKey, On, EndsOther, testVars, shareVars
<1>4. CASE ShareReplaces \/ ShareStarts \/ ShareCancels \/ ShareShows
  <2>1. work.job \notin Calls /\ UNCHANGED <<queue, busy, callVars, requestId, test, lvgl>>
    BY <1>1, <1>4
    DEF ShareReplaces, ShareStarts, ShareCancels, ShareShows, On, testVars, shareVars
  <2>2. GoOn("start") \/ GoOn("started") \/ GoOn("failed") \/ GoOn("hide") \/ GoOn("end")
    BY <1>4, Zenon DEF ShareReplaces, ShareStarts, ShareCancels, ShareShows
  <2>3. work'.job = work.job /\ work'.step \in Progress
    BY <1>2, <2>2
  <2>. QED
    BY <2>1, <2>3 DEF KeepsJobs
<1>5. CASE ShareDecides
  <2>1. work.job \notin Calls /\ UNCHANGED <<queue, busy, callVars, requestId, test, lvgl>>
    BY <1>1, <1>5 DEF ShareDecides, On, testVars, shareVars
  <2>2. GoOn("cancel") \/ GoOn("hide") \/ GoOn("show") \/ GoOn("end")
    BY <1>5 DEF ShareDecides
  <2>3. work'.job = work.job /\ work'.step \in Progress
    BY <1>2, <2>2
  <2>. QED
    BY <2>1, <2>3 DEF KeepsJobs
<1>6. CASE StopIsCurrent
  <2>1. work.job \notin Calls /\ UNCHANGED <<queue, callVars, requestId, test, lvgl>>
    BY <1>1, <1>6 DEF StopIsCurrent, On, testVars
  <2>2. (GoOn("stop") /\ UNCHANGED busy) \/ EndJob
    BY <1>6, Zenon DEF StopIsCurrent
  <2>3. GoOn("stop") => work'.job = work.job /\ work'.step \in Progress
    BY <1>2
  <2>. QED
    BY <2>1, <2>2, <2>3 DEF EndsOther, KeepsJobs
<1>. QED
  BY <1>3, <1>4, <1>5, <1>6, Zenon DEF OtherJobs

\* Steps of the screen, of the camera test and of others that queue no UI operation.
Bystanders ==
  SendControl \/ TestCamera \/ TestFinished \/ TestTimeout \/ OpenShare \/ OpenShareBusy
  \/ ShareRefused \/ CloseShare \/ SendStop \/ RetryStop \/ ShareTick \/ KeyEnds

\* The console's own place changes, but not in or out of a call.
CallsKept ==
  /\ UNCHANGED <<lock, callDone, ran>>
  /\ at' = at \/ (at[Console] = "idle" /\ at' = [at EXCEPT ![Console] = "test"])
              \/ (at[Console] = "test" /\ at' = [at EXCEPT ![Console] = "idle"])

LEMMA OtherKinds ==
  /\ \A id \in Int : ShareStop(id) \in Jobs \ (Calls \cup UiOperations)
  /\ \A id \in Int : Camtest(id) \in Jobs \ (Calls \cup UiOperations)
  /\ Control \in Jobs \ (Calls \cup UiOperations)
  /\ NoJob \notin Calls \cup UiOperations
  /\ \A c \in Callers : Call(c) \in Calls /\ Call(c) \notin UiOperations
  /\ \A id \in Int : Share(id) \in UiOperations /\ Share(id) \notin Calls
  /\ Ui \in UiOperations /\ Ui \notin Calls
BY JobKinds
DEF Calls, UiOperations, IsUiJob, Job, Share, ShareStop, Camtest, Ui, Control, NoJob, Call

LEMMA BystandersStep ==
  ASSUME JobsTyped, Bystanders
  PROVE  /\ AddsOther \/ KeepsJobs
         /\ CallsKept /\ UNCHANGED <<work, busy>>
         /\ requestId' \in Int /\ test' \in Int
         /\ lvgl' = lvgl \/ lvgl' \in {"idle", "closing"} \/ (lvgl' = "opening" /\ ~busy)
<1>. USE DEF JobsTyped, CallsKept, callVars, testVars, shareVars
<1>0. work.step \in Progress
  OBVIOUS
<1>1. CASE SendControl
  BY <1>1, OtherKinds DEF SendControl, AddsOther
<1>2. CASE TestCamera
  BY <1>2, OtherKinds DEF TestCamera, AddsOther
<1>3. CASE TestFinished \/ TestTimeout
  BY <1>0, <1>3 DEF TestFinished, TestTimeout, KeepsJobs
<1>4. CASE OpenShare \/ OpenShareBusy \/ ShareRefused \/ CloseShare \/ ShareTick \/ KeyEnds
  BY <1>0, <1>4
  DEF OpenShare, OpenShareBusy, ShareRefused, CloseShare, ShareTick, KeyEnds, KeepsJobs
<1>5. CASE SendStop \/ RetryStop
  BY <1>0, <1>5, OtherKinds DEF SendStop, RetryStop, KeepsJobs, AddsOther
<1>. QED
  BY <1>1, <1>2, <1>3, <1>4, <1>5 DEF Bystanders

\* Every step is of one of these kinds.
LEMMA Steps ==
  ASSUME [Next]_vars
  PROVE  \/ \E c \in Callers : Caller(c)
         \/ TapOperation \/ SendShare
         \/ Bystanders
         \/ Receive \/ RunCall \/ GiveCompletion
         \/ OtherJobs
         \/ UNCHANGED vars
BY Zenon DEF Next, CameraTest, Screen, Worker, Bystanders, OtherJobs

\* A caller's own steps; the worker's on a call.
CallerKeeps(c) == Enter(c) \/ LockTimeout(c) \/ Lock(c) \/ SendTimeout(c) \/ Complete(c)

LEMMA CallerStep ==
  ASSUME JobsTyped, NEW c \in Callers, Caller(c)
  PROVE  /\ UNCHANGED <<work, busy, requestId, test, lvgl>>
         /\ (SendCall(c) /\ queue' = Append(queue, Call(c))) \/ (CallerKeeps(c) /\ UNCHANGED queue)
<1>1. CASE SendCall(c)
  BY <1>1 DEF SendCall, Send, testVars, shareVars
<1>2. CASE CallerKeeps(c)
  BY <1>2
  DEF CallerKeeps, Enter, LockTimeout, Lock, SendTimeout, Complete, testVars, shareVars
<1>. QED
  BY <1>1, <1>2 DEF Caller, CallerKeeps

LEMMA RunCallStep ==
  ASSUME JobsTyped, RunCall
  PROVE  /\ work.job \in Calls /\ KeepsJobs /\ work'.step = "give" /\ work.step = "run"
         /\ ran' = [ran EXCEPT ![work.job.caller] = @ + 1]
         /\ UNCHANGED <<busy, at, lock, callDone, requestId, test, lvgl>>
<1>1. work.job \in Jobs /\ work.job.type = "call" /\ work.step = "run"
  BY DEF RunCall, On, JobsTyped
<1>2. work.job \in Calls
  BY <1>1 DEF Jobs
<1>3. work'.job = work.job /\ work'.step = "give"
  BY DEF RunCall, GoOn, JobsTyped
<1>. QED
  BY <1>1, <1>2, <1>3 DEF RunCall, KeepsJobs, Progress, testVars, shareVars

LEMMA GiveStep ==
  ASSUME JobsTyped, GiveCompletion
  PROVE  /\ work.job \in Calls /\ ~IsUiJob(work.job) /\ work.step = "give"
         /\ UNCHANGED queue /\ EndJob /\ callDone' = TRUE
         /\ UNCHANGED <<at, lock, ran, requestId, test, lvgl>>
<1>1. work.job \in Jobs /\ work.job.type = "call"
  BY DEF GiveCompletion, On, JobsTyped
<1>2. work.job \in Calls
  BY <1>1 DEF Jobs
<1>. QED
  BY <1>1, <1>2 DEF GiveCompletion, On, IsUiJob, testVars, shareVars

LEMMA RestingTyped == Resting \in [job : Jobs, step : Progress]
BY JobKinds DEF Resting, Progress

\* Only jobs of the known kinds are ever queued and taken.
LEMMA JobsStep == ASSUME JobsTyped, [Next]_vars PROVE JobsTyped'
<1>0. ASSUME KeepsJobs, requestId' \in Int, test' \in Int, work' \in [job : Jobs, step : Progress]
      PROVE JobsTyped'
  BY <1>0 DEF KeepsJobs, JobsTyped
<1>1. ASSUME NEW j \in Jobs, queue' = Append(queue, j), UNCHANGED work,
             requestId' \in Int, test' \in Int
      PROVE JobsTyped'
  BY <1>1 DEF JobsTyped
<1>2. ASSUME UNCHANGED <<queue, work>>, requestId' \in Int, test' \in Int PROVE JobsTyped'
  BY <1>2 DEF JobsTyped
<1>3. ASSUME UNCHANGED queue, work' = Resting, requestId' \in Int, test' \in Int PROVE JobsTyped'
  BY <1>3, RestingTyped DEF JobsTyped
<1>4. requestId \in Int /\ test \in Int
  BY DEF JobsTyped
<1>5. ASSUME NEW c \in Callers, Caller(c) PROVE JobsTyped'
  BY <1>1, <1>2, <1>4, <1>5, CallerStep, JobKinds
<1>6. CASE TapOperation
  BY <1>1, <1>2, <1>4, <1>6, JobKinds DEF TapOperation, QueueUiJob, testVars, shareVars
<1>7. CASE SendShare
  BY <1>1, <1>2, <1>4, <1>7, JobKinds DEF SendShare, QueueUiJob, testVars
<1>8. CASE Bystanders
  BY <1>1, <1>2, <1>8, BystandersStep DEF AddsOther, Send, KeepsJobs
<1>9. CASE Receive
  <2>1. Head(queue) \in Jobs /\ Tail(queue) \in Seq(Jobs)
    BY <1>9 DEF Receive, JobsTyped
  <2>2. work' \in [job : Jobs, step : Progress]
    BY <1>9, <2>1 DEF Receive, Progress
  <2>. QED
    BY <1>9, <2>1, <2>2 DEF Receive, JobsTyped, testVars, shareVars
<1>10. ASSUME UNCHANGED queue, \/ EndJob
                               \/ \E s \in Progress : GoOn(s),
              requestId' \in Int, test' \in Int
       PROVE JobsTyped'
  BY <1>3, <1>10 DEF EndJob, GoOn, JobsTyped
<1>11. CASE RunCall
  <2>1. GoOn("give") /\ UNCHANGED queue
    BY <1>11 DEF RunCall
  <2>. QED
    BY <1>4, <1>10, <1>11, <2>1, RunCallStep DEF Progress
<1>12. CASE GiveCompletion
  BY <1>4, <1>10, <1>12, GiveStep
<1>13. CASE OtherJobs
  <2>1. UNCHANGED <<queue, requestId, test>>
    BY <1>13, OtherJobsStep DEF EndsOther, KeepsJobs
  <2>2. EndJob \/ GoOn("start") \/ GoOn("started") \/ GoOn("failed") \/ GoOn("cancel")
        \/ GoOn("hide") \/ GoOn("show") \/ GoOn("end") \/ GoOn("stop")
    BY <1>13
    DEF OtherJobs, RunOperation, RunCamtest, ShareReplaces, ShareStarts, ShareDecides,
        ShareCancels, ShareShows, StopIsCurrent, StopKey
  <2>3. EndJob \/ \E s \in Progress : GoOn(s)
    BY <2>2 DEF Progress
  <2>. QED
    BY <1>4, <1>10, <2>1, <2>3
<1>14. CASE UNCHANGED vars
  BY <1>2, <1>4, <1>14 DEF vars, testVars, shareVars
<1>. QED
  BY <1>5, <1>6, <1>7, <1>8, <1>9, <1>11, <1>12, <1>13, <1>14, Steps

-----------------------------------------------------------------------------
(* Operations of the screen. *)

\* Between begin_share's look at s_ui_job_busy and the job it queues nobody else sets it:
\* only the LVGL task does.
UiInv ==
  /\ Alone(UiOperations)
  /\ busy <=> Positions(UiOperations) # {}
  /\ lvgl = "opening" => ~busy

LEMMA UiStep == ASSUME JobsTyped, UiInv, [Next]_vars PROVE UiInv'
<1>. DEFINE S == UiOperations
<1>1. ASSUME Positions(S)' = Positions(S), busy' <=> busy,
             lvgl' # "opening" \/ lvgl' = lvgl \/ ~busy
      PROVE UiInv'
  BY <1>1 DEF UiInv, Alone
<1>2. ASSUME NEW j \in Jobs, j \notin S, queue' = Append(queue, j), UNCHANGED work
      PROVE Positions(S)' = Positions(S)
  BY <1>2, Appended
<1>3. ASSUME KeepsJobs PROVE Positions(S)' = Positions(S)
  BY <1>3, Untouched DEF KeepsJobs
<1>4. ASSUME NEW c \in Callers, Caller(c) PROVE UiInv'
  <2>1. CASE queue' = Append(queue, Call(c)) /\ UNCHANGED work
    BY <1>1, <1>2, <1>4, <2>1, CallerStep, JobKinds, OtherKinds
  <2>2. CASE UNCHANGED <<queue, work>>
    BY <1>1, <1>4, <2>2, CallerStep, Untouched
  <2>. QED
    BY <1>4, <2>1, <2>2, CallerStep
<1>5. ASSUME NEW j \in S, QueueUiJob(j), ~busy, UNCHANGED work, lvgl' # "opening" PROVE UiInv'
  <2>1. Positions(S) = {}
    BY <1>5 DEF UiInv
  <2>2. CASE HasRoom
    <3>1. j \in Jobs /\ queue' = Append(queue, j) /\ busy' = TRUE
      BY <1>5, <2>2 DEF QueueUiJob, UiOperations
    <3>2. Positions(S)' = {Len(queue) + 1}
      BY <1>5, <2>1, <3>1, Appended
    <3>. QED
      BY <1>5, <3>1, <3>2 DEF UiInv, Alone
  <2>3. CASE ~HasRoom
    <3>1. UNCHANGED queue
      BY <1>5, <2>3 DEF QueueUiJob
    <3>2. ~busy'
      BY <1>5, <2>3, Zenon DEF QueueUiJob
    <3>3. Positions(S)' = {}
      BY <1>5, <2>1, <3>1, Untouched
    <3>. QED
      BY <1>5, <3>2, <3>3 DEF UiInv, Alone
  <2>. QED
    BY <2>2, <2>3
<1>6. CASE TapOperation
  BY <1>5, <1>6, OtherKinds DEF TapOperation, shareVars
<1>7. CASE SendShare
  <2>1. Share(requestId) \in S
    BY OtherKinds DEF JobsTyped
  <2>2. ~busy /\ QueueUiJob(Share(requestId)) /\ UNCHANGED work /\ lvgl' # "opening"
    BY <1>7 DEF SendShare, UiInv
  <2>. QED
    BY <1>5, <2>1, <2>2
<1>8. CASE Bystanders
  <2>1. Positions(S)' = Positions(S)
    BY <1>2, <1>3, <1>8, BystandersStep DEF AddsOther, Send
  <2>. QED
    BY <1>1, <1>8, <2>1, BystandersStep
<1>9. CASE Receive
  <2>1. UNCHANGED <<busy, lvgl>>
    BY <1>9 DEF Receive, shareVars
  <2>. QED
    BY <1>9, <2>1, Received, OtherKinds DEF UiInv
<1>10. CASE RunCall
  BY <1>1, <1>3, <1>10, RunCallStep
<1>11. ASSUME UNCHANGED <<queue, lvgl>>, EndJob PROVE UiInv'
  <2>0. NoJob \notin S /\ work.job \in Jobs
    BY OtherKinds DEF JobsTyped
  <2>1. CASE work.job \in S
    <3>1. Positions(S)' = {}
      BY <1>11, <2>0, <2>1, Ended DEF EndJob, UiInv
    <3>2. busy' = FALSE
      BY <1>11, <2>1 DEF EndJob, UiOperations
    <3>. QED
      BY <3>1, <3>2 DEF UiInv, Alone
  <2>2. CASE work.job \notin S
    <3>1. Positions(S)' = Positions(S)
      BY <1>11, <2>0, <2>2, Ended DEF EndJob
    <3>2. busy' <=> busy
      BY <1>11, <2>0, <2>2 DEF EndJob, UiOperations
    <3>. QED
      BY <1>1, <1>11, <3>1, <3>2
  <2>. QED
    BY <2>1, <2>2
<1>12. CASE GiveCompletion
  BY <1>11, <1>12, GiveStep
<1>13. CASE OtherJobs
  <2>1. CASE EndsOther
    BY <1>11, <1>13, <2>1, OtherJobsStep DEF EndsOther
  <2>2. CASE KeepsJobs /\ UNCHANGED busy
    BY <1>1, <1>3, <1>13, <2>2, OtherJobsStep
  <2>. QED
    BY <1>13, <2>1, <2>2, OtherJobsStep
<1>14. CASE UNCHANGED vars
  BY <1>1, <1>14, Untouched DEF vars, shareVars
<1>. QED
  BY <1>4, <1>6, <1>7, <1>8, <1>9, <1>10, <1>12, <1>13, <1>14, Steps

-----------------------------------------------------------------------------
(* Calls. *)

Given(c) == work.job = Call(c) /\ work.step = "give"

Serialised == \A c \in Callers : at[c] \in {"locked", "sent"} <=> lock = c

\* ArgumentAlive, by positions.
Alive == \A c \in Callers : Positions({Call(c)}) # {} => at[c] = "sent"

\* A completion is given after the only call has left the worker.
OneCall == Alone(Calls) /\ (callDone => Positions(Calls) = {})

CleanLock == \A c \in Callers : at[c] = "locked" => ~callDone

RanRight ==
  \A c \in Callers :
    /\ at[c] \in {"lock", "locked"} => ran[c] = 0
    /\ at[c] = "sent" => ran[c] = IF callDone \/ Given(c) THEN 1 ELSE 0

CallInv == CallersTyped /\ Serialised /\ Alive /\ OneCall /\ CleanLock /\ RanRight

LEMMA CallsSplit ==
  /\ Positions(Calls) = {} <=> \A c \in Callers : Positions({Call(c)}) = {}
  /\ Positions(Calls)' = {} <=> \A c \in Callers : Positions({Call(c)})' = {}
  /\ \A c \in Callers : Given(c) => Positions({Call(c)}) # {}
  /\ \A c, d \in Callers : Call(c) = Call(d) => c = d
<1>1. \A c, d \in Callers : Call(c) = Call(d) => c = d
  BY DEF Call, Job
<1>2. /\ Positions(Calls) = {} <=> \A c \in Callers : Positions({Call(c)}) = {}
      /\ Positions(Calls)' = {} <=> \A c \in Callers : Positions({Call(c)})' = {}
  BY DEF Positions, Calls
<1>3. \A c \in Callers : Given(c) => Positions({Call(c)}) # {}
  BY DEF Given, Positions
<1>. QED
  BY <1>1, <1>2, <1>3

\* No call comes in and the worker neither takes, runs nor answers one.
CallsStay ==
  /\ \A c \in Callers : Positions({Call(c)}) = {} => Positions({Call(c)})' = {}
  /\ Alone(Calls) => Alone(Calls)'
  /\ \A c \in Callers : Given(c)' <=> Given(c)

LEMMA CallsKeptStep == ASSUME CallInv, CallsKept, CallsStay PROVE CallInv'
<1>1. ASSUME NEW c \in Callers
      PROVE \/ at'[c] = at[c]
            \/ at[c] \in {"idle", "test"} /\ at'[c] \in {"idle", "test"}
  BY <1>1 DEF CallsKept, CallInv, CallersTyped
<1>2. CallersTyped'
  BY DEF CallsKept, CallInv, CallersTyped
<1>3. OneCall'
  <2>1. Positions(Calls) = {} => Positions(Calls)' = {}
    BY CallsSplit DEF CallsStay
  <2>. QED
    BY <2>1 DEF CallsKept, CallInv, OneCall, CallsStay
<1>4. Alive'
  BY <1>1 DEF CallInv, Alive, CallsStay
<1>5. Serialised' /\ CleanLock'
  BY <1>1 DEF CallsKept, CallInv, Serialised, CleanLock
<1>6. RanRight'
  BY <1>1 DEF CallsKept, CallInv, RanRight, CallsStay
<1>. QED
  BY <1>2, <1>3, <1>4, <1>5, <1>6 DEF CallInv

\* The positions of calls stay where nothing is queued, or no call.
LEMMA StayCases ==
  ASSUME JobsTyped,
         \/ UNCHANGED <<queue, work>>
         \/ KeepsJobs /\ work.job \notin Calls
         \/ AddsOther
         \/ EndsOther
  PROVE  CallsStay
<1>0. NoJob \notin Calls /\ \A c \in Callers : Call(c) \in Calls
  BY OtherKinds
<1>1. ASSUME Positions(Calls)' = Positions(Calls),
             \A c \in Callers : Positions({Call(c)})' = Positions({Call(c)}),
             \/ UNCHANGED work
             \/ work.job \notin Calls /\ work'.job \notin Calls
      PROVE CallsStay
  BY <1>0, <1>1 DEF CallsStay, Alone, Given
<1>2. CASE UNCHANGED <<queue, work>>
  BY <1>1, <1>2, Untouched
<1>3. CASE KeepsJobs /\ work.job \notin Calls
  BY <1>1, <1>3, Untouched DEF KeepsJobs
<1>4. CASE AddsOther
  <2>1. PICK j \in Jobs : j \notin Calls /\ queue' = Append(queue, j) /\ UNCHANGED work
    BY <1>4 DEF AddsOther, Send
  <2>2. Positions(Calls)' = Positions(Calls)
    BY <2>1, Appended
  <2>3. \A c \in Callers : Positions({Call(c)})' = Positions({Call(c)})
    BY <1>0, <2>1, Appended
  <2>. QED
    BY <1>1, <2>1, <2>2, <2>3
<1>5. CASE EndsOther
  <2>1. UNCHANGED queue /\ work' = Resting /\ work.job \notin Calls /\ work'.job = NoJob
    BY <1>5 DEF EndsOther, EndJob, Resting
  <2>2. Positions(Calls)' = Positions(Calls)
    BY <1>0, <2>1, Ended
  <2>3. \A c \in Callers : Positions({Call(c)})' = Positions({Call(c)})
    BY <1>0, <2>1, Ended
  <2>. QED
    BY <1>0, <1>1, <2>1, <2>2, <2>3
<1>. QED
  BY <1>2, <1>3, <1>4, <1>5

\* ui_run_on_worker.
LEMMA CallerCallStep ==
  ASSUME JobsTyped, CallInv, NEW c \in Callers, Caller(c) PROVE CallInv'
<1>. USE DEF CallInv, CallersTyped
<1>0. c # None
  BY UiWorkerAssumption
<1>1. CASE SendCall(c)
  <2>1. /\ at[c] = "locked" /\ queue' = Append(queue, Call(c)) /\ UNCHANGED work
        /\ at' = [at EXCEPT ![c] = "sent"] /\ UNCHANGED <<lock, callDone, ran>>
    BY <1>1 DEF SendCall, Send
  <2>2. \A d \in Callers : Positions({Call(d)}) = {}
    BY <2>1 DEF Alive, Serialised
  <2>3. Positions(Calls) = {}
    BY <2>2, CallsSplit
  <2>4. Positions(Calls)' = {Len(queue) + 1}
    BY <2>1, <2>3, Appended, JobKinds, OtherKinds
  <2>5. \A d \in Callers : d # c => Positions({Call(d)})' = {}
    <3>1. ASSUME NEW d \in Callers, d # c PROVE Positions({Call(d)})' = {}
      <4>1. Call(c) \notin {Call(d)} /\ Call(c) \in Jobs
        BY <3>1, CallsSplit, JobKinds
      <4>. QED
        BY <2>1, <2>2, <4>1, Appended
    <3>. QED
      BY <3>1
  <2>6. Alive'
    BY <2>1, <2>5 DEF Alive
  <2>7. OneCall'
    BY <2>1, <2>4 DEF OneCall, Alone, CleanLock
  <2>8. Serialised' /\ CleanLock'
    BY <2>1 DEF Serialised, CleanLock
  <2>9. \A d \in Callers : ~Given(d) /\ ~Given(d)'
    BY <2>1, <2>2, CallsSplit DEF Given
  <2>10. RanRight'
    BY <2>1, <2>9 DEF RanRight, CleanLock, Serialised
  <2>. QED
    BY <2>1, <2>6, <2>7, <2>8, <2>10
<1>2. CASE CallerKeeps(c)
  <2>1. UNCHANGED <<queue, work>>
    BY <1>2 DEF CallerKeeps, Enter, LockTimeout, Lock, SendTimeout, Complete
  <2>2. /\ Positions(Calls)' = Positions(Calls)
        /\ \A d \in Callers : Positions({Call(d)})' = Positions({Call(d)})
        /\ \A d \in Callers : Given(d)' <=> Given(d)
    BY <2>1, Untouched DEF Given
  <2>3. CASE Enter(c)
    BY <2>2, <2>3 DEF Enter, Serialised, Alive, OneCall, Alone, CleanLock, RanRight
  <2>4. CASE LockTimeout(c)
    BY <2>2, <2>4 DEF LockTimeout, Serialised, Alive, OneCall, Alone, CleanLock, RanRight
  <2>5. CASE Lock(c)
    BY <1>0, <2>2, <2>5, UiWorkerAssumption
    DEF Lock, Serialised, Alive, OneCall, Alone, CleanLock, RanRight
  <2>6. CASE SendTimeout(c)
    BY <1>0, <2>2, <2>6, UiWorkerAssumption
    DEF SendTimeout, Serialised, Alive, OneCall, Alone, CleanLock, RanRight
  <2>7. CASE Complete(c)
    BY <1>0, <2>2, <2>7, UiWorkerAssumption, CallsSplit
    DEF Complete, Serialised, Alive, OneCall, Alone, CleanLock, RanRight
  <2>. QED
    BY <1>2, <2>3, <2>4, <2>5, <2>6, <2>7 DEF CallerKeeps
<1>. QED
  BY <1>1, <1>2, CallerStep

\* The worker takes a call, runs its function and tells the caller.
LEMMA WorkerCallStep ==
  ASSUME JobsTyped, CallInv, Receive \/ RunCall \/ GiveCompletion PROVE CallInv'
<1>1. CASE Receive
  <2>1. NoJob \notin Calls /\ \A c \in Callers : Call(c) # NoJob
    BY OtherKinds
  <2>2. \A c \in Callers : ~Given(c) /\ ~Given(c)'
    BY <1>1, <2>1 DEF Receive, Resting, Given
  <2>3. CallsStay
    BY <1>1, <2>1, <2>2, Received DEF CallsStay
  <2>. QED
    BY <1>1, <2>3, CallsKeptStep DEF Receive, callVars, CallsKept
<1>2. CASE RunCall \/ GiveCompletion
  <2>. USE DEF CallInv, CallersTyped
  <2>1. work.job \in Calls
    BY <1>2, RunCallStep, GiveStep
  <2>2. PICK c \in Callers : work.job = Call(c) /\ work.job.caller = c
    BY <2>1 DEF Calls, Call, Job
  <2>3. Positions({Call(c)}) # {} /\ Positions(Calls) # {}
    BY <2>1, <2>2 DEF Positions
  <2>4. at[c] = "sent" /\ lock = c /\ ~callDone
    BY <2>3 DEF Alive, Serialised, OneCall
  <2>5. \A d \in Callers : d # c => at[d] \notin {"locked", "sent"} /\ Call(d) # Call(c)
    BY <2>4, CallsSplit DEF Serialised
  <2>6. CASE RunCall
    <3>1. /\ KeepsJobs /\ work'.step = "give" /\ work.step = "run"
          /\ ran' = [ran EXCEPT ![c] = @ + 1] /\ UNCHANGED <<at, lock, callDone>>
      BY <2>2, <2>6, RunCallStep
    <3>2. /\ Positions(Calls)' = Positions(Calls)
          /\ \A d \in Callers : Positions({Call(d)})' = Positions({Call(d)})
      BY <3>1, Untouched DEF KeepsJobs
    <3>3. ran[c] = 0 /\ ran'[c] = 1 /\ Given(c)'
      BY <2>2, <2>4, <3>1 DEF RanRight, Given, KeepsJobs
    <3>4. RanRight'
      BY <2>5, <3>1, <3>3, <2>4 DEF RanRight
    <3>. QED
      BY <3>1, <3>2, <3>4 DEF Serialised, Alive, OneCall, Alone, CleanLock
  <2>7. CASE GiveCompletion
    <3>1. /\ work.step = "give" /\ UNCHANGED queue /\ work' = Resting
          /\ callDone' = TRUE /\ UNCHANGED <<at, lock, ran>>
      BY <2>7, GiveStep DEF EndJob
    <3>2. Positions(Calls)' = {}
      BY <2>1, <3>1, Ended, OtherKinds DEF OneCall
    <3>3. ran[c] = 1
      BY <2>2, <2>4, <3>1 DEF RanRight, Given
    <3>4. RanRight' /\ CleanLock' /\ Serialised'
      BY <2>4, <2>5, <3>1, <3>3 DEF RanRight, CleanLock, Serialised
    <3>5. Alive' /\ OneCall'
      BY <3>2, CallsSplit DEF Alive, OneCall, Alone
    <3>. QED
      BY <3>1, <3>4, <3>5
  <2>. QED
    BY <1>2, <2>6, <2>7
<1>. QED
  BY <1>1, <1>2

LEMMA CallStep == ASSUME JobsTyped, CallInv, [Next]_vars PROVE CallInv'
<1>1. ASSUME CallsKept, \/ UNCHANGED <<queue, work>>
                        \/ KeepsJobs /\ work.job \notin Calls
                        \/ AddsOther
                        \/ EndsOther
      PROVE CallInv'
  BY <1>1, StayCases, CallsKeptStep
<1>2. CASE \E c \in Callers : Caller(c)
  BY <1>2, CallerCallStep
<1>3. ASSUME NEW j \in Jobs, j \notin Calls, QueueUiJob(j), UNCHANGED <<work, callVars>>
      PROVE CallInv'
  <2>1. CallsKept
    BY <1>3 DEF callVars, CallsKept
  <2>2. CASE UNCHANGED queue
    BY <1>1, <1>3, <2>1, <2>2
  <2>3. CASE queue' = Append(queue, j)
    <3>1. /\ Positions(Calls)' = Positions(Calls)
          /\ \A c \in Callers : Positions({Call(c)})' = Positions({Call(c)})
      BY <1>3, <2>3, Appended, OtherKinds
    <3>2. CallsStay
      BY <1>3, <3>1 DEF CallsStay, Alone, Given
    <3>. QED
      BY <2>1, <3>2, CallsKeptStep
  <2>. QED
    BY <1>3, <2>2, <2>3 DEF QueueUiJob
<1>4. CASE TapOperation
  BY <1>3, <1>4, OtherKinds, JobKinds DEF TapOperation
<1>5. CASE SendShare
  BY <1>3, <1>5, OtherKinds, JobKinds DEF SendShare, JobsTyped
<1>6. CASE Bystanders
  BY <1>1, <1>6, BystandersStep DEF KeepsJobs
<1>7. CASE Receive \/ RunCall \/ GiveCompletion
  BY <1>7, WorkerCallStep
<1>8. CASE OtherJobs
  BY <1>1, <1>8, OtherJobsStep DEF CallsKept, callVars
<1>9. CASE UNCHANGED vars
  BY <1>1, <1>9 DEF vars, callVars, CallsKept
<1>. QED
  BY <1>2, <1>4, <1>5, <1>6, <1>7, <1>8, <1>9, Steps

-----------------------------------------------------------------------------
(* The theorems. *)

WorkerInv == JobsTyped /\ UiInv /\ CallInv

\* The invariant holds from power-on.
LEMMA WorkerInvAlways == Spec => []WorkerInv
<1>1. Init => WorkerInv
  <2>. SUFFICES ASSUME Init PROVE WorkerInv
    OBVIOUS
  <2>1. JobsTyped
    BY RestingTyped DEF Init, JobsTyped
  <2>2. Positions(UiOperations) = {} /\ Positions(Calls) = {}
    BY OtherKinds DEF Init, Positions, Resting
  <2>3. UiInv
    BY <2>2 DEF Init, UiInv, Alone
  <2>4. CallersTyped /\ Serialised /\ CleanLock /\ RanRight
    BY UiWorkerAssumption DEF Init, CallersTyped, Serialised, CleanLock, RanRight
  <2>5. Alive /\ OneCall
    BY <2>2, CallsSplit DEF Alive, OneCall, Alone
  <2>. QED
    BY <2>1, <2>3, <2>4, <2>5 DEF WorkerInv, CallInv
<1>2. WorkerInv /\ [Next]_vars => WorkerInv'
  BY JobsStep, UiStep, CallStep DEF WorkerInv
<1>. QED
  BY <1>1, <1>2, PTL DEF Spec

\* The screen's operations run one at a time, and s_ui_job_busy is set exactly while one
\* is in the queue or with the worker, whichever of them the full queue refuses.
THEOREM OperationsOneByOne == Spec => []OneUiOperation
<1>1. WorkerInv => OneUiOperation
  <2>. SUFFICES ASSUME WorkerInv PROVE OneUiOperation
    OBVIOUS
  <2>1. \A i \in DOMAIN queue : queue[i] \in Jobs
    BY DEF WorkerInv, JobsTyped
  <2>2. work.job \in Jobs
    BY DEF WorkerInv, JobsTyped
  <2>3. UiJobs = Positions(UiOperations)
    BY <2>1, <2>2 DEF UiJobs, Positions, UiOperations
  <2>. QED
    BY <2>3, Zenon DEF WorkerInv, UiInv, OneUiOperation, Alone
<1>. QED
  BY <1>1, WorkerInvAlways, PTL

\* The worker never runs a function of ui_run_on_worker whose caller has returned: the
\* argument is on that caller's stack.
THEOREM ArgumentStaysAlive == Spec => []ArgumentAlive
<1>1. WorkerInv => ArgumentAlive
  <2>. SUFFICES ASSUME WorkerInv, NEW c \in Callers, InFlight(Call(c)) PROVE at[c] = "sent"
    BY DEF ArgumentAlive
  <2>1. Positions({Call(c)}) # {}
    BY DEF InFlight, Positions
  <2>. QED
    BY <2>1 DEF WorkerInv, CallInv, Alive
<1>. QED
  BY <1>1, WorkerInvAlways, PTL

\* A call that answers TRUE has run its function once, by its own completion; one that
\* answers FALSE has not run it.
THEOREM CallsRunOnce == Spec => RanOnce
<1>1. ASSUME WorkerInv, [Next]_vars, NEW c \in Callers,
             at[c] # "idle", at'[c] = "idle", at[c] # "test"
      PROVE  ran[c] = IF at[c] = "sent" THEN 1 ELSE 0
  <2>. USE DEF WorkerInv, CallInv, CallersTyped
  <2>1. CASE UNCHANGED at
    BY <1>1, <2>1
  <2>2. CASE CallsKept
    BY <1>1, <2>2 DEF CallsKept
  <2>3. ASSUME NEW d \in Callers, Caller(d) PROVE ran[c] = IF at[c] = "sent" THEN 1 ELSE 0
    <3>1. CASE d = c
      BY <1>1, <2>3, <3>1
      DEF Caller, Enter, LockTimeout, Lock, SendCall, SendTimeout, Complete, RanRight
    <3>2. CASE d # c
      BY <1>1, <2>3, <3>2
      DEF Caller, Enter, LockTimeout, Lock, SendCall, SendTimeout, Complete
    <3>. QED
      BY <3>1, <3>2
  <2>4. CASE Bystanders
    BY <1>1, <2>2, <2>4, BystandersStep
  <2>5. CASE TapOperation \/ SendShare \/ Receive
    BY <2>1, <2>5 DEF TapOperation, SendShare, Receive, callVars
  <2>6. CASE RunCall \/ GiveCompletion
    BY <1>1, <2>1, <2>6, RunCallStep, GiveStep
  <2>7. CASE OtherJobs
    BY <1>1, <2>1, <2>7, OtherJobsStep DEF callVars
  <2>8. CASE UNCHANGED vars
    BY <2>1, <2>8 DEF vars, callVars
  <2>. QED
    BY <1>1, <2>3, <2>4, <2>5, <2>6, <2>7, <2>8, Steps
<1>2. WorkerInv /\ [Next]_vars =>
        [\A c \in Callers :
           at[c] # "idle" /\ at'[c] = "idle" /\ at[c] # "test" =>
             ran[c] = IF at[c] = "sent" THEN 1 ELSE 0]_vars
  BY <1>1
<1>. QED
  BY <1>2, WorkerInvAlways, PTL DEF Spec, RanOnce
-----------------------------------------------------------------------------
(* The request numbers of the share screen. *)

\* Request numbers.
Ids == Int

\* The number that stays current if the queue refuses the share being opened.
Settled == IF lvgl \in {"opening", "refused"} THEN requestId - 1 ELSE requestId

\* The request has been queued and its key is on its way, or active.
Wanted(k) == InFlight(Share(k)) \/ (key = k /\ k \in Shared)

\* The user closed the screen and no stop has been queued for it yet.
StopOwed == stopPending \/ lvgl = "closing" \/ (saved /\ lvgl \in {"opening", "refused"})

NumbersTyped ==
  /\ closed \in Int /\ key \in Int /\ stopPending \in BOOLEAN /\ saved \in BOOLEAN
  /\ lvgl \in {"idle", "opening", "refused", "closing"}
  /\ lvgl \in {"opening", "refused"} => ~stopPending
  /\ 0 <= closed /\ closed <= Settled

\* A stop in flight was published after the last close it is for, and no share has its number.
StopsAreOlder ==
  \A n \in Ids : InFlight(ShareStop(n)) => n <= Settled /\ n <= closed + 1 /\ ~Wanted(n)

\* Close took a new number, which no share has.
OwedIsLast == StopOwed => Settled = closed + 1 /\ \A k \in Ids : Wanted(k) => k <= closed

NumbersInv ==
  /\ NumbersTyped
  /\ \A k \in Ids : Wanted(k) => k <= Settled
  /\ StopsAreOlder
  /\ OwedIsLast
  /\ work.step = "stop" /\ key \in Shared => key <= closed

\* Something in flight will end the key: NoHiddenKey, seen also between the two halves of
\* begin_share.
QueuedShare == \E i \in DOMAIN queue : queue[i].type = "share"
Covered ==
  \/ StopOwed \/ QueuedShare \/ InFlight(ShareStop(Settled))
  \/ work.job.type = "share" /\ work.step \in {"run", "started", "cancel"}
  \/ work.step = "stop"

HiddenInv ==
  /\ closed = 0 \/ closed < Settled
  /\ work.job.type = "share" /\ work.step \in {"start", "failed", "hide"} => key = Off
  /\ work.job.type = "share" /\ work.step = "started" => key \in {Off, work.job.id}
  /\ raced \/ (key \in Shared /\ key <= closed => Covered)

-----------------------------------------------------------------------------
(* What the steps do with shares and stops. *)

Fixed == UNCHANGED <<shown, lvgl, requestId, stopPending, saved, closed, raced>>
Stays == UNCHANGED <<queue, work>>
Adds(j) == queue' = Append(queue, j) /\ UNCHANGED work

\* Jobs that have nothing to do with a shared key.
OtherKind(j) == j \in Jobs /\ j.type \notin {"share", "share_stop"}

LEMMA Kinds ==
  /\ \A n \in Ids : /\ ShareStop(n) \in Jobs /\ ShareStop(n).type = "share_stop"
                    /\ ShareStop(n).id = n
                    /\ Share(n) \in Jobs /\ Share(n).type = "share" /\ Share(n).id = n
  /\ \A j \in Jobs : /\ j.type = "share" => j.id \in Ids /\ j = Share(j.id)
                     /\ j.type = "share_stop" => j.id \in Ids /\ j = ShareStop(j.id)
  /\ OtherKind(NoJob) /\ OtherKind(Ui) /\ OtherKind(Control)
  /\ \A c \in Callers : OtherKind(Call(c))
  /\ \A n \in Int : OtherKind(Camtest(n))
BY JobKinds
DEF Ids, Jobs, Calls, Call, OtherKind, Job, Share, ShareStop, Camtest, Ui, Control, NoJob

LEMMA Unmoved ==
  ASSUME Stays \/ (UNCHANGED queue /\ work'.job = work.job)
  PROVE  (\A j \in Jobs : InFlight(j)' <=> InFlight(j)) /\ (QueuedShare' <=> QueuedShare)
BY DEF Stays, InFlight, QueuedShare

LEMMA Queued ==
  ASSUME JobsTyped, NEW i \in Jobs, Adds(i)
  PROVE  /\ \A j \in Jobs : InFlight(j)' <=> InFlight(j) \/ j = i
         /\ QueuedShare' <=> QueuedShare \/ i.type = "share"
<1>1. /\ Len(queue) \in Nat /\ DOMAIN queue = 1..Len(queue)
      /\ DOMAIN queue' = 1..(Len(queue) + 1)
      /\ \A k \in 1..Len(queue) : queue'[k] = queue[k]
      /\ queue'[Len(queue) + 1] = i
  BY DEF JobsTyped, Adds
<1>2. \A k \in DOMAIN queue' : k \in DOMAIN queue \/ k = Len(queue) + 1
  BY <1>1
<1>3. \A k \in DOMAIN queue : k \in DOMAIN queue' /\ queue'[k] = queue[k]
  BY <1>1
<1>4. Len(queue) + 1 \in DOMAIN queue'
  BY <1>1
<1>. QED
  BY <1>1, <1>2, <1>3, <1>4 DEF Adds, InFlight, QueuedShare

LEMMA Taken ==
  ASSUME JobsTyped, Receive
  PROVE  /\ \A j \in Jobs : j # NoJob => (InFlight(j)' <=> InFlight(j))
         /\ QueuedShare => QueuedShare' \/ work'.job.type = "share"
         /\ work'.step = "run" /\ work.step = "run" /\ work.job = NoJob
<1>1. /\ queue \in Seq(Jobs) /\ queue # <<>> /\ Len(queue) \in Nat
      /\ DOMAIN queue = 1..Len(queue)
      /\ DOMAIN queue' = 1..(Len(queue) - 1)
      /\ \A i \in 1..(Len(queue) - 1) : queue'[i] = queue[i + 1]
      /\ work'.job = queue[1] /\ work.job = NoJob /\ work'.step = "run" /\ work.step = "run"
  BY DEF JobsTyped, Receive, Resting
<1>2. \A k \in DOMAIN queue : k = 1 \/ (k - 1 \in DOMAIN queue' /\ queue'[k - 1] = queue[k])
  BY <1>1
<1>3. \A k \in DOMAIN queue' : k + 1 \in DOMAIN queue /\ queue'[k] = queue[k + 1]
  BY <1>1
<1>4. 1 \in DOMAIN queue
  BY <1>1
<1>5. ASSUME NEW j \in Jobs, j # NoJob, InFlight(j)' PROVE InFlight(j)
  BY <1>1, <1>3, <1>4, <1>5 DEF InFlight
<1>6. ASSUME NEW j \in Jobs, j # NoJob, InFlight(j) PROVE InFlight(j)'
  BY <1>1, <1>2, <1>6 DEF InFlight
<1>7. QueuedShare => QueuedShare' \/ work'.job.type = "share"
  BY <1>1, <1>2 DEF QueuedShare
<1>. QED
  BY <1>1, <1>5, <1>6, <1>7

LEMMA Finished ==
  ASSUME UNCHANGED queue, EndJob
  PROVE  /\ \A j \in Jobs : j # NoJob /\ InFlight(j)' => InFlight(j)
         /\ \A j \in Jobs : InFlight(j) /\ j # work.job => InFlight(j)'
         /\ QueuedShare' <=> QueuedShare
         /\ work'.step = "run" /\ work'.job = NoJob
BY DEF EndJob, Resting, InFlight, QueuedShare

\* Steps that have nothing to do with a shared key, but may end one.
Aside ==
  \/ \E c \in Callers : Caller(c)
  \/ CameraTest \/ TapOperation \/ OpenShareBusy \/ ShareTick \/ SendControl \/ KeyEnds

LEMMA AsideStep ==
  ASSUME JobsTyped, Aside
  PROVE  /\ Stays \/ \E j \in Jobs : OtherKind(j) /\ Adds(j)
         /\ UNCHANGED <<lvgl, requestId, stopPending, saved, closed, raced>>
         /\ key' \in {key, Off}
<1>. USE DEF shareVars, Stays, Adds
<1>1. ASSUME NEW c \in Callers, Caller(c)
      PROVE  /\ Stays \/ Adds(Call(c))
             /\ UNCHANGED <<lvgl, requestId, stopPending, saved, closed, raced, key>>
  BY <1>1 DEF Caller, Enter, LockTimeout, Lock, SendCall, Send, SendTimeout, Complete
<1>2. CASE CameraTest
  <2>1. Stays \/ Adds(Camtest(test + 1))
    BY <1>2 DEF CameraTest, TestCamera, Send, TestFinished, TestTimeout
  <2>2. test + 1 \in Int
    BY DEF JobsTyped
  <2>3. UNCHANGED <<lvgl, requestId, stopPending, saved, closed, raced, key>>
    BY <1>2 DEF CameraTest, TestCamera, TestFinished, TestTimeout
  <2>. QED
    BY <2>1, <2>2, <2>3, Kinds DEF OtherKind
<1>3. CASE TapOperation
  BY <1>3, Kinds DEF TapOperation, QueueUiJob, OtherKind
<1>4. CASE OpenShareBusy \/ ShareTick \/ KeyEnds
  BY <1>4 DEF OpenShareBusy, ShareTick, KeyEnds
<1>5. CASE SendControl
  BY <1>5, Kinds DEF SendControl, Send, OtherKind
<1>. QED
  BY <1>1, <1>2, <1>3, <1>4, <1>5, Kinds DEF Aside, OtherKind

\* Steps of the worker that take a job, finish one or move the key.
AtWork ==
  RunOperation \/ RunCamtest \/ RunCall \/ GiveCompletion
  \/ ShareReplaces \/ ShareStarts \/ ShareDecides \/ ShareCancels \/ ShareShows

LEMMA AtWorkStep ==
  ASSUME JobsTyped, AtWork
  PROVE  /\ UNCHANGED <<queue, lvgl, requestId, stopPending, saved, closed, raced>>
         /\ EndJob \/ work'.job = work.job
         /\ work.job.type # "share_stop" /\ work'.step # "stop"
<1>1. UNCHANGED <<queue, lvgl, requestId, stopPending, saved, closed, raced>>
  BY DEF AtWork, RunOperation, RunCamtest, RunCall, GiveCompletion, ShareReplaces, ShareStarts,
         ShareDecides, ShareCancels, ShareShows, shareVars
<1>2. work.job.type \in {"ui", "control", "share", "camtest", "call"}
  BY DEF AtWork, RunOperation, RunCamtest, RunCall, GiveCompletion, ShareReplaces, ShareStarts,
         ShareDecides, ShareCancels, ShareShows, On
<1>3. \/ EndJob
      \/ \E s \in {"give", "start", "started", "failed", "cancel", "hide", "show", "end"} : GoOn(s)
  <2>1. CASE RunOperation \/ RunCamtest \/ GiveCompletion
    BY <2>1 DEF RunOperation, RunCamtest, GiveCompletion
  <2>2. CASE RunCall \/ ShareReplaces \/ ShareStarts \/ ShareCancels \/ ShareShows
    BY <2>2 DEF RunCall, ShareReplaces, ShareStarts, ShareCancels, ShareShows
  <2>3. CASE ShareDecides
    BY <2>3 DEF ShareDecides
  <2>. QED
    BY <2>1, <2>2, <2>3 DEF AtWork
<1>4. work'.step # "stop"
  BY <1>3 DEF EndJob, Resting, GoOn, JobsTyped
<1>5. EndJob \/ work'.job = work.job
  BY <1>3 DEF GoOn, JobsTyped
<1>. QED
  BY <1>1, <1>2, <1>4, <1>5

\* Every step is one of these.
LEMMA ShareSteps ==
  ASSUME [Next]_vars
  PROVE  \/ Aside \/ AtWork \/ Receive
         \/ OpenShare \/ SendShare \/ ShareRefused \/ CloseShare \/ SendStop \/ RetryStop
         \/ StopIsCurrent \/ StopKey
         \/ UNCHANGED vars
BY Zenon DEF Next, Aside, AtWork, Screen, Worker

-----------------------------------------------------------------------------
(* A delayed close does not stop a newer key. *)

\* Only a share that the queue takes makes a new key wanted.
LEMMA NoneWanted ==
  ASSUME NumbersInv, JobsTyped,
         UNCHANGED <<lvgl, requestId, stopPending, saved, closed>>,
         \A k \in Ids : Wanted(k)' => Wanted(k),
         \A n \in Ids : InFlight(ShareStop(n))' => InFlight(ShareStop(n)),
         key' \in Int,
         work'.step = "stop" => work.step = "stop",
         work.step = "stop" => key' \in {key, Off}
  PROVE  NumbersInv'
<1>1. Off \notin Shared
  BY UiWorkerAssumption DEF Off, Shared
<1>2. NumbersTyped'
  BY DEF NumbersInv, NumbersTyped, Settled
<1>3. Settled' = Settled /\ (StopOwed' <=> StopOwed)
  BY DEF Settled, StopOwed
<1>4. \A k \in Ids : Wanted(k)' => k <= Settled'
  BY <1>3 DEF NumbersInv
<1>5. StopsAreOlder'
  BY <1>3 DEF NumbersInv, StopsAreOlder
<1>6. OwedIsLast'
  BY <1>3 DEF NumbersInv, OwedIsLast
<1>7. work'.step = "stop" /\ key' \in Shared' => key' <= closed'
  BY <1>1 DEF NumbersInv, Shared
<1>. QED
  BY <1>2, <1>4, <1>5, <1>6, <1>7 DEF NumbersInv

LEMMA NumbersStep == ASSUME JobsTyped, NumbersInv, [Next]_vars PROVE NumbersInv'
<1>. USE DEF Ids
<1>1. Off \notin Shared /\ Remote \notin Shared /\ Off \in Int /\ Remote \in Int
  BY UiWorkerAssumption DEF Off, Shared, Remote
<1>2. /\ \A n \in Ids : Share(n) \in Jobs /\ ShareStop(n) \in Jobs
      /\ \A n \in Ids : Share(n) # NoJob /\ ShareStop(n) # NoJob
      /\ \A n \in Ids, j \in Jobs : OtherKind(j) => j # Share(n) /\ j # ShareStop(n)
      /\ \A n, k \in Ids : /\ Share(n) # ShareStop(k)
                           /\ Share(n) = Share(k) => n = k
                           /\ ShareStop(n) = ShareStop(k) => n = k
  BY Kinds DEF OtherKind
<1>3. ASSUME key' \in {key, Off, Remote},
             \A j \in Jobs : ~OtherKind(j) /\ InFlight(j)' => InFlight(j)
      PROVE  /\ \A k \in Ids : Wanted(k)' => Wanted(k)
             /\ \A n \in Ids : InFlight(ShareStop(n))' => InFlight(ShareStop(n))
             /\ key' \in Int
  <2>1. \A n \in Ids : ~OtherKind(Share(n)) /\ ~OtherKind(ShareStop(n))
    BY <1>2
  <2>2. \A k \in Ids : (key' = k /\ k \in Shared') => (key = k /\ k \in Shared)
    BY <1>1, <1>3 DEF Shared
  <2>3. key' \in Int
    BY <1>1, <1>3 DEF NumbersInv, NumbersTyped
  <2>. QED
    BY <1>2, <1>3, <2>1, <2>2, <2>3 DEF Wanted
<1>4. CASE Aside
  <2>1. \A j \in Jobs : ~OtherKind(j) /\ InFlight(j)' => InFlight(j)
    BY <1>4, AsideStep, Unmoved, Queued
  <2>2. key' \in {key, Off} /\ work' = work
    BY <1>4, AsideStep DEF Stays, Adds
  <2>. QED
    BY <1>3, <1>4, <2>1, <2>2, AsideStep, NoneWanted
<1>5. CASE AtWork
  <2>1. \A j \in Jobs : ~OtherKind(j) /\ InFlight(j)' => InFlight(j)
    BY <1>2, <1>5, AtWorkStep, Finished, Unmoved, Kinds
  <2>2. CASE ShareStarts
    <3>1. work.job \in Jobs /\ work.job.type = "share"
      BY <2>2 DEF ShareStarts, On, JobsTyped
    <3>2. work.job.id \in Ids /\ work.job = Share(work.job.id)
      BY <3>1, Kinds
    <3>3. key' \in {key, work.job.id} /\ InFlight(work.job)
      BY <2>2 DEF ShareStarts, InFlight
    <3>4. \A k \in Ids : Wanted(k)' => Wanted(k)
      BY <1>2, <2>1, <3>2, <3>3 DEF Wanted, Shared, OtherKind
    <3>5. \A n \in Ids : InFlight(ShareStop(n))' => InFlight(ShareStop(n))
      BY <1>2, <2>1
    <3>6. key' \in Int
      BY <3>2, <3>3 DEF NumbersInv, NumbersTyped
    <3>7. work'.step # "stop" /\ work.step # "stop"
      BY <1>5, <2>2, AtWorkStep DEF ShareStarts, On
    <3>. QED
      BY <1>5, <3>4, <3>5, <3>6, <3>7, AtWorkStep, NoneWanted
  <2>3. CASE ~ShareStarts
    <3>1. key' \in {key, Off, Remote}
      BY <1>5, <2>3
      DEF AtWork, RunOperation, RunCamtest, RunCall, GiveCompletion, ShareReplaces,
          ShareDecides, ShareCancels, ShareShows
    <3>2. work'.step # "stop" /\ work.step # "stop"
      BY <1>5, <2>3, AtWorkStep
      DEF AtWork, RunOperation, RunCamtest, RunCall, GiveCompletion, ShareReplaces,
          ShareDecides, ShareCancels, ShareShows, On
    <3>. QED
      BY <1>3, <1>5, <2>1, <3>1, <3>2, AtWorkStep, NoneWanted
  <2>. QED
    BY <2>2, <2>3
<1>6. CASE Receive
  <2>1. \A j \in Jobs : ~OtherKind(j) /\ InFlight(j)' => InFlight(j)
    BY <1>6, Taken, Kinds
  <2>2. UNCHANGED <<lvgl, requestId, stopPending, saved, closed, key>>
    BY <1>6 DEF Receive, shareVars
  <2>3. work'.step # "stop"
    BY <1>6, Taken
  <2>. QED
    BY <1>3, <2>1, <2>2, <2>3, NoneWanted
<1>7. CASE StopKey
  <2>1. UNCHANGED <<queue, lvgl, requestId, stopPending, saved, closed>> /\ EndJob /\ key' = Off
    BY <1>7 DEF StopKey, shareVars
  <2>2. \A j \in Jobs : ~OtherKind(j) /\ InFlight(j)' => InFlight(j)
    BY <2>1, Finished, Kinds
  <2>. QED
    BY <1>3, <2>1, <2>2, Finished, NoneWanted
<1>8. CASE StopIsCurrent
  <2>1. /\ UNCHANGED <<queue, lvgl, requestId, stopPending, saved, closed, key>>
        /\ work.job.type = "share_stop" /\ work.step = "run" /\ work.job \in Jobs
    BY <1>8 DEF StopIsCurrent, On, JobsTyped
  <2>2. CASE work.job.id = requestId /\ GoOn("stop")
    <3>1. work'.job = work.job /\ work'.step = "stop"
      BY <2>2 DEF GoOn, JobsTyped
    <3>2. work.job = ShareStop(requestId) /\ requestId \in Ids
      BY <2>1, <2>2, Kinds
    <3>3. InFlight(ShareStop(requestId))
      BY <3>2 DEF InFlight
    <3>4. requestId = Settled /\ requestId <= closed + 1 /\ ~Wanted(requestId)
      BY <3>2, <3>3 DEF NumbersInv, StopsAreOlder, Settled
    <3>5. key \in Shared => key \in Ids /\ Wanted(key) /\ key # requestId
      BY <3>4 DEF Wanted, NumbersInv, NumbersTyped
    <3>6. key \in Shared => key <= Settled
      BY <3>5 DEF NumbersInv
    <3>7. key \in Shared => key <= closed
      BY <3>2, <3>4, <3>5, <3>6 DEF NumbersInv, NumbersTyped
    <3>8. \A j \in Jobs : InFlight(j)' <=> InFlight(j)
      BY <2>1, <3>1, Unmoved
    <3>9. (\A k \in Ids : Wanted(k)' <=> Wanted(k)) /\ Settled' = Settled /\ StopOwed' = StopOwed
      BY <1>2, <2>1, <3>8 DEF Wanted, Settled, StopOwed, Shared
    <3>10. NumbersTyped' /\ StopsAreOlder' /\ OwedIsLast' /\ \A k \in Ids : Wanted(k)' => k <= Settled'
      BY <1>2, <2>1, <3>8, <3>9 DEF NumbersInv, NumbersTyped, StopsAreOlder, OwedIsLast
    <3>. QED
      BY <2>1, <3>1, <3>7, <3>10 DEF NumbersInv, Shared
  <2>3. CASE EndJob
    <3>1. \A j \in Jobs : ~OtherKind(j) /\ InFlight(j)' => InFlight(j)
      BY <2>1, <2>3, Finished, Kinds
    <3>. QED
      BY <1>3, <2>1, <2>3, <3>1, Finished, NoneWanted
  <2>. QED
    BY <1>8, <2>2, <2>3 DEF StopIsCurrent
<1>9. CASE OpenShare \/ ShareRefused
  <2>1. UNCHANGED <<queue, work, closed, key>>
    BY <1>9 DEF OpenShare, ShareRefused
  <2>2. (\A j \in Jobs : InFlight(j)' <=> InFlight(j)) /\ work' = work
    BY <2>1, Unmoved DEF Stays
  <2>3. requestId \in Int /\ requestId' \in Int /\ Settled' = Settled
    BY <1>9 DEF OpenShare, ShareRefused, JobsTyped, Settled
  <2>4. StopOwed' = StopOwed
    BY <1>9 DEF OpenShare, ShareRefused, StopOwed, NumbersInv, NumbersTyped
  <2>5. \A k \in Ids : Wanted(k)' <=> Wanted(k)
    BY <1>2, <2>1, <2>2 DEF Wanted, Shared
  <2>6. NumbersTyped'
    BY <1>9, <2>1, <2>3 DEF OpenShare, ShareRefused, NumbersInv, NumbersTyped
  <2>. QED
    BY <1>2, <2>1, <2>2, <2>3, <2>4, <2>5, <2>6 DEF NumbersInv, StopsAreOlder, OwedIsLast, Shared
<1>10. CASE SendShare
  <2>1. /\ lvgl = "opening" /\ requestId \in Int /\ ~stopPending
        /\ UNCHANGED <<work, requestId, stopPending, saved, closed, key>>
    BY <1>10 DEF SendShare, JobsTyped, NumbersInv, NumbersTyped
  <2>2. CASE ~HasRoom
    <3>1. UNCHANGED queue /\ lvgl' = "refused"
      BY <1>10, <2>2 DEF SendShare, QueueUiJob
    <3>2. \A j \in Jobs : InFlight(j)' <=> InFlight(j)
      BY <2>1, <3>1, Unmoved DEF Stays
    <3>3. Settled' = Settled /\ (StopOwed' <=> StopOwed)
      BY <2>1, <3>1 DEF Settled, StopOwed
    <3>4. \A k \in Ids : Wanted(k)' <=> Wanted(k)
      BY <1>2, <2>1, <3>2 DEF Wanted, Shared
    <3>5. NumbersTyped'
      BY <2>1, <3>1, <3>3 DEF NumbersInv, NumbersTyped
    <3>. QED
      BY <1>2, <2>1, <3>2, <3>3, <3>4, <3>5 DEF NumbersInv, StopsAreOlder, OwedIsLast, Shared
  <2>3. CASE HasRoom
    <3>1. Adds(Share(requestId)) /\ lvgl' = "idle"
      BY <1>10, <2>1, <2>3 DEF SendShare, QueueUiJob, Adds
    <3>2. \A j \in Jobs : InFlight(j)' <=> InFlight(j) \/ j = Share(requestId)
      BY <1>2, <2>1, <3>1, Queued
    <3>3. Settled = requestId - 1 /\ Settled' = requestId /\ ~StopOwed'
      BY <2>1, <3>1 DEF Settled, StopOwed
    <3>4. \A k \in Ids : Wanted(k)' => Wanted(k) \/ k = requestId
      BY <1>2, <2>1, <3>2 DEF Wanted, Shared
    <3>5. \A n \in Ids : InFlight(ShareStop(n))' => InFlight(ShareStop(n))
      BY <1>2, <2>1, <3>2
    <3>6. NumbersTyped'
      BY <2>1, <3>1, <3>3 DEF NumbersInv, NumbersTyped
    <3>7. \A k \in Ids : Wanted(k)' => k <= Settled'
      <4>1. \A k \in Ids : Wanted(k) => k <= requestId - 1
        BY <3>3 DEF NumbersInv
      <4>. QED
        BY <2>1, <3>3, <3>4, <4>1
    <3>8. StopsAreOlder'
      <4>. SUFFICES ASSUME NEW n \in Ids, InFlight(ShareStop(n))'
                    PROVE  n <= Settled' /\ n <= closed' + 1 /\ ~Wanted(n)'
        BY DEF StopsAreOlder
      <4>1. n <= requestId - 1 /\ n <= closed + 1 /\ ~Wanted(n)
        BY <3>3, <3>5 DEF NumbersInv, StopsAreOlder
      <4>2. n <= requestId /\ n # requestId
        BY <2>1, <4>1
      <4>. QED
        BY <2>1, <3>3, <3>4, <4>1, <4>2
    <3>. QED
      BY <2>1, <3>3, <3>6, <3>7, <3>8 DEF NumbersInv, OwedIsLast, Shared
  <2>. QED
    BY <2>2, <2>3
<1>11. CASE CloseShare
  <2>1. /\ lvgl = "idle" /\ lvgl' = "closing" /\ requestId \in Int
        /\ closed' = requestId /\ requestId' = requestId + 1
        /\ UNCHANGED <<queue, work, stopPending, saved, key>>
    BY <1>11 DEF CloseShare, JobsTyped
  <2>2. \A j \in Jobs : InFlight(j)' <=> InFlight(j)
    BY <2>1, Unmoved DEF Stays
  <2>3. Settled = requestId /\ Settled' = requestId + 1 /\ StopOwed'
    BY <2>1 DEF Settled, StopOwed
  <2>4. \A k \in Ids : Wanted(k)' => Wanted(k) /\ k <= requestId
    BY <1>2, <2>1, <2>2, <2>3 DEF Wanted, NumbersInv, Shared
  <2>5. NumbersTyped'
    BY <2>1, <2>3 DEF NumbersInv, NumbersTyped
  <2>6. \A k \in Ids : Wanted(k)' => k <= Settled'
    BY <2>1, <2>3, <2>4
  <2>7. OwedIsLast'
    BY <2>1, <2>3, <2>4 DEF OwedIsLast
  <2>8. StopsAreOlder'
    <3>. SUFFICES ASSUME NEW n \in Ids, InFlight(ShareStop(n))'
                  PROVE  n <= Settled' /\ n <= closed' + 1 /\ ~Wanted(n)'
      BY DEF StopsAreOlder
    <3>1. n <= requestId /\ ~Wanted(n)
      BY <1>2, <2>2, <2>3 DEF NumbersInv, StopsAreOlder
    <3>. QED
      BY <2>1, <2>3, <2>4, <3>1
  <2>9. work'.step = "stop" /\ key' \in Shared' => key' <= closed'
    <3>1. key \in Shared => Wanted(key) /\ key \in Ids
      BY DEF Wanted, NumbersInv, NumbersTyped
    <3>2. key \in Shared => key <= requestId
      BY <2>3, <3>1 DEF NumbersInv
    <3>. QED
      BY <2>1, <3>2 DEF Shared
  <2>. QED
    BY <2>5, <2>6, <2>7, <2>8, <2>9 DEF NumbersInv
<1>12. CASE SendStop \/ RetryStop
  <2>1. /\ lvgl' = "idle" /\ requestId \in Int /\ lvgl \notin {"opening", "refused"} /\ StopOwed
        /\ UNCHANGED <<work, requestId, saved, closed, key>>
    BY <1>12 DEF SendStop, RetryStop, StopOwed, JobsTyped
  <2>2. Settled = requestId /\ Settled' = requestId
    BY <2>1 DEF Settled
  <2>3. requestId = closed + 1 /\ \A k \in Ids : Wanted(k) => k <= closed
    BY <2>1, <2>2 DEF NumbersInv, OwedIsLast
  <2>4. stopPending' \in BOOLEAN
    BY <1>12 DEF SendStop, RetryStop, NumbersInv, NumbersTyped
  <2>5. UNCHANGED queue \/ Adds(ShareStop(requestId))
    BY <1>12 DEF SendStop, RetryStop, Send, Adds
  <2>6. \A j \in Jobs : InFlight(j)' => InFlight(j) \/ j = ShareStop(requestId)
    BY <1>2, <2>1, <2>5, Unmoved, Queued DEF Stays
  <2>7. \A k \in Ids : Wanted(k)' => Wanted(k)
    BY <1>2, <2>1, <2>6 DEF Wanted, Shared
  <2>8. NumbersTyped'
    BY <2>1, <2>2, <2>4 DEF NumbersInv, NumbersTyped
  <2>9. StopsAreOlder'
    <3>. SUFFICES ASSUME NEW n \in Ids, InFlight(ShareStop(n))'
                  PROVE  n <= Settled' /\ n <= closed' + 1 /\ ~Wanted(n)'
      BY DEF StopsAreOlder
    <3>1. InFlight(ShareStop(n)) \/ n = requestId
      BY <1>2, <2>1, <2>6
    <3>2. CASE InFlight(ShareStop(n))
      BY <2>1, <2>2, <2>7, <3>2 DEF NumbersInv, StopsAreOlder
    <3>3. CASE n = requestId
      <4>1. closed \in Int
        BY DEF NumbersInv, NumbersTyped
      <4>2. ~(requestId <= closed)
        BY <2>3, <4>1
      <4>. QED
        BY <2>1, <2>2, <2>3, <2>7, <3>3, <4>1, <4>2
    <3>. QED
      BY <3>1, <3>2, <3>3
  <2>. QED
    BY <2>1, <2>2, <2>3, <2>7, <2>8, <2>9 DEF NumbersInv, OwedIsLast, Shared
<1>13. CASE UNCHANGED vars
  <2>1. UNCHANGED <<queue, work, lvgl, requestId, stopPending, saved, closed, key>>
    BY <1>13 DEF vars, shareVars
  <2>2. \A j \in Jobs : InFlight(j)' <=> InFlight(j)
    BY <2>1, Unmoved DEF Stays
  <2>. QED
    BY <1>3, <2>1, <2>2, NoneWanted
<1>. QED
  BY <1>4, <1>5, <1>6, <1>7, <1>8, <1>9, <1>10, <1>11, <1>12, <1>13, ShareSteps
-----------------------------------------------------------------------------
(* No closed key is forgotten. *)

Hidden == key \in Shared /\ key <= closed
KeyOfWork ==
  /\ work.job.type = "share" /\ work.step \in {"start", "failed", "hide"} => key = Off
  /\ work.job.type = "share" /\ work.step = "started" => key \in {Off, work.job.id}

\* Steps that leave the screen's numbers alone and take nothing away from what ends the key.
LEMMA StillCovered ==
  ASSUME HiddenInv, UNCHANGED <<lvgl, requestId, stopPending, saved, closed>>,
         raced => raced', KeyOfWork', Hidden' /\ ~raced' => Covered'
  PROVE  HiddenInv'
BY DEF HiddenInv, KeyOfWork, Settled, Hidden

LEMMA HiddenStep == ASSUME JobsTyped, NumbersInv, HiddenInv, [Next]_vars PROVE HiddenInv'
<1>. USE DEF Ids
<1>1. Off \notin Shared /\ Remote \notin Shared /\ Off \in Int /\ Remote \in Int
  BY UiWorkerAssumption DEF Off, Shared, Remote
<1>2. \A n \in Ids : ShareStop(n) \in Jobs /\ ShareStop(n) # NoJob /\ ShareStop(n).type = "share_stop"
  BY Kinds DEF OtherKind
<1>3. requestId \in Int /\ Settled \in Int /\ closed \in Int /\ work.job \in Jobs
  BY DEF JobsTyped, NumbersInv, NumbersTyped, Settled
<1>4. Hidden /\ ~raced => Covered
  BY DEF HiddenInv, Hidden
<1>5. CASE Aside
  <2>1. UNCHANGED <<lvgl, requestId, stopPending, saved, closed, raced>> /\ work' = work
        /\ key' \in {key, Off}
    BY <1>5, AsideStep DEF Stays, Adds
  <2>2. QueuedShare => QueuedShare'
    BY <1>5, AsideStep, Unmoved, Queued
  <2>3. InFlight(ShareStop(Settled)) => InFlight(ShareStop(Settled))'
    <3>1. \A j \in Jobs : InFlight(j) => InFlight(j)'
      BY <1>5, AsideStep, Unmoved, Queued
    <3>. QED
      BY <1>2, <1>3, <2>1, <3>1 DEF Settled
  <2>4. StopOwed' = StopOwed
    BY <2>1 DEF StopOwed
  <2>5. Hidden' => Hidden
    BY <1>1, <2>1 DEF Hidden, Shared
  <2>6. KeyOfWork'
    BY <2>1 DEF HiddenInv, KeyOfWork
  <2>7. Covered => Covered'
    BY <2>1, <2>2, <2>3, <2>4 DEF Covered
  <2>. QED
    BY <1>4, <2>1, <2>5, <2>6, <2>7, StillCovered
<1>6. CASE AtWork
  <2>1. UNCHANGED <<queue, lvgl, requestId, stopPending, saved, closed, raced>>
    BY <1>6, AtWorkStep
  <2>2. QueuedShare' = QueuedShare /\ StopOwed' = StopOwed /\ Settled' = Settled
    BY <2>1 DEF QueuedShare, StopOwed, Settled
  <2>3. InFlight(ShareStop(Settled)) => InFlight(ShareStop(Settled))'
    <3>1. work.job # ShareStop(Settled)
      BY <1>2, <1>3, <1>6, AtWorkStep
    <3>. QED
      BY <2>1, <2>2, <3>1 DEF InFlight
  <2>4. StopOwed \/ QueuedShare \/ InFlight(ShareStop(Settled)) => Covered'
    BY <2>2, <2>3 DEF Covered
  <2>5. CASE RunOperation \/ RunCamtest \/ GiveCompletion
    <3>1. UNCHANGED key /\ work' = Resting
      BY <2>5 DEF RunOperation, RunCamtest, GiveCompletion, EndJob
    <3>2. ~(work.job.type = "share" /\ work.step \in {"run", "started", "cancel"})
          /\ work.step # "stop"
      BY <2>5 DEF RunOperation, RunCamtest, GiveCompletion, On
    <3>3. KeyOfWork'
      BY <3>1 DEF KeyOfWork, Resting
    <3>4. Hidden' => Hidden
      BY <2>1, <3>1 DEF Hidden, Shared
    <3>. QED
      BY <1>4, <2>1, <2>4, <3>2, <3>3, <3>4, StillCovered DEF Covered
  <2>6. CASE RunCall
    <3>1. /\ key' \in {key, Off, Remote} /\ work.job.type = "call" /\ work'.job = work.job
          /\ work.step = "run"
      BY <2>6 DEF RunCall, On, GoOn, JobsTyped
    <3>2. KeyOfWork'
      BY <3>1 DEF KeyOfWork
    <3>3. Hidden' => Hidden
      BY <1>1, <2>1, <3>1 DEF Hidden, Shared
    <3>. QED
      BY <1>4, <2>1, <2>4, <3>1, <3>2, <3>3, StillCovered DEF Covered
  <2>7. CASE ShareReplaces \/ ShareCancels
    <3>1. key' = Off /\ work'.step \in {"start", "hide"}
      BY <2>7 DEF ShareReplaces, ShareCancels, GoOn, JobsTyped
    <3>2. ~Hidden' /\ KeyOfWork'
      BY <1>1, <3>1 DEF Hidden, KeyOfWork, Shared
    <3>. QED
      BY <2>1, <3>2, StillCovered
  <2>8. CASE ShareStarts
    <3>1. /\ work.job.type = "share" /\ work.step = "start" /\ work'.job = work.job
          /\ \/ key' = work.job.id /\ work'.step = "started"
             \/ key' = key /\ work'.step = "failed"
      BY <2>8 DEF ShareStarts, On, GoOn, JobsTyped
    <3>2. key = Off
      BY <3>1 DEF HiddenInv
    <3>3. KeyOfWork'
      BY <3>1, <3>2 DEF KeyOfWork
    <3>4. Hidden' => Covered'
      BY <1>1, <3>1, <3>2 DEF Hidden, Covered, Shared
    <3>. QED
      BY <2>1, <3>3, <3>4, StillCovered
  <2>9. CASE ShareDecides
    <3>1. /\ work.job.type = "share" /\ work.step \in {"started", "failed"}
          /\ work'.job = work.job /\ key' = key
      BY <2>9 DEF ShareDecides, On, GoOn, JobsTyped
    <3>2. CASE work.step = "failed"
      <4>1. key = Off
        BY <3>1, <3>2 DEF HiddenInv
      <4>2. work'.step \in {"hide", "end"}
        BY <2>9, <3>2 DEF ShareDecides, GoOn, JobsTyped
      <4>3. ~Hidden' /\ KeyOfWork'
        BY <1>1, <3>1, <4>1, <4>2 DEF Hidden, KeyOfWork, Shared
      <4>. QED
        BY <2>1, <4>3, StillCovered
    <3>3. CASE work.step = "started" /\ work.job.id # requestId
      <4>1. work'.step = "cancel"
        BY <2>9, <3>3 DEF ShareDecides, GoOn, JobsTyped
      <4>2. KeyOfWork' /\ Covered'
        BY <3>1, <4>1 DEF KeyOfWork, Covered
      <4>. QED
        BY <2>1, <4>2, StillCovered
    <3>4. CASE work.step = "started" /\ work.job.id = requestId
      <4>1. work'.step = "show"
        BY <2>9, <3>4 DEF ShareDecides, GoOn, JobsTyped
      <4>2. key \in {Off, requestId}
        BY <3>1, <3>4 DEF HiddenInv
      <4>3. \A k \in Shared : k >= 1
        BY DEF Shared
      <4>4. Settled <= requestId
        BY <1>3 DEF Settled
      <4>5. ~Hidden
        <5>. SUFFICES ASSUME Hidden PROVE FALSE
          OBVIOUS
        <5>1. key = requestId /\ requestId >= 1 /\ requestId <= closed
          BY <1>1, <4>2, <4>3 DEF Hidden
        <5>2. closed < Settled
          BY <1>3, <5>1 DEF HiddenInv
        <5>. QED
          BY <1>3, <4>4, <5>1, <5>2
      <4>6. ~Hidden' /\ KeyOfWork'
        BY <2>1, <3>1, <4>1, <4>5 DEF Hidden, KeyOfWork, Shared
      <4>. QED
        BY <2>1, <4>6, StillCovered
    <3>. QED
      BY <3>1, <3>2, <3>3, <3>4
  <2>10. CASE ShareShows
    <3>1. /\ key' = key /\ work'.step = "end" /\ work.step \in {"show", "hide"}
      BY <2>10 DEF ShareShows, On, GoOn, JobsTyped
    <3>2. KeyOfWork' /\ (Hidden' => Hidden)
      BY <2>1, <3>1 DEF KeyOfWork, Hidden, Shared
    <3>. QED
      BY <1>4, <2>1, <2>4, <3>1, <3>2, StillCovered DEF Covered
  <2>. QED
    BY <1>6, <2>5, <2>6, <2>7, <2>8, <2>9, <2>10 DEF AtWork
<1>7. CASE Receive
  <2>1. UNCHANGED <<lvgl, requestId, stopPending, saved, closed, raced, key>>
    BY <1>7 DEF Receive, shareVars
  <2>2. /\ work'.step = "run" /\ work.step = "run" /\ work.job.type = "none"
        /\ QueuedShare => QueuedShare' \/ work'.job.type = "share"
    BY <1>7, Taken DEF NoJob, Job
  <2>3. InFlight(ShareStop(Settled)) => InFlight(ShareStop(Settled))'
    <3>1. \A j \in Jobs : j # NoJob /\ InFlight(j) => InFlight(j)'
      BY <1>7, Taken
    <3>. QED
      BY <1>2, <1>3, <2>1, <3>1 DEF Settled
  <2>4. StopOwed' = StopOwed
    BY <2>1 DEF StopOwed
  <2>5. KeyOfWork' /\ (Hidden' => Hidden)
    BY <2>1, <2>2 DEF KeyOfWork, Hidden, Shared
  <2>6. Covered => Covered'
    BY <2>2, <2>3, <2>4 DEF Covered
  <2>. QED
    BY <1>4, <2>1, <2>5, <2>6, StillCovered
<1>8. CASE StopKey
  <2>1. UNCHANGED <<lvgl, requestId, stopPending, saved, closed, raced>> /\ key' = Off
        /\ work' = Resting
    BY <1>8 DEF StopKey, shareVars, EndJob
  <2>2. ~Hidden' /\ KeyOfWork'
    BY <1>1, <2>1 DEF Hidden, KeyOfWork, Shared, Resting
  <2>. QED
    BY <2>1, <2>2, StillCovered
<1>9. CASE StopIsCurrent
  <2>1. /\ UNCHANGED <<queue, lvgl, requestId, stopPending, saved, closed, key>>
        /\ work.job.type = "share_stop" /\ work.step = "run"
        /\ raced => raced'
        /\ ~raced' => ~raced /\ lvgl \notin {"opening", "refused"}
    BY <1>9 DEF StopIsCurrent, On
  <2>2. CASE work.job.id = requestId /\ GoOn("stop")
    <3>1. work'.step = "stop"
      BY <2>2 DEF GoOn, JobsTyped
    <3>2. KeyOfWork' /\ Covered'
      BY <3>1 DEF KeyOfWork, Covered
    <3>. QED
      BY <2>1, <3>2, StillCovered
  <2>3. CASE work.job.id # requestId /\ EndJob
    <3>1. KeyOfWork' /\ (Hidden' => Hidden)
      BY <2>1, <2>3 DEF EndJob, Resting, KeyOfWork, Hidden, Shared
    <3>2. StopOwed' = StopOwed /\ Settled' = Settled /\ QueuedShare' = QueuedShare
      BY <2>1 DEF StopOwed, Settled, QueuedShare
    <3>3. ~raced' /\ InFlight(ShareStop(Settled)) => InFlight(ShareStop(Settled))'
      <4>. SUFFICES ASSUME ~raced', InFlight(ShareStop(Settled)) PROVE InFlight(ShareStop(Settled))'
        OBVIOUS
      <4>1. Settled = requestId
        BY <2>1 DEF Settled
      <4>2. work.job # ShareStop(Settled)
        BY <1>3, <2>3, <4>1, Kinds
      <4>. QED
        BY <2>1, <3>2, <4>2 DEF InFlight
    <3>4. ~raced' /\ Covered => Covered'
      BY <2>1, <3>2, <3>3 DEF Covered
    <3>. QED
      BY <1>4, <2>1, <3>1, <3>4, StillCovered
  <2>. QED
    BY <1>9, <2>2, <2>3 DEF StopIsCurrent
<1>10. CASE OpenShare \/ ShareRefused
  <2>1. UNCHANGED <<queue, work, closed, key, raced>>
    BY <1>10 DEF OpenShare, ShareRefused
  <2>2. Settled' = Settled
    BY <1>3, <1>10 DEF OpenShare, ShareRefused, Settled
  <2>3. StopOwed => StopOwed'
    BY <1>10 DEF OpenShare, ShareRefused, StopOwed, NumbersInv, NumbersTyped
  <2>4. Covered => Covered'
    BY <2>1, <2>2, <2>3 DEF Covered, QueuedShare, InFlight
  <2>. QED
    BY <2>1, <2>2, <2>4 DEF HiddenInv, Shared
<1>11. CASE SendShare
  <2>1. lvgl = "opening" /\ UNCHANGED <<work, requestId, stopPending, saved, closed, key, raced>>
    BY <1>11 DEF SendShare
  <2>2. CASE ~HasRoom
    <3>1. UNCHANGED queue /\ lvgl' = "refused"
      BY <1>11, <2>2 DEF SendShare, QueueUiJob
    <3>2. Settled' = Settled /\ (StopOwed' <=> StopOwed)
      BY <2>1, <3>1 DEF Settled, StopOwed
    <3>3. Covered => Covered'
      BY <2>1, <3>1, <3>2 DEF Covered, QueuedShare, InFlight
    <3>. QED
      BY <2>1, <3>2, <3>3 DEF HiddenInv, Shared
  <2>3. CASE HasRoom
    <3>1. Adds(Share(requestId)) /\ lvgl' = "idle"
      BY <1>11, <2>1, <2>3 DEF SendShare, QueueUiJob, Adds
    <3>2. QueuedShare'
      BY <1>3, <3>1, Queued, Kinds
    <3>3. closed' = 0 \/ closed' < Settled'
      <4>1. Settled = requestId - 1 /\ Settled' = requestId
        BY <2>1, <3>1 DEF Settled
      <4>. QED
        BY <1>3, <2>1, <4>1 DEF HiddenInv
    <3>. QED
      BY <2>1, <3>2, <3>3 DEF HiddenInv, Covered, Shared
  <2>. QED
    BY <2>2, <2>3
<1>12. CASE CloseShare
  <2>1. /\ lvgl' = "closing" /\ closed' = requestId /\ requestId' = requestId + 1
        /\ UNCHANGED <<work, key>>
    BY <1>12 DEF CloseShare
  <2>2. closed' < Settled' /\ Covered'
    BY <1>3, <2>1 DEF Settled, Covered, StopOwed
  <2>. QED
    BY <2>1, <2>2 DEF HiddenInv
<1>13. CASE SendStop \/ RetryStop
  <2>1. /\ lvgl' = "idle" /\ lvgl \notin {"opening", "refused"}
        /\ UNCHANGED <<work, requestId, closed, key, raced>>
        /\ Adds(ShareStop(requestId)) \/ stopPending'
    BY <1>13 DEF SendStop, RetryStop, Send, Adds
  <2>2. Settled = requestId /\ Settled' = requestId
    BY <2>1 DEF Settled
  <2>3. Covered'
    <3>1. CASE stopPending'
      BY <3>1 DEF Covered, StopOwed
    <3>2. CASE Adds(ShareStop(requestId))
      <4>1. InFlight(ShareStop(requestId))'
        <5>1. \A j \in Jobs : InFlight(j)' <=> InFlight(j) \/ j = ShareStop(requestId)
          BY <1>2, <1>3, <3>2, Queued
        <5>. QED
          BY <1>2, <1>3, <2>1, <5>1
      <4>. QED
        BY <2>1, <2>2, <4>1 DEF Covered
    <3>. QED
      BY <2>1, <3>1, <3>2
  <2>. QED
    BY <2>1, <2>2, <2>3 DEF HiddenInv
<1>14. CASE UNCHANGED vars
  BY <1>14 DEF vars, shareVars, HiddenInv, Covered, StopOwed, QueuedShare, InFlight, Settled,
               Shared
<1>. QED
  BY <1>5, <1>6, <1>7, <1>8, <1>9, <1>10, <1>11, <1>12, <1>13, <1>14, ShareSteps

LEMMA ShareInvAlways == Spec => [](JobsTyped /\ NumbersInv /\ HiddenInv)
<1>1. Init => NumbersInv /\ HiddenInv
  <2>. SUFFICES ASSUME Init PROVE NumbersInv /\ HiddenInv
    OBVIOUS
  <2>1. Settled = 0 /\ ~StopOwed
    BY DEF Init, Settled, StopOwed
  <2>2. \A n \in Ids : Share(n) # NoJob /\ ShareStop(n) # NoJob
    BY Kinds DEF OtherKind
  <2>3. \A n \in Ids : ~InFlight(Share(n)) /\ ~InFlight(ShareStop(n))
    BY <2>2 DEF Init, InFlight, Resting
  <2>4. \A k \in Ids : ~Wanted(k)
    BY <2>3 DEF Init, Wanted, Off, Shared
  <2>5. NumbersTyped
    <3>1. lvgl = "idle" /\ stopPending \in BOOLEAN /\ saved \in BOOLEAN
      BY Zenon DEF Init
    <3>2. closed = 0 /\ key = 0
      BY Zenon DEF Init, Off
    <3>3. closed \in Int /\ key \in Int /\ 0 <= closed /\ closed <= Settled
      BY <2>1, <3>2
    <3>. QED
      BY <3>1, <3>2, <3>3 DEF NumbersTyped
  <2>6. work.step = "run" /\ work.job.type = "none" /\ key = Off /\ closed = 0
    BY DEF Init, Resting, NoJob, Job
  <2>7. key \notin Shared
    BY <2>6 DEF Off, Shared
  <2>. QED
    BY <2>1, <2>3, <2>4, <2>5, <2>6, <2>7 DEF NumbersInv, StopsAreOlder, OwedIsLast, HiddenInv
<1>2. JobsTyped /\ NumbersInv /\ HiddenInv /\ [Next]_vars => (NumbersInv /\ HiddenInv)'
  BY NumbersStep, HiddenStep
<1>3. WorkerInv => JobsTyped
  BY DEF WorkerInv
<1>. QED
  BY <1>1, <1>2, <1>3, WorkerInvAlways, PTL DEF Spec

\* A key the user closed is never forgotten behind the screen, unless the worker compared a
\* stop with a request number that begin_share had published and then had to take back.
THEOREM ClosedKeyIsNotForgotten == Spec => []HiddenOnlyByRace
<1>1. NumbersInv /\ HiddenInv => HiddenOnlyByRace
  <2>. SUFFICES ASSUME NumbersInv, HiddenInv, ~raced, key \in Shared, key <= closed, ~stopPending,
                       lvgl = "idle"
                PROVE  NoHiddenKey
    BY DEF HiddenOnlyByRace, NoHiddenKey
  <2>1. Covered /\ Settled = requestId /\ ~StopOwed
    BY DEF HiddenInv, Settled, StopOwed
  <2>. QED
    BY <2>1 DEF NoHiddenKey, Covered, QueuedShare, InFlight
<1>. QED
  BY <1>1, ShareInvAlways, PTL

\* A stop that waited in the queue, or for the queue, ends only a key of a request that the
\* user closed before: never one opened since.
THEOREM DelayedStopIsHarmless == Spec => NewerKeySurvives
<1>1. JobsTyped /\ NumbersInv /\ [Next]_vars =>
        [work.job.type = "share_stop" /\ key \in Shared /\ key' = Off /\ work' # work
           => key <= closed]_vars
  <2>. SUFFICES ASSUME JobsTyped, NumbersInv, [Next]_vars, work.job.type = "share_stop",
                       key \in Shared, key' = Off, work' # work
                PROVE  key <= closed
    OBVIOUS
  <2>1. key' # key
    BY UiWorkerAssumption DEF Off, Shared
  <2>2. ~Aside
    BY AsideStep DEF Stays, Adds
  <2>3. ~AtWork
    BY AtWorkStep
  <2>4. StopKey
    BY <2>1, <2>2, <2>3, ShareSteps
    DEF Receive, OpenShare, SendShare, ShareRefused, CloseShare, SendStop, RetryStop,
        StopIsCurrent, vars
  <2>. QED
    BY <2>4 DEF StopKey, On, NumbersInv
<1>. QED
  BY <1>1, ShareInvAlways, PTL DEF Spec, NewerKeySurvives
=============================================================================
