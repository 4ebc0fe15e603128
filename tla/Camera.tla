------------------------------- MODULE Camera -------------------------------
(***************************************************************************)
(* The camera: the scanner of qrscan.c, the jobs of the UI worker that use *)
(* it (QR scan, preview, self test), the touch callbacks that start and    *)
(* cancel them, and the probe app_main makes at boot.  The scanner keeps   *)
(* its pipeline (device, mapped buffers, decoder) when it stops, so a start*)
(* is warm or cold, and each of its calls into the driver may fail.        *)
(*                                                                         *)
(* A step is one call into the driver, with the tests before it.  Touch    *)
(* callbacks are one step each: they run under the display lock, and the   *)
(* worker looks only at the abort flags they set, under their spinlocks.   *)
(***************************************************************************)
EXTENDS Naturals, Sequences

CONSTANTS
  Buffers,    \* BUF_COUNT
  MaxFrames,  \* frames a job captures at most (400, 40 in a self test)
  Depth,      \* slots of s_jobs that these jobs may take
  EarlyTaps   \* the screen and the console are in use before app_main's probe

ASSUME CameraAssumption ==
  /\ Buffers \in Nat \ {0} /\ MaxFrames \in Nat \ {0} /\ Depth \in Nat \ {0}
  /\ EarlyTaps \in BOOLEAN

VARIABLES
  at,          \* per task: where it is
  running, inited, open, mapped, decoder,  \* s_running, s_video_inited, s_fd, s_buf, s_quirc
  registered,  \* external: the video device is registered
  queued,      \* external: buffers the driver holds
  streaming,   \* external: the stream is on
  fault,       \* history, per task: a call of this start failed by itself
  queue, job,  \* s_jobs, and the job of the worker
  busy,        \* s_ui_job_busy
  abort,       \* s_qr_abort and s_camera_abort
  canvas,      \* s_preview could be allocated
  frames,      \* the job's frame counter
  got,         \* the job has decoded what it wants
  coded,       \* s_code holds nine digits
  panel,       \* the panel on the screen
  cancelled    \* history: the user has cancelled the job busy stands for

scanner == <<running, inited, open, mapped, decoder, registered, queued, streaming, fault>>
jobVars == <<job, frames, got>>
screenVars == <<busy, abort, canvas, panel, cancelled>>
vars == <<at, scanner, queue, jobVars, screenVars, coded>>

Tasks == {"worker", "main"}
Places == {"idle", "start", "init", "open", "map", "stream", "decoder", "requeue", "restream",
           "teardown", "on", "off", "look", "poll", "frame", "decode", "stop", "end"}
Jobs == {"none", "qr", "preview", "test", "join"}
Cancellable == {"qr", "preview"}

TypeOK ==
  /\ at["worker"] \in STRING /\ at["main"] \in Places /\ at["console"] \in {"idle", "checked"}
  /\ running \in BOOLEAN /\ inited \in BOOLEAN /\ open \in BOOLEAN /\ decoder \in BOOLEAN
  /\ registered \in BOOLEAN /\ streaming \in BOOLEAN
  /\ mapped \in 0..Buffers /\ queued \in 0..Buffers
  /\ fault \in [Tasks -> BOOLEAN]
  /\ queue \in Seq(Jobs) /\ Len(queue) <= Depth /\ job \in Jobs
  /\ busy \in BOOLEAN /\ abort \in [Cancellable -> BOOLEAN] /\ canvas \in BOOLEAN
  /\ frames \in 0..MaxFrames /\ got \in BOOLEAN /\ coded \in BOOLEAN
  /\ panel \in {"keypad", "qr", "settings", "camera", "result"} /\ cancelled \in BOOLEAN

\* app_main is about to probe the camera; the screen is up.
Init ==
  /\ at = [t \in Tasks \cup {"console"} |-> IF t = "main" THEN "start" ELSE "idle"]
  /\ running = FALSE /\ inited = FALSE /\ open = FALSE /\ mapped = 0 /\ decoder = FALSE
  /\ registered = FALSE /\ queued = 0 /\ streaming = FALSE
  /\ fault = [t \in Tasks |-> FALSE]
  /\ queue = <<>> /\ job = "none" /\ frames = 0 /\ got = FALSE
  /\ busy = FALSE /\ abort = [j \in Cancellable |-> FALSE] /\ canvas \in BOOLEAN
  /\ panel = "settings" /\ coded = FALSE /\ cancelled = FALSE

Goes(t, from, to) == at[t] = from /\ at' = [at EXCEPT ![t] = to]
Fails(t) == fault' = [fault EXCEPT ![t] = TRUE]

\* The history of a start ends with it.
Judged(t) ==
  /\ fault' = [fault EXCEPT ![t] = FALSE]
  /\ UNCHANGED <<running, inited, open, mapped, decoder, registered, queued, streaming>>

-----------------------------------------------------------------------------
(* qrscan_start, by task t. *)

\* Nothing to do, a warm restart, or a cold start.
Start(t) ==
  /\ Goes(t, "start",
          IF running THEN "on" ELSE IF open THEN "requeue" ELSE IF inited THEN "open" ELSE "init")
  /\ UNCHANGED scanner

\* bsp_camera_start: not idempotent, a second registration is refused.
BringUp(t) ==
  /\ \/ /\ ~registered /\ registered' = TRUE /\ inited' = TRUE
        /\ Goes(t, "init", "open") /\ UNCHANGED fault
     \/ /\ Goes(t, "init", "off") /\ UNCHANGED <<registered, inited>>
        /\ fault' = [fault EXCEPT ![t] = ~registered]
  /\ UNCHANGED <<running, open, mapped, decoder, queued, streaming>>

Open(t) ==
  /\ \/ open' = TRUE /\ Goes(t, "open", "map") /\ UNCHANGED fault
     \/ UNCHANGED open /\ Goes(t, "open", "off") /\ Fails(t)
  /\ UNCHANGED <<running, inited, mapped, decoder, registered, queued, streaming>>

\* The format, the buffers: map and queue one after the other, up to the first failure.
MapBuffers(t) ==
  /\ \/ /\ mapped' = Buffers /\ queued' = Buffers
        /\ Goes(t, "map", "stream") /\ UNCHANGED fault
     \/ /\ mapped' \in 0..Buffers
        /\ queued' \in {n \in 0..Buffers - 1 : n = mapped' \/ n + 1 = mapped'}
        /\ Goes(t, "map", "teardown") /\ Fails(t)
  /\ UNCHANGED <<running, inited, open, decoder, registered, streaming>>

StreamOn(t) ==
  /\ \/ streaming' = TRUE /\ Goes(t, "stream", "decoder") /\ UNCHANGED fault
     \/ UNCHANGED streaming /\ Goes(t, "stream", "teardown") /\ Fails(t)
  /\ UNCHANGED <<running, inited, open, mapped, decoder, registered, queued>>

\* quirc_new may fail, or quirc_resize after it.
NewDecoder(t) ==
  /\ \/ /\ decoder' = TRUE /\ running' = TRUE
        /\ Goes(t, "decoder", "on") /\ UNCHANGED fault
     \/ /\ decoder' \in BOOLEAN /\ UNCHANGED running
        /\ Goes(t, "decoder", "teardown") /\ Fails(t)
  /\ UNCHANGED <<inited, open, mapped, registered, queued, streaming>>

\* Fault: a failed warm restart leaves the pipeline as it is.
RequeueLeaves(t) ==
  /\ \/ /\ queued = 0 /\ queued' = Buffers
        /\ Goes(t, "requeue", "restream") /\ UNCHANGED fault
     \/ /\ queued' \in IF queued = 0 THEN 0..Buffers - 1 ELSE {queued}
        /\ Goes(t, "requeue", "off")
        /\ fault' = [fault EXCEPT ![t] = queued = 0]
  /\ UNCHANGED <<running, inited, open, mapped, decoder, registered, streaming>>

\* The warm restart: the driver takes only buffers it does not hold.
Requeue(t) ==
  /\ \/ /\ queued = 0 /\ queued' = Buffers
        /\ Goes(t, "requeue", "restream") /\ UNCHANGED fault
     \/ /\ queued' \in IF queued = 0 THEN 0..Buffers - 1 ELSE {queued}
        /\ Goes(t, "requeue", "teardown")
        /\ fault' = [fault EXCEPT ![t] = queued = 0]
  /\ UNCHANGED <<running, inited, open, mapped, decoder, registered, streaming>>

StreamAgain(t) ==
  /\ \/ /\ streaming' = TRUE /\ running' = TRUE
        /\ Goes(t, "restream", "on") /\ UNCHANGED fault
     \/ /\ UNCHANGED <<streaming, running>>
        /\ Goes(t, "restream", "teardown") /\ Fails(t)
  /\ UNCHANGED <<inited, open, mapped, decoder, registered, queued>>

\* qrscan_teardown.
Teardown(t) ==
  /\ Goes(t, "teardown", "off")
  /\ IF open THEN queued' = 0 /\ streaming' = FALSE ELSE UNCHANGED <<queued, streaming>>
  /\ open' = FALSE /\ decoder' = FALSE /\ mapped' = 0 /\ running' = FALSE
  /\ UNCHANGED <<inited, registered, fault>>

\* qrscan_stop: STREAMOFF gives every buffer back; the rest is kept.
Stop(t) ==
  /\ Goes(t, "stop", "end")
  /\ IF running
       THEN running' = FALSE /\ streaming' = FALSE /\ queued' = 0
       ELSE UNCHANGED <<running, streaming, queued>>
  /\ UNCHANGED <<inited, open, mapped, decoder, registered, fault>>

Scanner(t) ==
  /\ \/ Start(t) \/ BringUp(t) \/ Open(t) \/ MapBuffers(t) \/ StreamOn(t) \/ NewDecoder(t)
     \/ Requeue(t) \/ StreamAgain(t) \/ Teardown(t) \/ Stop(t)
  /\ UNCHANGED <<queue, jobVars, screenVars, coded>>

\* app_main's probe: start, and stop if that worked.
Probe ==
  /\ Goes("main", "on", "stop") \/ Goes("main", "off", "idle") \/ Goes("main", "end", "idle")
  /\ Judged("main")
  /\ UNCHANGED <<queue, jobVars, screenVars, coded>>

-----------------------------------------------------------------------------
(* The jobs of the worker. *)

CameraJobs == {"qr", "preview", "test"}

\* worker: a preview without its canvas does not start.
Receive ==
  /\ queue # <<>> /\ Head(queue) \in CameraJobs
  /\ LET next == Head(queue)
     IN  /\ Goes("worker", "idle", IF next = "preview" /\ ~canvas THEN "end" ELSE "start")
         /\ job' = next
  /\ queue' = Tail(queue)
  /\ UNCHANGED <<scanner, frames, got, screenVars, coded>>

Started ==
  /\ Goes("worker", "on", "look") \/ Goes("worker", "off", "end")
  /\ Judged("worker")
  /\ UNCHANGED <<queue, jobVars, screenVars, coded>>

\* Fault: a frame without a code is not counted.
LookUncounted ==
  /\ LET more == frames < MaxFrames /\ ~got /\ ~(job \in Cancellable /\ abort[job])
     IN  Goes("worker", "look", IF more THEN "poll" ELSE "stop")
  /\ UNCHANGED <<scanner, queue, jobVars, screenVars, coded>>

\* The condition of each job's loop.
Look ==
  /\ LET more == frames < MaxFrames /\ ~got /\ ~(job \in Cancellable /\ abort[job])
     IN  /\ Goes("worker", "look", IF more THEN "poll" ELSE "stop")
         /\ frames' = IF more THEN frames + 1 ELSE frames
  /\ UNCHANGED <<scanner, queue, job, got, screenVars, coded>>

\* qrscan_poll: a frame out of the driver's queue, or nothing ...
Poll ==
  /\ \/ Goes("worker", "poll", "look") /\ UNCHANGED scanner
     \/ /\ running /\ queued > 0 /\ queued' = queued - 1
        /\ Goes("worker", "poll", "frame")
        /\ UNCHANGED <<running, inited, open, mapped, decoder, registered, streaming, fault>>
  /\ UNCHANGED <<queue, jobVars, screenVars, coded>>

\* ... which goes back to the driver before it is decoded; a failure is ignored.
GiveBack ==
  /\ Goes("worker", "frame", "decode")
  /\ queued' \in {queued} \cup IF queued < Buffers THEN {queued + 1} ELSE {}
  /\ UNCHANGED <<running, inited, open, mapped, decoder, registered, streaming, fault>>
  /\ UNCHANGED <<queue, jobVars, screenVars, coded>>

\* No code, one without nine digits, or one the scan takes; the self test takes
\* any, the preview none.
Decode ==
  /\ Goes("worker", "decode", "look")
  /\ \/ UNCHANGED <<got, coded>>
     \/ job = "qr" /\ got' = TRUE /\ coded' = TRUE
     \/ job = "test" /\ got' = TRUE /\ UNCHANGED coded
  /\ UNCHANGED <<scanner, queue, job, frames, screenVars>>

\* A scan that has its code shows it; then the end of the worker's loop.
EndJob ==
  /\ Goes("worker", "end", "idle")
  /\ job' = "none" /\ frames' = 0 /\ got' = FALSE
  /\ IF job = "test"
       THEN UNCHANGED <<busy, cancelled>>
       ELSE busy' = FALSE /\ cancelled' = FALSE
  /\ panel' = IF job = "qr" /\ got THEN "keypad" ELSE panel
  /\ UNCHANGED <<scanner, queue, abort, canvas, coded>>

CameraWorker == Receive \/ Started \/ Look \/ Poll \/ GiveBack \/ Decode \/ EndJob

-----------------------------------------------------------------------------
(* Touch callbacks and the console. *)

Reachable == EarlyTaps \/ at["main"] = "idle"
Refuses == busy

\* on_qr_open, on_camera_open: the flag is cleared only when no job is left that
\* it might be meant for, and set again if the queue is full of other work.
Opens(j, home, shows) ==
  /\ Reachable /\ ~Refuses
  /\ panel \in {home, shows}
  /\ \/ /\ Len(queue) < Depth /\ queue' = Append(queue, j)
        /\ busy' = TRUE /\ abort' = [abort EXCEPT ![j] = FALSE]
        /\ panel' = shows
        /\ cancelled' = FALSE
     \/ /\ abort' = [abort EXCEPT ![j] = TRUE]
        /\ panel' = IF j = "preview" THEN shows ELSE panel
        /\ UNCHANGED <<queue, busy, cancelled>>
  /\ UNCHANGED <<at, scanner, jobVars, canvas, coded>>

\* Fault: Retry clears the flag before it finds out that the device is busy.
RefusedClears(j, home, shows) ==
  /\ Reachable /\ Refuses
  /\ panel \in {home, shows}
  /\ abort' = [abort EXCEPT ![j] = FALSE]
  /\ panel' = IF j = "preview" THEN shows ELSE panel
  /\ UNCHANGED <<at, scanner, queue, jobVars, busy, canvas, cancelled, coded>>

\* Busy: only the preview's panel is shown.
Refused(j, home, shows) ==
  /\ Reachable /\ Refuses
  /\ panel \in {home, shows}
  /\ panel' = IF j = "preview" THEN shows ELSE panel
  /\ UNCHANGED <<at, scanner, queue, jobVars, busy, abort, canvas, cancelled, coded>>

\* on_qr_cancel, on_camera_cancel.
Cancels(j, home, shows) ==
  /\ panel = shows /\ panel' = home
  /\ abort' = [abort EXCEPT ![j] = TRUE]
  /\ cancelled' = (cancelled \/ (busy /\ (job = j \/ \E i \in DOMAIN queue : queue[i] = j)))
  /\ UNCHANGED <<at, scanner, queue, jobVars, busy, canvas, coded>>

Touches(j, home, shows) == Opens(j, home, shows) \/ Refused(j, home, shows) \/ Cancels(j, home, shows)

\* on_pick, on_back_main and on_settings: to another screen; picking a router
\* empties the code.
Navigate ==
  /\ Reachable /\ panel \in {"keypad", "settings", "result"}
  /\ \/ panel' = "keypad" /\ coded' = FALSE
     \/ panel' = "settings" /\ UNCHANGED coded
  /\ UNCHANGED <<at, scanner, queue, jobVars, busy, abort, canvas, cancelled>>

\* on_keypad: the ninth digit, or a backspace after it.
Types ==
  /\ panel = "keypad" /\ coded' = ~coded
  /\ UNCHANGED <<at, scanner, queue, jobVars, screenVars>>

\* cmd_camtest: look whether the scanner is in use ...
CamtestChecks ==
  /\ Reachable /\ ~running
  /\ Goes("console", "idle", "checked")
  /\ UNCHANGED <<scanner, queue, jobVars, screenVars, coded>>

\* ... and ui_run_camtest.  (Waiting for the end, or for two minutes: UiWorker.)
CamtestQueues ==
  /\ Goes("console", "checked", "idle")
  /\ queue' \in {queue} \cup IF Len(queue) < Depth THEN {Append(queue, "test")} ELSE {}
  /\ UNCHANGED <<scanner, jobVars, screenVars, coded>>

CameraUser ==
  \/ Touches("qr", "keypad", "qr") \/ Touches("preview", "settings", "camera")
  \/ Navigate \/ Types \/ CamtestChecks \/ CamtestQueues

Next == Scanner("worker") \/ Scanner("main") \/ Probe \/ CameraWorker \/ CameraUser

-----------------------------------------------------------------------------
(* Properties. *)

\* The video device is registered exactly once in the life of the process: the
\* driver's start is never called when it is registered, nor by two tasks.
BroughtUpOnce == \A t \in Tasks : at[t] = "init" => ~registered

\* A start fails only because a call into the driver failed there and then, never
\* because of what an earlier failed start, an earlier scan or a lost buffer left
\* behind: Retry always gets a clean pipeline.
FailureIsFresh == \A t \in Tasks : at[t] = "off" => fault[t]

\* Once the user has cancelled a scan or a preview, queued or running, no further
\* frame is taken for it, whatever is tapped while it is finishing.
CancelSticks ==
  [][at["worker"] = "look" /\ at'["worker"] = "poll" /\ job \in Cancellable => ~cancelled]_vars
=============================================================================
