------------------------------ MODULE UiWorker ------------------------------
(***************************************************************************)
(* The operation worker of ui.c: one task that takes jobs from a queue of  *)
(* four, fed by the touch screen (LVGL task), by REST handlers and console *)
(* commands that wait for a completion (ui_run_on_worker), by the console's*)
(* camera test and by Wi-Fi events.  On top of it, the life of the         *)
(* ephemeral key a user shares: request numbers, cancelled starts and      *)
(* close requests that are retried until they are queued.                  *)
(*                                                                         *)
(* What a job does to the rest of the system is left out, except what it   *)
(* does to the key.  LVGL callbacks run one at a time under the display    *)
(* lock; begin_share and on_share_close are split where the worker, on the *)
(* other core, can act between two of their statements.                    *)
(***************************************************************************)
EXTENDS Naturals, Sequences

CONSTANTS
  Depth,     \* slots of s_jobs (4)
  Callers,   \* tasks that use ui_run_on_worker
  Console,   \* the one of them that may also ask for a camera test
  None,      \* no task
  Slow,      \* a camera test may take longer than the two minutes it is given
  MaxId,     \* bound: share request numbers
  MaxTests   \* bound: camera tests

ASSUME UiWorkerAssumption ==
  /\ Depth \in Nat \ {0} /\ MaxId \in Nat /\ MaxTests \in Nat
  /\ None \notin Callers
  /\ Slow \in BOOLEAN

VARIABLES
  queue,        \* s_jobs
  work,         \* the job the worker is on, and how far it has come
  busy,         \* s_ui_job_busy
  at,           \* per caller: where it is in ui_run_on_worker
  lock,         \* s_call_lock: its holder
  callDone,     \* s_call_done
  ran,          \* history: how often the caller's function ran
  testDone,     \* s_camtest_done
  test,         \* history: number of the camera test queued last
  tested,       \* history: number of the camera test that finished last
  shown,        \* panel_share is on the screen
  lvgl,         \* where the LVGL task is in begin_share or on_share_close
  requestId,    \* s_share_request_id
  stopPending,  \* s_share_stop_pending
  active,       \* s_share_active
  saved,        \* begin_share's previous_stop_pending
  key,          \* external: request that started the active key, Off or Remote
  closed,       \* history: requests up to this one were closed by the user
  raced         \* history: a stop met a request number that was not yet settled

callVars == <<at, lock, callDone, ran>>
testVars == <<testDone, test, tested>>
shareVars == <<shown, lvgl, requestId, stopPending, saved, closed, raced>>
vars == <<queue, work, busy, callVars, testVars, shareVars, active, key>>

Off == 0
Remote == MaxId + 1   \* a key started by a REST or console call
Shared == 1..MaxId    \* a key of the share screen

\* JOB_SHARE, JOB_SHARE_STOP, JOB_CALL and JOB_CAMTEST; Ui stands for every
\* other job of is_ui_job, Control for JOB_BR_START and JOB_RENAME.
Job(type, id, caller) == [type |-> type, id |-> id, caller |-> caller]
Share(id) == Job("share", id, None)
ShareStop(id) == Job("share_stop", id, None)
Call(c) == Job("call", 0, c)
Camtest(n) == Job("camtest", n, None)
Ui == Job("ui", 0, None)
Control == Job("control", 0, None)
NoJob == Job("none", 0, None)
IsUiJob(j) == j.type \in {"ui", "share"}

Resting == [job |-> NoJob, step |-> "run"]

JobType ==
  [type : {"share", "share_stop", "call", "camtest", "ui", "control", "none"},
   id : 0..MaxId + MaxTests, caller : Callers \cup {None}]

TypeOK ==
  /\ queue \in Seq(JobType) /\ Len(queue) <= Depth
  /\ work \in [job : JobType, step : {"run", "start", "started", "failed", "cancel",
                                     "hide", "show", "end", "stop", "give"}]
  /\ busy \in BOOLEAN
  /\ at \in [Callers -> {"idle", "lock", "locked", "sent", "test"}]
  /\ lock \in Callers \cup {None} /\ callDone \in BOOLEAN
  /\ ran \in [Callers -> 0..1]
  /\ testDone \in BOOLEAN /\ test \in 0..MaxTests /\ tested \in 0..MaxTests
  /\ shown \in BOOLEAN /\ lvgl \in {"idle", "opening", "refused", "closing"}
  /\ requestId \in 0..MaxId /\ closed \in 0..MaxId
  /\ stopPending \in BOOLEAN /\ saved \in BOOLEAN /\ active \in BOOLEAN
  /\ raced \in BOOLEAN
  /\ key \in Shared \cup {Off, Remote}

Init ==
  /\ queue = <<>> /\ work = Resting /\ busy = FALSE
  /\ at = [c \in Callers |-> "idle"] /\ lock = None /\ callDone = FALSE
  /\ ran = [c \in Callers |-> 0]
  /\ testDone = FALSE /\ test = 0 /\ tested = 0
  /\ shown = FALSE /\ lvgl = "idle" /\ requestId = 0 /\ stopPending = FALSE /\ saved = FALSE
  /\ active = FALSE /\ key = Off /\ closed = 0 /\ raced = FALSE

-----------------------------------------------------------------------------
(* The queue. *)

HasRoom == Len(queue) < Depth
Send(j) == HasRoom /\ queue' = Append(queue, j)

\* Fault: a full queue leaves the flag set.
QueueUiJobLeavesBusy(j) ==
  /\ busy' = TRUE
  /\ queue' = IF HasRoom THEN Append(queue, j) ELSE queue

\* queue_ui_job, for a caller that has found the flag clear.
QueueUiJob(j) ==
  /\ busy' = HasRoom
  /\ queue' = IF HasRoom THEN Append(queue, j) ELSE queue

\* ui_defer_br_start from a Wi-Fi event, or a rename.
SendControl ==
  /\ Send(Control)
  /\ UNCHANGED <<work, busy, callVars, testVars, shareVars, active, key>>

\* A scan, a join, a QR or camera job, forming, forgetting, factory reset.
TapOperation ==
  /\ lvgl = "idle" /\ ~busy
  /\ QueueUiJob(Ui)
  /\ UNCHANGED <<work, callVars, testVars, shareVars, active, key>>

-----------------------------------------------------------------------------
(* ui_run_on_worker. *)

Enter(c) ==
  /\ at[c] = "idle"
  /\ at' = [at EXCEPT ![c] = "lock"]
  /\ ran' = [ran EXCEPT ![c] = 0]
  /\ UNCHANGED <<queue, work, busy, lock, callDone, testVars, shareVars, active, key>>

\* FALSE: another call holds the lock for longer than the caller waits.
LockTimeout(c) ==
  /\ at[c] = "lock" /\ lock # None
  /\ at' = [at EXCEPT ![c] = "idle"]
  /\ UNCHANGED <<queue, work, busy, lock, callDone, ran, testVars, shareVars, active, key>>

\* Fault: callers are not serialised.
LockWithoutTaking(c) ==
  /\ at[c] = "lock"
  /\ callDone' = FALSE
  /\ at' = [at EXCEPT ![c] = "locked"]
  /\ UNCHANGED <<queue, work, busy, lock, ran, testVars, shareVars, active, key>>

\* Take the lock, and a completion nobody took.
Lock(c) ==
  /\ at[c] = "lock" /\ lock = None
  /\ lock' = c /\ callDone' = FALSE
  /\ at' = [at EXCEPT ![c] = "locked"]
  /\ UNCHANGED <<queue, work, busy, ran, testVars, shareVars, active, key>>

SendCall(c) ==
  /\ at[c] = "locked"
  /\ Send(Call(c))
  /\ at' = [at EXCEPT ![c] = "sent"]
  /\ UNCHANGED <<work, busy, lock, callDone, ran, testVars, shareVars, active, key>>

\* FALSE: the queue stayed full.
SendTimeout(c) ==
  /\ at[c] = "locked" /\ ~HasRoom
  /\ lock' = None
  /\ at' = [at EXCEPT ![c] = "idle"]
  /\ UNCHANGED <<queue, work, busy, callDone, ran, testVars, shareVars, active, key>>

\* Fault: the deadline ends the wait.
CompleteOrTimeout(c) ==
  /\ at[c] = "sent"
  /\ callDone' = FALSE /\ lock' = None
  /\ at' = [at EXCEPT ![c] = "idle"]
  /\ UNCHANGED <<queue, work, busy, ran, testVars, shareVars, active, key>>

\* TRUE: the completion.  The deadline only writes a warning.
Complete(c) ==
  /\ at[c] = "sent" /\ callDone
  /\ callDone' = FALSE /\ lock' = None
  /\ at' = [at EXCEPT ![c] = "idle"]
  /\ UNCHANGED <<queue, work, busy, ran, testVars, shareVars, active, key>>

-----------------------------------------------------------------------------
(* ui_run_camtest. *)

TestCamera ==
  /\ at[Console] = "idle" /\ test < MaxTests
  /\ Send(Camtest(test + 1))
  /\ test' = test + 1
  /\ at' = [at EXCEPT ![Console] = "test"]
  /\ UNCHANGED <<work, busy, lock, callDone, ran, testDone, tested, shareVars, active, key>>

\* TRUE.
TestFinished ==
  /\ at[Console] = "test" /\ testDone
  /\ testDone' = FALSE
  /\ at' = [at EXCEPT ![Console] = "idle"]
  /\ UNCHANGED <<queue, work, busy, lock, callDone, ran, test, tested, shareVars,
                 active, key>>

\* FALSE: two minutes are over, and the test is still in the queue or running.
TestTimeout ==
  /\ Slow
  /\ at[Console] = "test" /\ ~testDone
  /\ at' = [at EXCEPT ![Console] = "idle"]
  /\ UNCHANGED <<queue, work, busy, lock, callDone, ran, testVars, shareVars, active, key>>

-----------------------------------------------------------------------------
(* The share screen (LVGL task). *)

\* Another operation is running: the screen only says so.
OpenShareBusy ==
  /\ lvgl = "idle" /\ busy
  /\ ~shown /\ shown' = TRUE
  /\ UNCHANGED <<queue, work, busy, callVars, testVars, raced, lvgl, requestId, stopPending,
                 saved, closed, active, key>>

\* Fault: a close request still waiting to be sent outlives the new request.
OpenSharePending ==
  /\ lvgl = "idle" /\ ~busy
  /\ requestId < MaxId
  /\ requestId' = requestId + 1
  /\ saved' = stopPending
  /\ shown' = TRUE /\ lvgl' = "opening"
  /\ UNCHANGED <<queue, work, busy, callVars, testVars, raced, stopPending, closed, active, key>>

\* begin_share: publish the new request number ...
OpenShare ==
  /\ lvgl = "idle" /\ ~busy
  /\ requestId < MaxId
  /\ requestId' = requestId + 1
  /\ saved' = stopPending /\ stopPending' = FALSE
  /\ shown' = TRUE /\ lvgl' = "opening"
  /\ UNCHANGED <<queue, work, busy, callVars, testVars, raced, closed, active, key>>

\* ... queue the job ...
SendShare ==
  /\ lvgl = "opening"
  /\ QueueUiJob(Share(requestId))
  /\ lvgl' = IF HasRoom THEN "idle" ELSE "refused"
  /\ UNCHANGED <<work, callVars, testVars, raced, shown, requestId, stopPending, saved,
                 closed, active, key>>

\* ... and take the number back if the queue is full.
ShareRefused ==
  /\ lvgl = "refused"
  /\ requestId' = requestId - 1
  /\ stopPending' = saved
  /\ lvgl' = "idle"
  /\ UNCHANGED <<queue, work, busy, callVars, testVars, raced, shown, saved, closed, active, key>>

\* on_share_close: invalidate a start that is still in flight ...
CloseShare ==
  /\ lvgl = "idle" /\ shown /\ shown' = FALSE
  /\ requestId < MaxId
  /\ active' = FALSE
  /\ closed' = requestId
  /\ requestId' = requestId + 1
  /\ lvgl' = "closing"
  /\ UNCHANGED <<queue, work, busy, callVars, testVars, raced, stopPending, saved, key>>

\* Fault: a close request that finds the queue full is forgotten.
SendStopOnce ==
  /\ lvgl = "closing"
  /\ IF HasRoom THEN Send(ShareStop(requestId)) ELSE UNCHANGED queue
  /\ lvgl' = "idle"
  /\ UNCHANGED <<work, busy, callVars, testVars, raced, shown, requestId, stopPending, saved,
                 closed, active, key>>

\* ... and ask the worker to stop the key, now or later.
SendStop ==
  /\ lvgl = "closing"
  /\ \/ Send(ShareStop(requestId)) /\ UNCHANGED stopPending
     \/ ~HasRoom /\ stopPending' = TRUE /\ UNCHANGED queue
  /\ lvgl' = "idle"
  /\ UNCHANGED <<work, busy, callVars, testVars, raced, shown, requestId, saved, closed,
                 active, key>>

\* Fault: the retry counts as done whether or not the queue took it.
RetryStopForgets ==
  /\ lvgl = "idle" /\ stopPending
  /\ stopPending' = FALSE
  /\ IF HasRoom THEN Send(ShareStop(requestId)) ELSE UNCHANGED queue
  /\ UNCHANGED <<work, busy, callVars, testVars, raced, shown, lvgl, requestId, saved, closed,
                 active, key>>

\* role_timer_cb: try again.
RetryStop ==
  /\ lvgl = "idle" /\ stopPending
  /\ Send(ShareStop(requestId))
  /\ stopPending' = FALSE
  /\ UNCHANGED <<work, busy, callVars, testVars, raced, shown, lvgl, requestId, saved, closed,
                 active, key>>

\* share_timer_cb: the key was used or has expired.
ShareTick ==
  /\ lvgl = "idle" /\ active /\ key = Off
  /\ active' = FALSE
  /\ UNCHANGED <<queue, work, busy, callVars, testVars, shareVars, key>>

-----------------------------------------------------------------------------
(* The worker. *)

Receive ==
  /\ work = Resting /\ queue # <<>>
  /\ work' = [job |-> Head(queue), step |-> "run"]
  /\ queue' = Tail(queue)
  /\ UNCHANGED <<busy, callVars, testVars, shareVars, active, key>>

On(type, step) == work.job.type = type /\ work.step = step
GoOn(step) == work' = [work EXCEPT !.step = step]

\* The end of the loop.
EndJob ==
  /\ work' = Resting
  /\ busy' = (busy /\ ~IsUiJob(work.job))

RunOperation ==
  /\ On("ui", "run") \/ On("control", "run") \/ On("share", "end")
  /\ EndJob
  /\ UNCHANGED <<queue, callVars, testVars, shareVars, active, key>>

RunCamtest ==
  /\ On("camtest", "run")
  /\ testDone' = TRUE /\ tested' = work.job.id
  /\ EndJob
  /\ UNCHANGED <<queue, callVars, test, shareVars, active, key>>

\* Fault: a path through the function leaves the loop early.
RunCallWithoutGive ==
  /\ On("call", "run")
  /\ ran' = [ran EXCEPT ![work.job.caller] = @ + 1]
  /\ EndJob
  /\ UNCHANGED <<queue, at, lock, callDone, testVars, shareVars, active, key>>

\* The function; it may start or stop a key (do_share_start, do_share_stop).
RunCall ==
  /\ On("call", "run")
  /\ ran' = [ran EXCEPT ![work.job.caller] = @ + 1]
  /\ key' \in {key, Off} \cup IF key = Off THEN {Remote} ELSE {}
  /\ GoOn("give")
  /\ UNCHANGED <<queue, busy, at, lock, callDone, testVars, shareVars, active>>

GiveCompletion ==
  /\ On("call", "give")
  /\ callDone' = TRUE
  /\ EndJob
  /\ UNCHANGED <<queue, at, lock, ran, testVars, shareVars, active, key>>

\* JOB_SHARE: replace the previous key.
ShareReplaces ==
  /\ On("share", "run")
  /\ key' = Off
  /\ GoOn("start")
  /\ UNCHANGED <<queue, busy, callVars, testVars, shareVars, active>>

ShareStarts ==
  /\ On("share", "start")
  /\ \/ key' = work.job.id /\ GoOn("started")
     \/ UNCHANGED key /\ GoOn("failed")
  /\ UNCHANGED <<queue, busy, callVars, testVars, shareVars, active>>

\* cancelled: closed while it was being started?
ShareDecides ==
  /\ On("share", "started") \/ On("share", "failed")
  /\ LET cancelled == work.job.id # requestId
         ok == work.step = "started"
     IN  GoOn(CASE cancelled /\ ok  -> "cancel"
                [] cancelled /\ ~ok -> "hide"
                [] ~cancelled /\ ok -> "show"
                [] OTHER            -> "end")
  /\ UNCHANGED <<queue, busy, callVars, testVars, shareVars, active, key>>

ShareCancels ==
  /\ On("share", "cancel")
  /\ key' = Off
  /\ GoOn("hide")
  /\ UNCHANGED <<queue, busy, callVars, testVars, shareVars, active>>

\* Under the display lock.
ShareShows ==
  /\ lvgl = "idle"
  /\ \/ On("share", "show") /\ active' = TRUE
     \/ On("share", "hide") /\ active' = FALSE
  /\ GoOn("end")
  /\ UNCHANGED <<queue, busy, callVars, testVars, shareVars, key>>

\* JOB_SHARE_STOP: only if nothing was requested since.
StopIsCurrent ==
  /\ On("share_stop", "run")
  /\ IF work.job.id = requestId THEN GoOn("stop") /\ UNCHANGED busy ELSE EndJob
  /\ raced' = (raced \/ lvgl \in {"opening", "refused"})
  /\ UNCHANGED <<queue, callVars, testVars, shown, lvgl, requestId, stopPending, saved,
                 closed, active, key>>

StopKey ==
  /\ On("share_stop", "stop")
  /\ key' = Off /\ active' = FALSE
  /\ EndJob
  /\ UNCHANGED <<queue, callVars, testVars, shareVars>>

\* A commissioner used the key, or its lifetime is over.
KeyEnds ==
  /\ key # Off /\ key' = Off
  /\ UNCHANGED <<queue, work, busy, callVars, testVars, shareVars, active>>

-----------------------------------------------------------------------------
(* The specification. *)

Caller(c) ==
  \/ Enter(c) \/ LockTimeout(c) \/ Lock(c)
  \/ SendCall(c) \/ SendTimeout(c) \/ Complete(c)

CameraTest == TestCamera \/ TestFinished \/ TestTimeout

Screen ==
  \/ TapOperation \/ OpenShare \/ OpenShareBusy \/ SendShare \/ ShareRefused
  \/ CloseShare \/ SendStop \/ RetryStop \/ ShareTick

Worker ==
  \/ Receive \/ RunOperation \/ RunCamtest \/ RunCall \/ GiveCompletion
  \/ ShareReplaces \/ ShareStarts \/ ShareDecides \/ ShareCancels \/ ShareShows
  \/ StopIsCurrent \/ StopKey

Next ==
  \/ \E c \in Callers : Caller(c)
  \/ CameraTest \/ Screen \/ Worker \/ SendControl \/ KeyEnds

Spec == Init /\ [][Next]_vars

\* Every task gets to run and every job ends; the screen's timer comes back
\* every two seconds and its job queue is not full each time.
FairSpec ==
  /\ Spec
  /\ SF_vars(Worker)
  /\ WF_vars(SendShare) /\ WF_vars(ShareRefused) /\ WF_vars(SendStop)
  /\ SF_vars(RetryStop)
  /\ WF_vars(TestFinished)
  /\ \A c \in Callers :
       /\ WF_vars(LockTimeout(c) \/ Lock(c))
       /\ WF_vars(SendCall(c) \/ SendTimeout(c))
       /\ WF_vars(Complete(c))

-----------------------------------------------------------------------------
(* Properties. *)

InFlight(j) == work.job = j \/ \E i \in DOMAIN queue : queue[i] = j
UiJobs ==
  {i \in DOMAIN queue : IsUiJob(queue[i])} \cup IF IsUiJob(work.job) THEN {0} ELSE {}

\* UI operations run one at a time, and the screen refuses taps only while one
\* of them really is in the queue or running: a flag left set would lock the
\* screen's operations until the next reboot.
OneUiOperation ==
  /\ \A i, j \in UiJobs : i = j
  /\ busy <=> UiJobs # {}

\* A function is run on its caller's stack only while that caller waits for it:
\* no call returns with its request still in the queue or running.
ArgumentAlive ==
  \A c \in Callers : InFlight(Call(c)) => at[c] = "sent"

\* A call that answers TRUE has run its function exactly once, never on
\* somebody else's completion; one that answers FALSE has not run it.
RanOnce ==
  [][\A c \in Callers :
       at[c] # "idle" /\ at'[c] = "idle" /\ at[c] # "test" =>
         ran[c] = IF at[c] = "sent" THEN 1 ELSE 0]_vars

\* A key the user closed is not left active behind the screen: until it ends,
\* its stop is pending, queued with the number the worker will accept, or being
\* carried out, or a newer share is about to replace it.
NoHiddenKey ==
  key \in Shared /\ key <= closed =>
    \/ stopPending \/ lvgl # "idle"
    \/ \E i \in DOMAIN queue : queue[i].type = "share" \/ queue[i] = ShareStop(requestId)
    \/ work.job.type = "share" /\ work.step \in {"run", "started", "cancel"}
    \/ work.job = ShareStop(requestId) \/ work.step = "stop"

\* That holds unless a stop was compared with a request number that was published
\* for a job the full queue then refused.
HiddenOnlyByRace == raced \/ NoHiddenKey

\* A delayed close does not stop a key that was opened after it.
NewerKeySurvives ==
  [][work.job.type = "share_stop" /\ key \in Shared /\ key' = Off /\ work' # work
       => key <= closed]_vars

\* The camera test that ui_run_camtest says has finished is the one it queued.
TestIsOwn == [][at[Console] = "test" /\ at'[Console] = "idle" /\ testDone => tested = test]_vars

\* A closed key ends without anybody using it and without its lifetime, but for
\* that race and for a user who goes on for ever opening shares that are refused.
ClosedKeyEnds ==
  <>[](lvgl # "refused") =>
    \A k \in Shared : (key = k /\ closed >= k /\ ~raced) ~> (key # k \/ raced)

\* Every call returns.
CallsReturn == \A c \in Callers : at[c] # "idle" ~> at[c] = "idle"
=============================================================================
